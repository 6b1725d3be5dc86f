--------------------------- MODULE BufferManager ---------------------------
(***************************************************************************)
(* src/bufferManager/BufferManager.{h,cpp}: a pool of frames over the      *)
(* pages of a file, with pin counts, dirty bits and CLOCK replacement.     *)
(*                                                                         *)
(* The users of the pool (TableHeap, BPlusTree) call fetchPage, read or    *)
(* write through the returned pointer, call markDirty after a write and    *)
(* unpinPage at the end.  `user` keeps the pointer each of them has: the   *)
(* page it asked for and the frame whose data it points into.  A user that *)
(* never unpins, as the constructor of BPlusTree (BPlusTree.h:80), is one  *)
(* that takes no further step.                                             *)
(***************************************************************************)
EXTENDS FileManager, FiniteSets

CONSTANTS PoolSize,  \* poolSize_
          User,      \* code that can hold a pointer into the pool
          None       \* "no page" and "no pointer"

ASSUME PoolAssumption ==
  /\ PoolSize \in Nat \ {0}
  /\ IsFiniteSet(User)
  /\ None \notin Page
  /\ None \notin [page : Page, frame : 0 .. PoolSize - 1]

VARIABLES frames_,     \* the frames, 0 .. PoolSize-1
          pageTable_,  \* page |-> frame, for the pages in the pool
          clockHand_,
          user         \* user[u]: the pointer u holds

poolVars == <<frames_, pageTable_, clockHand_, user>>
vars == <<disk, pageCount, poolVars>>

FrameIdx == 0 .. PoolSize - 1

Frame == [isValid : BOOLEAN, isDirty : BOOLEAN, pinCount : Nat,
          pid : Page \cup {None}, data : Content]

Pointer == [page : Page, frame : FrameIdx]

TypeOK ==
  /\ FileTypeOK
  /\ frames_ \in [FrameIdx -> Frame]
  /\ DOMAIN pageTable_ \subseteq Page
  /\ pageTable_ \in [DOMAIN pageTable_ -> FrameIdx]
  /\ clockHand_ \in FrameIdx
  /\ user \in [User -> Pointer \cup {None}]

EmptyFrame == [isValid |-> FALSE, isDirty |-> FALSE, pinCount |-> 0,
               pid |-> None, data |-> Zero]

PoolInit ==
  /\ frames_ = [f \in FrameIdx |-> EmptyFrame]
  /\ pageTable_ = [p \in {} |-> 0]
  /\ clockHand_ = 0
  /\ user = [u \in User |-> None]

Init == FileInit /\ PoolInit

-----------------------------------------------------------------------------
\* Faulty: takes any clean frame, pinned or not.
UnpinnedOrClean(f) == ~frames_[f].isValid \/ ~frames_[f].isDirty

Unpinned(f) == ~frames_[f].isValid \/ frames_[f].pinCount = 0

\* Faulty: looks at the frame under the hand first.
DistanceFromHand(f) == IF f >= clockHand_ THEN f - clockHand_ ELSE f - clockHand_ + PoolSize

\* How far the clock hand turns before it looks at frame f; it looks last at
\* the frame it stands on.
Distance(f) == IF f > clockHand_ THEN f - clockHand_ ELSE f - clockHand_ + PoolSize

\* selectVictimFrame; when it returns no frame, fetchPage throws.
Victim(f) ==
  /\ Unpinned(f)
  /\ \A g \in FrameIdx : Unpinned(g) => Distance(f) <= Distance(g)

\* Faulty: leaves the hand behind the victim, and does not wrap.
TurnHandPast(f) == clockHand_' = f + 1

TurnHand(f) == clockHand_' = f

Users(f) == {u \in User : user[u] # None /\ user[u].frame = f}

Point(u, p, f) == user' = [user EXCEPT ![u] = [page |-> p, frame |-> f]]

\* Faulty: a page found in the pool is not pinned again.
FetchHitUnpinned(u, p) ==
  /\ user[u] = None
  /\ p \in DOMAIN pageTable_
  /\ Point(u, p, pageTable_[p])
  /\ UNCHANGED <<disk, pageCount, frames_, pageTable_, clockHand_>>

FetchHit(u, p) ==
  /\ user[u] = None
  /\ p \in DOMAIN pageTable_
  /\ LET f == pageTable_[p] IN
       /\ frames_' = [frames_ EXCEPT ![f].pinCount = @ + 1]
       /\ Point(u, p, f)
  /\ UNCHANGED <<disk, pageCount, pageTable_, clockHand_>>

\* Faulty: drops the victim as it is.
WriteBackNothing(f) == f \in FrameIdx /\ UNCHANGED <<disk, pageCount>>

\* Faulty: the buffer is zeroed for its next page before it is written.
WriteBackZeroed(f) ==
  IF frames_[f].isValid /\ frames_[f].isDirty
  THEN WritePages({frames_[f].pid}, [p \in {frames_[f].pid} |-> Zero])
  ELSE UNCHANGED <<disk, pageCount>>

WriteBack(f) ==
  IF frames_[f].isValid /\ frames_[f].isDirty
  THEN WritePages({frames_[f].pid}, [p \in {frames_[f].pid} |-> frames_[f].data])
  ELSE UNCHANGED <<disk, pageCount>>

\* Faulty: the victim's page stays in the table.
AllMapped(f) == DOMAIN pageTable_

\* The pages left in the table when the mapping of f's page is erased.
MappedBut(f) == DOMAIN pageTable_ \ {frames_[f].pid}

\* The victim f is written back before the new page is read into its buffer.
LoadInto(u, p, f) ==
  /\ user[u] = None
  /\ p \notin DOMAIN pageTable_
  /\ Victim(f)
  /\ TurnHand(f)
  /\ WriteBack(f)
  /\ frames_' = [frames_ EXCEPT ![f] =
       [isValid |-> TRUE, isDirty |-> FALSE, pinCount |-> 1,
        pid |-> p, data |-> ReadPage(p)']]
  /\ pageTable_' = [q \in MappedBut(f) \cup {p} |-> IF q = p THEN f ELSE pageTable_[q]]
  /\ Point(u, p, f)

FetchMiss(u, p) == \E f \in FrameIdx : LoadInto(u, p, f)

FetchPage(u, p) == FetchHit(u, p) \/ FetchMiss(u, p)

\* A second user of a page that is in the pool; it shares the first one's pointer.
PinPage(u, p) == 
  /\ \E w \in User : user[w] # None /\ user[w].page = p
  /\ FetchHit(u, p)

UnpinPage(u) ==
  /\ user[u] # None
  /\ LET p == user[u].page IN
       /\ p \in DOMAIN pageTable_
       /\ frames_[pageTable_[p]].pinCount > 0
       /\ frames_' = [frames_ EXCEPT ![pageTable_[p]].pinCount = @ - 1]
  /\ user' = [user EXCEPT ![u] = None]
  /\ UNCHANGED <<disk, pageCount, pageTable_, clockHand_>>

\* Faulty: forgets markDirty.
ModifyUnmarked(u, v) ==
  /\ user[u] # None
  /\ frames_' = [frames_ EXCEPT ![user[u].frame].data = v]
  /\ UNCHANGED <<disk, pageCount, pageTable_, clockHand_, user>>

\* A write through the pointer, then markDirty on the page.
Modify(u, v) ==
  /\ user[u] # None
  /\ user[u].page \in DOMAIN pageTable_
  /\ LET f == user[u].frame
         g == pageTable_[user[u].page]
         written == [frames_ EXCEPT ![f].data = v]
     IN  frames_' = [written EXCEPT ![g].isDirty = TRUE]
  /\ UNCHANGED <<disk, pageCount, pageTable_, clockHand_, user>>

Dirty(f) == frames_[f].isValid /\ frames_[f].isDirty

FlushFrames(F) ==
  LET flushed == {frames_[f].pid : f \in F} IN
  /\ WritePages(flushed, [p \in flushed |-> frames_[CHOOSE f \in F : frames_[f].pid = p].data])
  /\ frames_' = [f \in FrameIdx |-> IF f \in F THEN [frames_[f] EXCEPT !.isDirty = FALSE]
                                               ELSE frames_[f]]
  /\ UNCHANGED <<pageTable_, clockHand_, user>>

FlushPage(p) ==
  /\ p \in DOMAIN pageTable_
  /\ Dirty(pageTable_[p])
  /\ FlushFrames({pageTable_[p]})

FlushAllPages == FlushFrames({f \in FrameIdx : Dirty(f)})

\* allocatePage goes to the file and leaves the pool alone.
Allocate ==
  /\ AllocatePage
  /\ UNCHANGED poolVars

\* The process dies; the next one starts with an empty pool.
Crash ==
  /\ frames_' = [f \in FrameIdx |-> EmptyFrame]
  /\ pageTable_' = [p \in {} |-> 0]
  /\ clockHand_' = 0
  /\ user' = [u \in User |-> None]
  /\ UNCHANGED <<disk, pageCount>>

Next ==
  \/ \E u \in User, p \in Page : FetchPage(u, p) \/ PinPage(u, p)
  \/ \E u \in User : UnpinPage(u)
  \/ \E u \in User, v \in Content : Modify(u, v)
  \/ \E p \in Page : FlushPage(p)
  \/ FlushAllPages
  \/ Allocate
  \/ Crash

Spec == Init /\ [][Next]_vars

-----------------------------------------------------------------------------
\* The page table and the valid frames are the two directions of one
\* bijection: no page is cached twice and no cached page is forgotten.
PoolConsistent ==
  /\ \A p \in DOMAIN pageTable_ :
       /\ frames_[pageTable_[p]].isValid
       /\ frames_[pageTable_[p]].pid = p
  /\ \A f \in FrameIdx : frames_[f].isValid =>
       /\ frames_[f].pid \in DOMAIN pageTable_
       /\ pageTable_[frames_[f].pid] = f

\* A pointer stays good until its user unpins: the frame it points into still
\* holds the page that was asked for, however many fetches came in between.
PointersValid ==
  \A u \in User : user[u] # None =>
    /\ frames_[user[u].frame].isValid
    /\ frames_[user[u].frame].pid = user[u].page

\* pinCount is the number of pointers into the frame, so no frame in use is
\* chosen by selectVictimFrame and none stays pinned after its last unpin.
PinsCounted ==
  \A f \in FrameIdx : frames_[f].pinCount = Cardinality(Users(f))

\* The dirty bit tells the truth: a clean frame can be dropped unwritten.
CleanIsOnDisk ==
  \A f \in FrameIdx :
    frames_[f].isValid /\ ~frames_[f].isDirty => frames_[f].data = ReadPage(frames_[f].pid)

\* CLOCK (BufferManager.h:62): the frame loaded last is the next victim only
\* when every other frame is pinned.
ClockSparesLast ==
  [][\A f \in FrameIdx :
       (/\ frames_[f].isValid /\ frames_'[f].isValid
        /\ frames_[f].pid # frames_'[f].pid
        /\ f = clockHand_)
       => \A g \in FrameIdx \ {f} : ~Unpinned(g)]_vars

\* What a reader sees: the cached copy of a page, or the page on disk.
Current(p) == IF p \in DOMAIN pageTable_ THEN frames_[pageTable_[p]].data ELSE ReadPage(p)

\* The page a user has a pointer to.
Holds(u) == IF user[u] = None THEN None ELSE user[u].page

Store == INSTANCE SharedPages WITH
  Holder  <- User,
  content <- [p \in Page |-> Current(p)],
  durable <- [p \in Page |-> ReadPage(p)],
  holds   <- [u \in User |-> Holds(u)]

\* No write is lost: outside a crash, what a reader of a page sees changes only
\* while somebody holds a pointer to it, never by the eviction, the write-back
\* or the reload of a page nobody uses.
OnlyHoldersChange ==
  [][\A p \in Page :
       Current(p)' # Current(p) => Crash \/ \E u \in User : user[u] # None /\ user[u].page = p]_vars

\* The pool implements the page store of its users: a write reaches the page its user
\* has fetched and no other, a fetch with whatever eviction it causes, an unpin, a
\* flush and an allocation change no page for anybody, and what is on disk of a page
\* is what was seen of it when it was last written back.
ImplementsPageStore == Store!SharedSpec
=============================================================================
