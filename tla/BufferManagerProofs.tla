------------------------ MODULE BufferManagerProofs ------------------------
(***************************************************************************)
(* The buffer pool of module BufferManager, for any number of pages,       *)
(* frames and users: the page table and the frames agree, pointers stay    *)
(* good, pins are counted, clean frames are on disk, no write is lost, and *)
(* the pool implements the page store of its users (module SharedPages).   *)
(***************************************************************************)
EXTENDS BufferManager, FiniteSetTheorems, TLAPS

\* A frame that has never been used names no page, so taking it unmaps none.
UnusedUnnamed == \A f \in FrameIdx : ~frames_[f].isValid => frames_[f].pid = None

\* The inductive invariant.  No part is inductive alone: a victim is nobody's
\* frame because its pin count counts its users, a pin is taken off the right
\* frame because the page table leads back to the pointer's frame, and a
\* victim can be dropped because clean frames are on disk.
IInv ==
  TypeOK /\ PoolConsistent /\ PointersValid /\ PinsCounted /\ CleanIsOnDisk /\ UnusedUnnamed

---------------------------------------------------------------------------
(* The file.                                                                *)

\* What a page reads as after a write: the new bytes in P, the old ones elsewhere.
LEMMA ReadAfterWrite ==
  ASSUME FileTypeOK, NEW P \in SUBSET Page, NEW d \in [P -> Content], WritePages(P, d)
  PROVE  /\ FileTypeOK'
         /\ \A p \in Page : ReadPage(p)' = IF p \in P THEN d[p] ELSE ReadPage(p)
<1>1. /\ disk' = [p \in Page |-> IF p \in P THEN d[p] ELSE ReadPage(p)]
      /\ pageCount' \in pageCount .. MaxPages
      /\ \A p \in P : p < pageCount'
  BY DEF WritePages
<1>2. pageCount \in 0 .. MaxPages /\ disk \in [Page -> Content]
  BY DEF FileTypeOK
<1>3. pageCount' \in 0 .. MaxPages /\ pageCount <= pageCount'
  BY <1>1, <1>2, FileAssumption
<1>4. \A p \in Page : ReadPage(p) \in Content
  BY <1>2, FileAssumption DEF ReadPage
<1>5. FileTypeOK'
  BY <1>1, <1>3, <1>4 DEF FileTypeOK
<1>6. ASSUME NEW p \in Page
      PROVE  ReadPage(p)' = IF p \in P THEN d[p] ELSE ReadPage(p)
  <2>1. CASE p \in P
    BY <1>1, <2>1 DEF ReadPage
  <2>2. CASE p \notin P /\ p < pageCount'
    BY <1>1, <2>2 DEF ReadPage
  <2>3. CASE p \notin P /\ ~(p < pageCount')
    BY <1>2, <1>3, <2>3, FileAssumption DEF ReadPage, Page
  <2> QED
    BY <2>1, <2>2, <2>3
<1> QED
  BY <1>5, <1>6

\* Reading depends on the file alone.
LEMMA ReadUnchanged ==
  ASSUME UNCHANGED <<disk, pageCount>>
  PROVE  /\ FileTypeOK => FileTypeOK'
         /\ \A p \in Page : ReadPage(p)' = ReadPage(p)
  BY DEF FileTypeOK, ReadPage

\* allocatePage appends a page that reads as it did: as zeros.
LEMMA AllocateEffect ==
  ASSUME FileTypeOK, AllocatePage
  PROVE  /\ FileTypeOK'
         /\ \A p \in Page : ReadPage(p)' = ReadPage(p)
<1> DEFINE P == {pageCount}
           d == [p \in P |-> Zero]
<1>1. pageCount \in Page /\ d \in [P -> Content]
  BY FileAssumption DEF FileTypeOK, AllocatePage, Page
<1>2. WritePages(P, d)
  BY DEF AllocatePage
<1>3. /\ FileTypeOK'
      /\ \A p \in Page : ReadPage(p)' = IF p \in P THEN d[p] ELSE ReadPage(p)
  BY <1>1, <1>2, ReadAfterWrite
<1>4. \A p \in P : d[p] = Zero /\ ReadPage(p) = Zero
  BY <1>1, FileAssumption DEF ReadPage, Page
<1> QED
  BY <1>3, <1>4

---------------------------------------------------------------------------
(* The pool.                                                                *)

\* What the invariant says of a pointer: the page table leads to its frame.
LEMMA PointerFrame ==
  ASSUME IInv, NEW u \in User, user[u] # None
  PROVE  /\ user[u].page \in Page /\ user[u].frame \in FrameIdx
         /\ user[u].page \in DOMAIN pageTable_
         /\ pageTable_[user[u].page] = user[u].frame
         /\ u \in Users(user[u].frame)
<1>1. user[u].page \in Page /\ user[u].frame \in FrameIdx
  BY DEF IInv, TypeOK, Pointer
<1> QED
  BY <1>1 DEF IInv, PointersValid, PoolConsistent, Users

LEMMA UsersFinite ==
  ASSUME NEW f
  PROVE  IsFiniteSet(Users(f))
  BY PoolAssumption, FS_Subset DEF Users

\* The frame selectVictimFrame takes is nobody's.
LEMMA VictimUnused ==
  ASSUME IInv, NEW f \in FrameIdx, Unpinned(f)
  PROVE  Users(f) = {}
<1>1. CASE ~frames_[f].isValid
  BY <1>1 DEF IInv, PointersValid, Users
<1>2. CASE frames_[f].pinCount = 0
  BY <1>2, UsersFinite, FS_EmptySet DEF IInv, PinsCounted
<1> QED
  BY <1>1, <1>2 DEF Unpinned

\* The pin count alone has changed, or nothing.
SamePages ==
  /\ frames_' \in [FrameIdx -> Frame]
  /\ \A f \in FrameIdx :
       /\ frames_'[f].isValid = frames_[f].isValid
       /\ frames_'[f].isDirty = frames_[f].isDirty
       /\ frames_'[f].pid = frames_[f].pid
       /\ frames_'[f].data = frames_[f].data
  /\ UNCHANGED <<disk, pageCount, pageTable_, clockHand_>>

LEMMA SamePagesKeeps ==
  ASSUME IInv, SamePages, user' \in [User -> Pointer \cup {None}]
  PROVE  TypeOK' /\ PoolConsistent' /\ CleanIsOnDisk' /\ UnusedUnnamed'
<1>1. /\ frames_' \in [FrameIdx -> Frame] /\ clockHand_' = clockHand_
      /\ disk' = disk /\ pageCount' = pageCount /\ pageTable_' = pageTable_
  BY DEF SamePages
<1>2. TypeOK'
  BY <1>1 DEF IInv, TypeOK, FileTypeOK
<1>3. PoolConsistent'
  BY <1>1 DEF IInv, TypeOK, PoolConsistent, SamePages
<1>4. CleanIsOnDisk'
  BY <1>1 DEF IInv, CleanIsOnDisk, SamePages, ReadPage
<1>5. UnusedUnnamed'
  BY <1>1 DEF IInv, UnusedUnnamed, SamePages
<1> QED
  BY <1>2, <1>3, <1>4, <1>5

\* Changing the pin count of one frame.
LEMMA PinOne ==
  ASSUME IInv, NEW f \in FrameIdx, NEW n \in Nat,
         frames_' = [frames_ EXCEPT ![f].pinCount = n],
         UNCHANGED <<disk, pageCount, pageTable_, clockHand_>>
  PROVE  /\ SamePages
         /\ \A g \in FrameIdx : frames_'[g].pinCount = IF g = f THEN n ELSE frames_[g].pinCount
<1> DEFINE new == [frames_[f] EXCEPT !.pinCount = n]
<1>1. frames_ \in [FrameIdx -> Frame]
  BY DEF IInv, TypeOK
<1>2. /\ new \in Frame /\ new.pinCount = n
      /\ new.isValid = frames_[f].isValid /\ new.isDirty = frames_[f].isDirty
      /\ new.pid = frames_[f].pid /\ new.data = frames_[f].data
  BY <1>1 DEF Frame
<1>3. \A g \in FrameIdx : frames_'[g] = IF g = f THEN new ELSE frames_[g]
  BY <1>1
<1>4. frames_' \in [FrameIdx -> Frame]
  BY <1>1, <1>2
<1> HIDE DEF new
<1>5. \A g \in FrameIdx :
         /\ frames_'[g].isValid = frames_[g].isValid
         /\ frames_'[g].isDirty = frames_[g].isDirty
         /\ frames_'[g].pid = frames_[g].pid
         /\ frames_'[g].data = frames_[g].data
         /\ frames_'[g].pinCount = IF g = f THEN n ELSE frames_[g].pinCount
  BY <1>2, <1>3
<1> QED
  BY <1>4, <1>5 DEF SamePages

\* A page found in the pool is pinned once more.
LEMMA HitKeeps ==
  ASSUME IInv, NEW u \in User, NEW p \in Page, FetchHit(u, p)
  PROVE  IInv' /\ SamePages
<1> DEFINE f == pageTable_[p]
           n == frames_[f].pinCount + 1
<1>1. /\ f \in FrameIdx /\ frames_[f].isValid /\ frames_[f].pid = p
      /\ frames_[f].pinCount \in Nat /\ n \in Nat /\ user[u] = None
  BY DEF IInv, TypeOK, PoolConsistent, FetchHit, Frame
<1>2. /\ frames_' = [frames_ EXCEPT ![f].pinCount = n]
      /\ UNCHANGED <<disk, pageCount, pageTable_, clockHand_>>
  BY DEF FetchHit
<1> HIDE DEF f, n
<1>3. /\ SamePages
      /\ \A g \in FrameIdx :
           frames_'[g].pinCount = IF g = f THEN n ELSE frames_[g].pinCount
  BY <1>1, <1>2, PinOne
<1>4. \A w \in User : user'[w] = IF w = u THEN [page |-> p, frame |-> f] ELSE user[w]
  BY DEF f, FetchHit, Point, IInv, TypeOK
<1>5. user' \in [User -> Pointer \cup {None}]
  BY <1>1 DEF f, FetchHit, Point, Pointer, IInv, TypeOK
<1>6. [page |-> p, frame |-> f] # None
  BY <1>1, PoolAssumption DEF FrameIdx
<1>7. \A g \in FrameIdx : Users(g)' = IF g = f THEN Users(g) \cup {u} ELSE Users(g)
  BY <1>1, <1>4, <1>6 DEF Users
<1>8. u \notin Users(f)
  BY <1>1 DEF Users
<1>9. PinsCounted'
  BY <1>1, <1>3, <1>7, <1>8, UsersFinite, FS_AddElement DEF IInv, PinsCounted, n
<1>10. PointersValid'
  BY <1>1, <1>3, <1>4 DEF IInv, TypeOK, Pointer, PointersValid, SamePages
<1> QED
  BY <1>3, <1>5, <1>9, <1>10, SamePagesKeeps DEF IInv

\* The last use of a pointer takes its pin off the frame it points into.
LEMMA UnpinKeeps ==
  ASSUME IInv, NEW u \in User, UnpinPage(u)
  PROVE  IInv' /\ SamePages
<1> DEFINE f == user[u].frame
           n == frames_[f].pinCount - 1
<1>1. user[u] # None
  BY DEF UnpinPage
<1>2. /\ f \in FrameIdx /\ user[u].page \in Page
      /\ pageTable_[user[u].page] = f
      /\ u \in Users(f)
  BY <1>1, PointerFrame
<1>3. frames_[f].pinCount \in Nat /\ frames_[f].pinCount > 0
  BY <1>2 DEF UnpinPage, IInv, TypeOK, Frame
<1>4. n \in Nat
  BY <1>3
<1>5. /\ frames_' = [frames_ EXCEPT ![f].pinCount = n]
      /\ UNCHANGED <<disk, pageCount, pageTable_, clockHand_>>
  BY <1>2 DEF UnpinPage
<1> HIDE DEF f, n
<1>6. /\ SamePages
      /\ \A g \in FrameIdx :
           frames_'[g].pinCount = IF g = f THEN n ELSE frames_[g].pinCount
  BY <1>2, <1>4, <1>5, PinOne
<1>7. \A w \in User : user'[w] = IF w = u THEN None ELSE user[w]
  BY DEF UnpinPage, IInv, TypeOK
<1>8. user' \in [User -> Pointer \cup {None}]
  BY DEF UnpinPage, IInv, TypeOK
<1>9. \A g \in FrameIdx : Users(g)' = IF g = f THEN Users(g) \ {u} ELSE Users(g)
  BY <1>1, <1>2, <1>7 DEF Users, f
<1>10. PinsCounted'
  BY <1>2, <1>6, <1>9, UsersFinite, FS_RemoveElement DEF IInv, PinsCounted, n
<1>11. PointersValid'
  BY <1>6, <1>7 DEF IInv, TypeOK, Pointer, PointersValid, SamePages
<1> QED
  BY <1>6, <1>8, <1>10, <1>11, SamePagesKeeps DEF IInv

\* Frames keep their pages: no page is loaded or dropped.
SameMapping ==
  /\ frames_' \in [FrameIdx -> Frame]
  /\ \A f \in FrameIdx :
       /\ frames_'[f].isValid = frames_[f].isValid
       /\ frames_'[f].pinCount = frames_[f].pinCount
       /\ frames_'[f].pid = frames_[f].pid
  /\ UNCHANGED <<pageTable_, clockHand_, user>>

LEMMA SameMappingKeeps ==
  ASSUME IInv, SameMapping, FileTypeOK'
  PROVE  TypeOK' /\ PoolConsistent' /\ PointersValid' /\ PinsCounted' /\ UnusedUnnamed'
<1>1. /\ frames_' \in [FrameIdx -> Frame] /\ clockHand_' = clockHand_
      /\ user' = user /\ pageTable_' = pageTable_
  BY DEF SameMapping
<1>2. TypeOK'
  BY <1>1 DEF IInv, TypeOK
<1>3. PoolConsistent'
  BY <1>1 DEF IInv, TypeOK, PoolConsistent, SameMapping
<1>4. PointersValid'
  BY <1>1 DEF IInv, TypeOK, Pointer, PointersValid, SameMapping
<1>5. PinsCounted'
  BY <1>1 DEF IInv, PinsCounted, Users, SameMapping
<1>6. UnusedUnnamed'
  BY <1>1 DEF IInv, UnusedUnnamed, SameMapping
<1> QED
  BY <1>2, <1>3, <1>4, <1>5, <1>6

\* A write through a pointer lands in the frame that is then marked dirty.
LEMMA ModifyEffect ==
  ASSUME IInv, NEW u \in User, NEW v \in Content, Modify(u, v)
  PROVE  LET f == user[u].frame IN
         /\ SameMapping
         /\ UNCHANGED <<disk, pageCount>>
         /\ frames_'[f].isDirty /\ frames_'[f].data = v
         /\ \A g \in FrameIdx \ {f} : frames_'[g] = frames_[g]
<1> DEFINE f   == user[u].frame
           old == frames_[f]
           one == [old EXCEPT !.data = v]
           new == [one EXCEPT !.isDirty = TRUE]
<1>1. f \in FrameIdx /\ pageTable_[user[u].page] = f
  BY PointerFrame DEF Modify
<1>2. frames_ \in [FrameIdx -> Frame] /\ old \in Frame
  BY <1>1 DEF IInv, TypeOK
<1>3. one \in Frame /\ one.data = v /\ one.isValid = old.isValid
      /\ one.pinCount = old.pinCount /\ one.pid = old.pid
  BY <1>2 DEF Frame
<1> HIDE DEF one
<1>4. new \in Frame /\ new.data = v /\ new.isDirty /\ new.isValid = one.isValid
      /\ new.pinCount = one.pinCount /\ new.pid = one.pid
  BY <1>3 DEF Frame
<1>5. frames_' = [frames_ EXCEPT ![f] = new]
  BY <1>1, <1>2 DEF Modify, one
<1> HIDE DEF new
<1>6. \A g \in FrameIdx : frames_'[g] = IF g = f THEN new ELSE frames_[g]
  BY <1>1, <1>2, <1>5
<1>7. frames_' \in [FrameIdx -> Frame]
  BY <1>1, <1>2, <1>4, <1>5
<1>8. \A g \in FrameIdx :
       /\ frames_'[g].isValid = frames_[g].isValid
       /\ frames_'[g].pinCount = frames_[g].pinCount
       /\ frames_'[g].pid = frames_[g].pid
  BY <1>3, <1>4, <1>6
<1>9. UNCHANGED <<disk, pageCount, pageTable_, clockHand_, user>>
  BY DEF Modify
<1> QED
  BY <1>1, <1>4, <1>6, <1>7, <1>8, <1>9 DEF SameMapping

LEMMA ModifyKeeps ==
  ASSUME IInv, NEW u \in User, NEW v \in Content, Modify(u, v)
  PROVE  IInv'
<1>1. /\ SameMapping
      /\ UNCHANGED <<disk, pageCount>>
      /\ frames_'[user[u].frame].isDirty
      /\ \A g \in FrameIdx \ {user[u].frame} : frames_'[g] = frames_[g]
  BY ModifyEffect
<1>2. FileTypeOK'
  BY <1>1 DEF IInv, TypeOK, FileTypeOK
<1>3. CleanIsOnDisk'
  BY <1>1 DEF IInv, CleanIsOnDisk, ReadPage
<1> QED
  BY <1>1, <1>2, <1>3, SameMappingKeeps DEF IInv

\* Two frames never hold the same page.
LEMMA OneFramePerPage ==
  ASSUME IInv, NEW f \in FrameIdx, NEW g \in FrameIdx, frames_[f].isValid, frames_[g].isValid,
         frames_[f].pid = frames_[g].pid
  PROVE  f = g
  BY DEF IInv, PoolConsistent

\* CleanIsOnDisk after a step, page by page.
LEMMA CleanNext ==
  ASSUME TypeOK', PoolConsistent',
         \A g \in FrameIdx, p \in Page :
           frames_'[g].isValid /\ ~frames_'[g].isDirty /\ frames_'[g].pid = p
             => frames_'[g].data = ReadPage(p)'
  PROVE  CleanIsOnDisk'
<1> SUFFICES ASSUME NEW g \in FrameIdx, (frames_[g].isValid /\ ~frames_[g].isDirty)'
             PROVE  (frames_[g].data = ReadPage(frames_[g].pid))'
  BY DEF CleanIsOnDisk
<1>1. frames_'[g].pid \in Page
  BY DEF TypeOK, PoolConsistent
<1> QED
  BY <1>1 DEF ReadPage

\* flushPage and flushAllPages write dirty frames to their pages and mark them clean.
LEMMA FlushEffect ==
  ASSUME IInv, NEW F \in SUBSET FrameIdx, \A f \in F : Dirty(f), FlushFrames(F)
  PROVE  /\ SameMapping /\ FileTypeOK'
         /\ \A f \in FrameIdx : frames_'[f].data = frames_[f].data
         /\ \A f \in FrameIdx : frames_'[f].isDirty <=> frames_[f].isDirty /\ f \notin F
         /\ \A f \in F, p \in Page : frames_[f].pid = p => ReadPage(p)' = frames_[f].data
         /\ \A p \in Page : (\A f \in F : frames_[f].pid # p) => ReadPage(p)' = ReadPage(p)
<1> DEFINE P == {frames_[f].pid : f \in F}
           d == [p \in P |-> frames_[CHOOSE f \in F : frames_[f].pid = p].data]
<1>1. frames_ \in [FrameIdx -> Frame] /\ FileTypeOK
  BY DEF IInv, TypeOK
<1>2. \A f \in F : frames_[f].isValid /\ frames_[f].pid \in Page
  BY DEF Dirty, IInv, TypeOK, PoolConsistent
<1>3. \A f \in F : (CHOOSE g \in F : frames_[g].pid = frames_[f].pid) = f
  BY <1>2, OneFramePerPage
<1>4. \A f \in F : d[frames_[f].pid] = frames_[f].data
  BY <1>3
<1>5. \A f \in F : frames_[f].data \in Content
  BY <1>1 DEF Frame
<1>6. P \in SUBSET Page /\ d \in [P -> Content]
  BY <1>2, <1>3, <1>5
<1>7. WritePages(P, d)
  BY DEF FlushFrames
<1> HIDE DEF d
<1>8. /\ FileTypeOK'
      /\ \A p \in Page : ReadPage(p)' = IF p \in P THEN d[p] ELSE ReadPage(p)
  BY <1>1, <1>6, <1>7, ReadAfterWrite
<1>9. /\ \A f \in F, p \in Page : frames_[f].pid = p => ReadPage(p)' = frames_[f].data
      /\ \A p \in Page : (\A f \in F : frames_[f].pid # p) => ReadPage(p)' = ReadPage(p)
  <2>1. \A f \in F : frames_[f].pid \in P
    OBVIOUS
  <2> QED
    BY <1>2, <1>4, <1>8, <2>1
<1>10. ASSUME NEW f \in FrameIdx
       PROVE  /\ frames_'[f] \in Frame
              /\ frames_'[f].isValid = frames_[f].isValid
              /\ frames_'[f].pinCount = frames_[f].pinCount
              /\ frames_'[f].pid = frames_[f].pid
              /\ frames_'[f].data = frames_[f].data
              /\ frames_'[f].isDirty <=> frames_[f].isDirty /\ f \notin F
  <2>1. frames_'[f] = IF f \in F THEN [frames_[f] EXCEPT !.isDirty = FALSE] ELSE frames_[f]
    BY DEF FlushFrames
  <2>2. frames_[f] \in Frame
    BY <1>1
  <2>3. CASE f \in F
    BY <2>1, <2>2, <2>3 DEF Frame
  <2>4. CASE f \notin F
    BY <2>1, <2>2, <2>4
  <2> QED
    BY <2>3, <2>4
<1>11. SameMapping
  <2>1. frames_' = [f \in FrameIdx |-> frames_'[f]]
    BY DEF FlushFrames
  <2>2. frames_' \in [FrameIdx -> Frame]
    BY <1>10, <2>1
  <2> QED
    BY <1>10, <2>2 DEF SameMapping, FlushFrames
<1> QED
  BY <1>8, <1>9, <1>10, <1>11

LEMMA FlushKeeps ==
  ASSUME IInv, NEW F \in SUBSET FrameIdx, \A f \in F : Dirty(f), FlushFrames(F)
  PROVE  IInv'
<1>1. /\ SameMapping /\ FileTypeOK'
      /\ \A f \in FrameIdx : frames_'[f].data = frames_[f].data
      /\ \A f \in FrameIdx : frames_'[f].isDirty <=> frames_[f].isDirty /\ f \notin F
      /\ \A f \in F, p \in Page : frames_[f].pid = p => ReadPage(p)' = frames_[f].data
      /\ \A p \in Page : (\A f \in F : frames_[f].pid # p) => ReadPage(p)' = ReadPage(p)
  BY FlushEffect
<1>2. TypeOK' /\ PoolConsistent' /\ PointersValid' /\ PinsCounted' /\ UnusedUnnamed'
  BY <1>1, SameMappingKeeps
<1>3. ASSUME NEW g \in FrameIdx, NEW p \in Page,
             frames_'[g].isValid, ~frames_'[g].isDirty, frames_'[g].pid = p
      PROVE  frames_'[g].data = ReadPage(p)'
  <2>1. frames_[g].isValid /\ frames_[g].pid = p
    BY <1>1, <1>3 DEF SameMapping
  <2>0. frames_'[g].data = frames_[g].data
    BY <1>1
  <2>2. CASE g \in F
    BY <1>1, <2>0, <2>1, <2>2 DEF ReadPage
  <2>3. CASE g \notin F
    <3>1. ~frames_[g].isDirty
      BY <1>1, <1>3, <2>3
    <3>2. frames_[g].data = ReadPage(p)
      BY <2>1, <3>1 DEF IInv, CleanIsOnDisk
    <3>3. \A f \in F : frames_[f].pid # p
      BY <2>1, <2>3, OneFramePerPage DEF Dirty
    <3>4. ReadPage(p)' = ReadPage(p)
      BY <1>1, <3>3 DEF ReadPage
    <3> QED
      BY <2>0, <3>2, <3>4
  <2> QED
    BY <2>2, <2>3
<1> QED
  BY <1>2, <1>3, CleanNext DEF IInv

\* allocatePage leaves the pool alone, and the page it appends reads as before.
LEMMA AllocateKeeps ==
  ASSUME IInv, Allocate
  PROVE  IInv'
<1>1. /\ FileTypeOK'
      /\ \A p \in Page : ReadPage(p)' = ReadPage(p)
  BY AllocateEffect DEF Allocate, IInv, TypeOK
<1>2. SameMapping /\ frames_' = frames_
  BY DEF Allocate, poolVars, SameMapping, IInv, TypeOK
<1>3. TypeOK' /\ PoolConsistent' /\ PointersValid' /\ PinsCounted' /\ UnusedUnnamed'
  BY <1>1, <1>2, SameMappingKeeps
<1>4. ASSUME NEW g \in FrameIdx, NEW p \in Page,
             frames_'[g].isValid, ~frames_'[g].isDirty, frames_'[g].pid = p
      PROVE  frames_'[g].data = ReadPage(p)'
  BY <1>1, <1>2, <1>4 DEF IInv, CleanIsOnDisk
<1> QED
  BY <1>3, <1>4, CleanNext DEF IInv

\* An empty pool over any file.
LEMMA EmptyPool ==
  ASSUME FileTypeOK, PoolInit
  PROVE  IInv
<1>1. EmptyFrame \in Frame /\ 0 \in FrameIdx
  BY PoolAssumption, FileAssumption DEF EmptyFrame, Frame, FrameIdx
<1>2. TypeOK
  BY <1>1 DEF PoolInit, TypeOK
<1>3. PoolConsistent /\ PointersValid /\ CleanIsOnDisk /\ UnusedUnnamed
  BY DEF PoolInit, EmptyFrame, PoolConsistent, PointersValid, CleanIsOnDisk, UnusedUnnamed
<1>4. \A f \in FrameIdx : Users(f) = {}
  BY DEF PoolInit, Users
<1>5. PinsCounted
  BY <1>4, FS_EmptySet DEF PoolInit, EmptyFrame, PinsCounted
<1> QED
  BY <1>2, <1>3, <1>5 DEF IInv

LEMMA CrashKeeps ==
  ASSUME IInv, Crash
  PROVE  IInv'
<1>1. FileTypeOK' /\ PoolInit'
  BY DEF Crash, PoolInit, FileTypeOK, IInv, TypeOK
<1> QED
  BY <1>1, EmptyPool, PTL

\* Writing back a victim: its page reads as the frame did, every other page as before.
LEMMA WriteBackEffect ==
  ASSUME IInv, NEW f \in FrameIdx, WriteBack(f)
  PROVE  /\ FileTypeOK'
         /\ \A p \in Page : ReadPage(p)' = IF Dirty(f) /\ p = frames_[f].pid
                                        THEN frames_[f].data ELSE ReadPage(p)
<1> DEFINE P == {frames_[f].pid}
           d == [p \in P |-> frames_[f].data]
<1>1. FileTypeOK /\ frames_[f].data \in Content
  BY DEF IInv, TypeOK, Frame
<1>2. CASE Dirty(f)
  <2>1. frames_[f].pid \in Page
    BY <1>2 DEF Dirty, IInv, TypeOK, PoolConsistent
  <2>2. WritePages(P, d)
    BY <1>2 DEF Dirty, WriteBack
  <2>3. /\ FileTypeOK'
        /\ \A p \in Page : ReadPage(p)' = IF p \in P THEN d[p] ELSE ReadPage(p)
    BY <1>1, <2>1, <2>2, ReadAfterWrite
  <2> QED
    BY <1>2, <2>3
<1>3. CASE ~Dirty(f)
  BY <1>1, <1>3, ReadUnchanged DEF Dirty, WriteBack
<1> QED
  BY <1>2, <1>3

\* What loading page p into the victim f does to the frames, to the pointers and
\* to the page table.
LEMMA LoadFrames ==
  ASSUME IInv, NEW u \in User, NEW p \in Page, NEW f \in FrameIdx, LoadInto(u, p, f)
  PROVE  /\ frames_' \in [FrameIdx -> Frame] /\ clockHand_' \in FrameIdx
         /\ frames_'[f].isValid /\ ~frames_'[f].isDirty /\ frames_'[f].pinCount = 1
         /\ frames_'[f].pid = p /\ frames_'[f].data = ReadPage(p)'
         /\ \A g \in FrameIdx \ {f} : frames_'[g] = frames_[g]
<1> DEFINE new == [isValid |-> TRUE, isDirty |-> FALSE, pinCount |-> 1,
                   pid |-> p, data |-> ReadPage(p)']
<1>1. FileTypeOK'
  BY WriteBackEffect DEF LoadInto
<1>2. ReadPage(p)' \in Content
  BY <1>1, FileAssumption DEF FileTypeOK, ReadPage
<1>3. new \in Frame /\ new.isValid /\ ~new.isDirty /\ new.pinCount = 1 /\ new.pid = p
      /\ new.data = ReadPage(p)'
  BY <1>2 DEF Frame
<1>4. frames_' = [frames_ EXCEPT ![f] = new] /\ frames_ \in [FrameIdx -> Frame]
  BY DEF LoadInto, IInv, TypeOK
<1> HIDE DEF new
<1>5. /\ frames_' \in [FrameIdx -> Frame]
      /\ frames_'[f] = new
      /\ \A g \in FrameIdx \ {f} : frames_'[g] = frames_[g]
  BY <1>3, <1>4
<1>6. clockHand_' \in FrameIdx
  BY DEF LoadInto, TurnHand
<1> QED
  BY <1>3, <1>5, <1>6

LEMMA LoadUser ==
  ASSUME IInv, NEW u \in User, NEW p \in Page, NEW f \in FrameIdx, LoadInto(u, p, f)
  PROVE  /\ user' \in [User -> Pointer \cup {None}]
         /\ user'[u] # None /\ user'[u].page = p /\ user'[u].frame = f
         /\ \A w \in User \ {u} : user'[w] = user[w]
<1> DEFINE ptr == [page |-> p, frame |-> f]
<1>1. user' = [user EXCEPT ![u] = ptr] /\ user \in [User -> Pointer \cup {None}]
  BY DEF LoadInto, Point, IInv, TypeOK
<1>2. ptr \in Pointer /\ ptr # None /\ ptr.page = p /\ ptr.frame = f
  BY PoolAssumption DEF Pointer, FrameIdx
<1> HIDE DEF ptr
<1> QED
  BY <1>1, <1>2

LEMMA LoadTable ==
  ASSUME IInv, NEW u \in User, NEW p \in Page, NEW f \in FrameIdx, LoadInto(u, p, f)
  PROVE  /\ DOMAIN pageTable_' = (DOMAIN pageTable_ \ {frames_[f].pid}) \cup {p}
         /\ pageTable_'[p] = f
         /\ \A q \in DOMAIN pageTable_ \ {frames_[f].pid} : q # p /\ pageTable_'[q] = pageTable_[q]
         /\ pageTable_' \in [DOMAIN pageTable_' -> FrameIdx]
<1>1. /\ p \notin DOMAIN pageTable_
      /\ pageTable_' = [q \in (DOMAIN pageTable_ \ {frames_[f].pid}) \cup {p} |->
                         IF q = p THEN f ELSE pageTable_[q]]
      /\ pageTable_ \in [DOMAIN pageTable_ -> FrameIdx]
  BY DEF LoadInto, MappedBut, IInv, TypeOK
<1> QED
  BY <1>1

\* A page not in the pool replaces one that nobody uses.
LEMMA LoadKeeps ==
  ASSUME IInv, NEW u \in User, NEW p \in Page, NEW f \in FrameIdx, LoadInto(u, p, f)
  PROVE  IInv'
<1>1. /\ frames_' \in [FrameIdx -> Frame] /\ clockHand_' \in FrameIdx
      /\ frames_'[f].isValid /\ ~frames_'[f].isDirty /\ frames_'[f].pinCount = 1
      /\ frames_'[f].pid = p /\ frames_'[f].data = ReadPage(p)'
      /\ \A g \in FrameIdx \ {f} : frames_'[g] = frames_[g]
  BY LoadFrames
<1>2. /\ user' \in [User -> Pointer \cup {None}]
      /\ user'[u] # None /\ user'[u].page = p /\ user'[u].frame = f
      /\ \A w \in User \ {u} : user'[w] = user[w]
  BY LoadUser
<1>3. /\ DOMAIN pageTable_' = (DOMAIN pageTable_ \ {frames_[f].pid}) \cup {p}
      /\ pageTable_'[p] = f
      /\ \A q \in DOMAIN pageTable_ \ {frames_[f].pid} : q # p /\ pageTable_'[q] = pageTable_[q]
      /\ pageTable_' \in [DOMAIN pageTable_' -> FrameIdx]
  BY LoadTable
<1>4. /\ FileTypeOK'
      /\ \A q \in Page : ReadPage(q)' = IF Dirty(f) /\ q = frames_[f].pid
                                     THEN frames_[f].data ELSE ReadPage(q)
  BY WriteBackEffect DEF LoadInto
<1>5. Users(f) = {} /\ user[u] = None
  BY VictimUnused DEF LoadInto, Victim
<1>6. DOMAIN pageTable_ \subseteq Page /\ pageTable_ \in [DOMAIN pageTable_ -> FrameIdx]
  BY DEF IInv, TypeOK
\* The frames that stay hold other pages than the victim's.
<1>7. \A g \in FrameIdx \ {f} : frames_[g].isValid =>
        /\ frames_[g].pid \in DOMAIN pageTable_ /\ pageTable_[frames_[g].pid] = g
        /\ frames_[g].pid # frames_[f].pid
  <2> SUFFICES ASSUME NEW g \in FrameIdx \ {f}, frames_[g].isValid
               PROVE  /\ frames_[g].pid \in DOMAIN pageTable_ /\ pageTable_[frames_[g].pid] = g
                      /\ frames_[g].pid # frames_[f].pid
    OBVIOUS
  <2>1. frames_[g].pid \in DOMAIN pageTable_ /\ pageTable_[frames_[g].pid] = g
    BY DEF IInv, PoolConsistent
  <2>2. CASE frames_[f].isValid
    BY <2>1, <2>2, OneFramePerPage
  <2>3. CASE ~frames_[f].isValid
    BY <1>6, <2>1, <2>3, PoolAssumption DEF IInv, UnusedUnnamed
  <2> QED
    BY <2>1, <2>2, <2>3
<1>8. TypeOK'
  BY <1>1, <1>2, <1>3, <1>4, <1>6 DEF TypeOK
<1>9. PoolConsistent'
  <2>1. ASSUME NEW q \in DOMAIN pageTable_'
        PROVE  frames_'[pageTable_'[q]].isValid /\ frames_'[pageTable_'[q]].pid = q
    <3>1. CASE q = p
      BY <1>1, <1>3, <3>1
    <3>2. CASE q # p
      <4>1. q \in DOMAIN pageTable_ /\ q # frames_[f].pid /\ pageTable_'[q] = pageTable_[q]
        BY <1>3, <2>1, <3>2
      <4>2. /\ frames_[pageTable_[q]].isValid /\ frames_[pageTable_[q]].pid = q
            /\ pageTable_[q] \in FrameIdx \ {f}
        BY <1>6, <4>1 DEF IInv, PoolConsistent
      <4> QED
        BY <1>1, <4>1, <4>2
    <3> QED
      BY <3>1, <3>2
  <2>2. ASSUME NEW g \in FrameIdx, frames_'[g].isValid
        PROVE  frames_'[g].pid \in DOMAIN pageTable_' /\ pageTable_'[frames_'[g].pid] = g
    <3>1. CASE g = f
      BY <1>1, <1>3, <3>1
    <3>2. CASE g # f
      <4>1. frames_'[g] = frames_[g] /\ frames_[g].isValid
        BY <1>1, <2>2, <3>2
      <4>2. frames_[g].pid \in DOMAIN pageTable_ \ {frames_[f].pid} /\ pageTable_[frames_[g].pid] = g
        BY <1>7, <3>2, <4>1
      <4> QED
        BY <1>3, <4>1, <4>2
    <3> QED
      BY <3>1, <3>2
  <2> QED
    BY <2>1, <2>2 DEF PoolConsistent
<1>10. PointersValid'
  <2> SUFFICES ASSUME NEW w \in User, user'[w] # None
               PROVE  frames_'[user'[w].frame].isValid /\ frames_'[user'[w].frame].pid = user'[w].page
    BY DEF PointersValid
  <2>1. CASE w = u
    BY <1>1, <1>2, <2>1
  <2>2. CASE w # u
    <3>1. user'[w] = user[w] /\ user[w] # None
      BY <1>2, <2>2
    <3>2. user[w].frame \in FrameIdx \ {f}
      BY <1>5, <3>1, PointerFrame DEF Users
    <3>3. frames_[user[w].frame].isValid /\ frames_[user[w].frame].pid = user[w].page
      BY <3>1 DEF IInv, PointersValid
    <3> QED
      BY <1>1, <3>1, <3>2, <3>3
  <2> QED
    BY <2>1, <2>2
<1>11. PinsCounted'
  <2>1. Users(f)' = {u}
    BY <1>2, <1>5 DEF Users
  <2>2. \A g \in FrameIdx \ {f} : Users(g)' = Users(g)
    BY <1>2, <1>5 DEF Users
  <2>3. \A g \in FrameIdx \ {f} : frames_'[g].pinCount = Cardinality(Users(g))
    BY <1>1 DEF IInv, PinsCounted
  <2>4. ASSUME NEW g \in FrameIdx
        PROVE  frames_'[g].pinCount = Cardinality(Users(g)')
    <3>1. CASE g = f
      BY <1>1, <2>1, <3>1, FS_Singleton
    <3>2. CASE g # f
      BY <2>2, <2>3, <3>2
    <3> QED
      BY <3>1, <3>2
  <2> QED
    BY <2>4 DEF PinsCounted
<1>12. UnusedUnnamed'
  BY <1>1 DEF IInv, UnusedUnnamed
<1>13. ASSUME NEW g \in FrameIdx, NEW q \in Page,
              frames_'[g].isValid, ~frames_'[g].isDirty, frames_'[g].pid = q
       PROVE  frames_'[g].data = ReadPage(q)'
  <2>1. CASE g = f
    BY <1>1, <1>13, <2>1 DEF ReadPage
  <2>2. CASE g # f
    <3>1. frames_'[g] = frames_[g] /\ q # frames_[f].pid
      BY <1>1, <1>7, <1>13, <2>2
    <3>2. frames_[g].data = ReadPage(q)
      BY <1>13, <3>1 DEF IInv, CleanIsOnDisk
    <3>3. ReadPage(q)' = ReadPage(q)
      BY <1>4, <3>1 DEF ReadPage
    <3> QED
      BY <3>1, <3>2, <3>3
  <2> QED
    BY <2>1, <2>2
<1> QED
  BY <1>8, <1>9, <1>10, <1>11, <1>12, <1>13, CleanNext DEF IInv

LEMMA NextIInv == IInv /\ [Next]_vars => IInv'
<1> SUFFICES ASSUME IInv, [Next]_vars PROVE IInv'
  OBVIOUS
<1>1. ASSUME NEW u \in User, NEW p \in Page, FetchPage(u, p) \/ PinPage(u, p) PROVE IInv'
  BY <1>1, HitKeeps, LoadKeeps DEF FetchPage, FetchMiss, PinPage
<1>2. ASSUME NEW u \in User, UnpinPage(u) PROVE IInv'
  BY <1>2, UnpinKeeps
<1>3. ASSUME NEW u \in User, NEW v \in Content, Modify(u, v) PROVE IInv'
  BY <1>3, ModifyKeeps
<1>4. ASSUME NEW p \in Page, FlushPage(p) PROVE IInv'
  <2>1. pageTable_[p] \in FrameIdx
    BY <1>4 DEF FlushPage, IInv, TypeOK
  <2> QED
    BY <1>4, <2>1, FlushKeeps DEF FlushPage
<1>5. CASE FlushAllPages
  BY <1>5, FlushKeeps DEF FlushAllPages
<1>6. CASE Allocate
  BY <1>6, AllocateKeeps
<1>7. CASE Crash
  BY <1>7, CrashKeeps
<1>8. CASE UNCHANGED vars
  BY <1>8 DEF vars, poolVars, IInv, TypeOK, FileTypeOK, PoolConsistent, PointersValid,
              PinsCounted, Users, CleanIsOnDisk, ReadPage, UnusedUnnamed
<1> QED
  BY <1>1, <1>2, <1>3, <1>4, <1>5, <1>6, <1>7, <1>8 DEF Next

LEMMA InvariantHolds == Spec => []IInv
<1>1. Init => IInv
  BY EmptyPool, FileAssumption DEF Init, FileInit, FileTypeOK
<1> QED
  BY <1>1, NextIInv, PTL DEF Spec

\* The frames, the page table, the clock hand and the pointers are well-formed.
THEOREM TypeCorrect == Spec => []TypeOK
<1>1. IInv => TypeOK
  BY DEF IInv
<1> QED
  BY <1>1, InvariantHolds, PTL

\* The page table and the valid frames are the two directions of one bijection.
THEOREM TableMatchesFrames == Spec => []PoolConsistent
<1>1. IInv => PoolConsistent
  BY DEF IInv
<1> QED
  BY <1>1, InvariantHolds, PTL

\* The frame behind a pointer holds the page that was asked for until the unpin.
THEOREM PointersStayValid == Spec => []PointersValid
<1>1. IInv => PointersValid
  BY DEF IInv
<1> QED
  BY <1>1, InvariantHolds, PTL

\* A pin count is the number of pointers into its frame.
THEOREM PinsAreUsers == Spec => []PinsCounted
<1>1. IInv => PinsCounted
  BY DEF IInv
<1> QED
  BY <1>1, InvariantHolds, PTL

\* A clean frame holds what the file holds.
THEOREM CleanFramesOnDisk == Spec => []CleanIsOnDisk
<1>1. IInv => CleanIsOnDisk
  BY DEF IInv
<1> QED
  BY <1>1, InvariantHolds, PTL

\* The frame under the hand is replaced only when every other one is pinned.
THEOREM HandSparesLast == Spec => ClockSparesLast
<1> DEFINE Spared == \A f \in FrameIdx :
             (/\ frames_[f].isValid /\ frames_'[f].isValid
              /\ frames_[f].pid # frames_'[f].pid
              /\ f = clockHand_)
             => \A g \in FrameIdx \ {f} : ~Unpinned(g)
<1>1. IInv /\ [Next]_vars => [Spared]_vars
  <2> SUFFICES ASSUME IInv, Next, NEW f \in FrameIdx,
                      frames_[f].isValid, frames_'[f].isValid,
                      frames_[f].pid # frames_'[f].pid, f = clockHand_,
                      NEW g \in FrameIdx \ {f}, Unpinned(g)
               PROVE  FALSE
    OBVIOUS
  <2>1. ~SamePages /\ ~SameMapping
    BY DEF SamePages, SameMapping
  <2>2. PICK u \in User, p \in Page, h \in FrameIdx : LoadInto(u, p, h)
    <3>1. ASSUME NEW F \in SUBSET FrameIdx, \A x \in F : Dirty(x), FlushFrames(F)
          PROVE  FALSE
      BY <2>1, <3>1, FlushEffect
    <3>2. \A q \in Page : ~FlushPage(q)
      <4> SUFFICES ASSUME NEW q \in Page, FlushPage(q) PROVE FALSE
        OBVIOUS
      <4>1. pageTable_[q] \in FrameIdx
        BY DEF FlushPage, IInv, TypeOK
      <4> QED
        BY <3>1, <4>1 DEF FlushPage
    <3>3. ~FlushAllPages
      BY <3>1 DEF FlushAllPages
    <3>4. ~Crash
      BY DEF Crash, EmptyFrame
    <3>5. ~Allocate
      BY DEF Allocate, poolVars
    <3> QED
      BY <2>1, <3>2, <3>3, <3>4, <3>5, HitKeeps, UnpinKeeps, ModifyEffect
         DEF Next, FetchPage, FetchMiss, PinPage
  <2>3. h = f
    BY <2>2, LoadFrames
  <2>4. Distance(f) <= Distance(g)
    BY <2>2, <2>3 DEF LoadInto, Victim
  <2> QED
    BY <2>4, PoolAssumption DEF Distance, FrameIdx
<1> QED
  BY <1>1, InvariantHolds, PTL DEF Spec, ClockSparesLast

---------------------------------------------------------------------------
(* What a reader sees: the lemmas give, for each action, the contents of    *)
(* the pages now and after a crash.                                         *)

LEMMA CurrentCases ==
  ASSUME IInv, NEW p \in Page
  PROVE  /\ p \in DOMAIN pageTable_ =>
              /\ pageTable_[p] \in FrameIdx
              /\ frames_[pageTable_[p]].isValid /\ frames_[pageTable_[p]].pid = p
              /\ Current(p) = frames_[pageTable_[p]].data
         /\ p \notin DOMAIN pageTable_ => Current(p) = ReadPage(p)
  BY DEF IInv, TypeOK, PoolConsistent, Current

\* Nothing is seen of a pin or an unpin.
LEMMA SamePagesSeen ==
  ASSUME IInv, SamePages
  PROVE  \A p \in Page : Current(p)' = Current(p) /\ ReadPage(p)' = ReadPage(p)
  BY CurrentCases DEF SamePages, Current, ReadPage

\* A write through a pointer is seen in its page, and not on disk.
LEMMA ModifySeen ==
  ASSUME IInv, NEW u \in User, NEW v \in Content, Modify(u, v)
  PROVE  /\ user[u] # None /\ user[u].page \in Page
         /\ \A p \in Page : Current(p)' = IF p = user[u].page THEN v ELSE Current(p)
         /\ \A p \in Page : ReadPage(p)' = ReadPage(p)
<1> DEFINE f == user[u].frame
<1>1. /\ user[u] # None
      /\ user[u].page \in Page /\ f \in FrameIdx
      /\ user[u].page \in DOMAIN pageTable_ /\ pageTable_[user[u].page] = f
  BY PointerFrame DEF Modify
<1>2. /\ UNCHANGED <<disk, pageCount, pageTable_>>
      /\ frames_'[f].data = v
      /\ \A g \in FrameIdx \ {f} : frames_'[g] = frames_[g]
  BY ModifyEffect DEF SameMapping
<1>3. ASSUME NEW p \in Page
      PROVE  Current(p)' = IF p = user[u].page THEN v ELSE Current(p)
  <2>1. CASE p = user[u].page
    BY <1>1, <1>2, <2>1 DEF Current
  <2>2. CASE p # user[u].page /\ p \in DOMAIN pageTable_
    <3>1. pageTable_[p] \in FrameIdx \ {f}
      BY <1>1, <2>2, CurrentCases
    <3> QED
      BY <1>2, <2>2, <3>1 DEF Current
  <2>3. CASE p \notin DOMAIN pageTable_
    BY <1>1, <1>2, <2>3 DEF Current, ReadPage
  <2> QED
    BY <2>1, <2>2, <2>3
<1> QED
  BY <1>1, <1>2, <1>3 DEF ReadPage

\* A flush brings the pages of its frames to the disk as they are seen.
LEMMA FlushSeen ==
  ASSUME IInv, NEW F \in SUBSET FrameIdx, \A f \in F : Dirty(f), FlushFrames(F)
  PROVE  LET P == {p \in Page : \E f \in F : frames_[f].pid = p} IN
         \A p \in Page : /\ Current(p)' = Current(p)
                       /\ ReadPage(p)' = IF p \in P THEN Current(p) ELSE ReadPage(p)
<1>1. pageTable_' = pageTable_ /\ \A f \in FrameIdx : frames_'[f].data = frames_[f].data
  BY FlushEffect DEF SameMapping
<1>2. /\ \A f \in F, p \in Page : frames_[f].pid = p => ReadPage(p)' = frames_[f].data
      /\ \A p \in Page : (\A f \in F : frames_[f].pid # p) => ReadPage(p)' = ReadPage(p)
  BY FlushEffect
<1> SUFFICES ASSUME NEW p \in Page
             PROVE  /\ Current(p)' = Current(p)
                    /\ ReadPage(p)' = IF \E f \in F : frames_[f].pid = p
                                      THEN Current(p) ELSE ReadPage(p)
  OBVIOUS
<1>3. ASSUME NEW f \in F, frames_[f].pid = p
      PROVE  p \in DOMAIN pageTable_ /\ pageTable_[p] = f
  BY <1>3 DEF Dirty, IInv, PoolConsistent
<1>4. CASE p \in DOMAIN pageTable_
  <2>1. Current(p)' = Current(p)
    BY <1>1, <1>4, CurrentCases DEF Current
  <2>2. ASSUME NEW f \in F, frames_[f].pid = p PROVE ReadPage(p)' = Current(p)
    <3>1. ReadPage(p)' = frames_[f].data
      BY <1>2, <2>2 DEF ReadPage
    <3> QED
      BY <1>3, <2>2, <3>1 DEF Current
  <2>3. (\A f \in F : frames_[f].pid # p) => ReadPage(p)' = ReadPage(p)
    BY <1>2 DEF ReadPage
  <2> QED
    BY <2>1, <2>2, <2>3
<1>5. CASE p \notin DOMAIN pageTable_
  <2>1. \A f \in F : frames_[f].pid # p
    BY <1>3, <1>5
  <2>2. ReadPage(p)' = ReadPage(p)
    BY <1>2, <2>1 DEF ReadPage
  <2>3. Current(p)' = ReadPage(p)' /\ Current(p) = ReadPage(p)
    BY <1>1, <1>5 DEF Current, ReadPage
  <2> QED
    BY <2>1, <2>2, <2>3
<1> QED
  BY <1>4, <1>5

\* An allocation is not seen at all: the new page read as zeros before.
LEMMA AllocateSeen ==
  ASSUME IInv, Allocate
  PROVE  \A p \in Page : Current(p)' = Current(p) /\ ReadPage(p)' = ReadPage(p)
<1>1. \A p \in Page : ReadPage(p)' = ReadPage(p)
  BY AllocateEffect DEF Allocate, IInv, TypeOK
<1>2. pageTable_' = pageTable_ /\ frames_' = frames_
  BY DEF Allocate, poolVars
<1>3. ASSUME NEW p \in Page PROVE Current(p)' = Current(p)
  <2>1. ReadPage(p)' = ReadPage(p)
    BY <1>1 DEF ReadPage
  <2> QED
    BY <1>2, <2>1 DEF Current
<1> QED
  BY <1>1, <1>3

\* Loading a page is not seen either: the page reads as it did on disk, the victim
\* as it did in its frame.
LEMMA LoadSeen ==
  ASSUME IInv, NEW u \in User, NEW p \in Page, NEW f \in FrameIdx, LoadInto(u, p, f)
  PROVE  LET P == {q \in Page : Dirty(f) /\ q = frames_[f].pid} IN
         \A q \in Page : /\ Current(q)' = Current(q)
                       /\ ReadPage(q)' = IF q \in P THEN Current(q) ELSE ReadPage(q)
<1>1. /\ frames_'[f].data = ReadPage(p)'
      /\ \A g \in FrameIdx \ {f} : frames_'[g] = frames_[g]
  BY LoadFrames
<1>2. /\ DOMAIN pageTable_' = (DOMAIN pageTable_ \ {frames_[f].pid}) \cup {p}
      /\ pageTable_'[p] = f
      /\ \A q \in DOMAIN pageTable_ \ {frames_[f].pid} : q # p /\ pageTable_'[q] = pageTable_[q]
  BY LoadTable
<1>3. p \notin DOMAIN pageTable_
  BY DEF LoadInto
<1> SUFFICES ASSUME NEW q \in Page
             PROVE  /\ Current(q)' = Current(q)
                    /\ ReadPage(q)' = IF Dirty(f) /\ q = frames_[f].pid
                                      THEN Current(q) ELSE ReadPage(q)
  OBVIOUS
<1>4. ReadPage(q)' = IF Dirty(f) /\ q = frames_[f].pid THEN frames_[f].data ELSE ReadPage(q)
  <2>1. \A x \in Page : ReadPage(x)' = IF Dirty(f) /\ x = frames_[f].pid
                                   THEN frames_[f].data ELSE ReadPage(x)
    BY WriteBackEffect DEF LoadInto
  <2> QED
    BY <2>1 DEF ReadPage
<1>5. CASE q = p
  <2>1. ~(Dirty(f) /\ q = frames_[f].pid)
    BY <1>3, <1>5 DEF Dirty, IInv, PoolConsistent
  <2>2. Current(q)' = ReadPage(q)' /\ Current(q) = ReadPage(q)
    BY <1>1, <1>2, <1>3, <1>5 DEF Current, ReadPage
  <2> QED
    BY <1>4, <2>1, <2>2
<1>6. CASE q # p /\ q \in DOMAIN pageTable_ /\ q = frames_[f].pid
  <2>1. frames_[f].isValid /\ pageTable_[q] = f
    <3>1. frames_[f].isValid
      BY <1>6, PoolAssumption DEF IInv, UnusedUnnamed
    <3> QED
      BY <1>6, <3>1 DEF IInv, PoolConsistent
  <2>2. Current(q) = frames_[f].data
    BY <1>6, <2>1 DEF Current
  <2>3. Current(q)' = ReadPage(q)'
    BY <1>2, <1>6 DEF Current, ReadPage
  <2>4. ~Dirty(f) => frames_[f].data = ReadPage(q)
    BY <1>6, <2>1 DEF Dirty, IInv, CleanIsOnDisk
  <2> QED
    BY <1>4, <1>6, <2>2, <2>3, <2>4
<1>7. CASE q # p /\ q \in DOMAIN pageTable_ /\ q # frames_[f].pid
  <2>1. pageTable_[q] \in FrameIdx \ {f}
    BY <1>7, CurrentCases
  <2>2. Current(q)' = Current(q)
    BY <1>1, <1>2, <1>7, <2>1 DEF Current
  <2> QED
    BY <1>4, <1>7, <2>2
<1>8. CASE q # p /\ q \notin DOMAIN pageTable_
  <2>1. ~(Dirty(f) /\ q = frames_[f].pid)
    BY <1>8 DEF Dirty, IInv, PoolConsistent
  <2>2. Current(q)' = ReadPage(q)' /\ Current(q) = ReadPage(q)
    BY <1>2, <1>8 DEF Current, ReadPage
  <2> QED
    BY <1>4, <2>1, <2>2
<1> QED
  BY <1>5, <1>6, <1>7, <1>8

\* After a crash every page reads as it does on disk.
LEMMA CrashSeen ==
  ASSUME Crash
  PROVE  \A p \in Page : Current(p)' = ReadPage(p) /\ ReadPage(p)' = ReadPage(p)
  BY DEF Crash, Current, ReadPage

\* No write is lost: outside a crash a page changes only under a pointer to it.
THEOREM NoWriteLost == Spec => OnlyHoldersChange
<1> DEFINE Held(p) == \E u \in User : user[u] # None /\ user[u].page = p
           Only == \A p \in Page : Current(p)' # Current(p) => Crash \/ Held(p)
<1>1. IInv /\ [Next]_vars => [Only]_vars
  <2> SUFFICES ASSUME IInv, Next, ~Crash, NEW p \in Page, Current(p)' # Current(p)
               PROVE  Held(p)
    OBVIOUS
  <2>1. PICK u \in User, v \in Content : Modify(u, v)
    <3>1. ASSUME NEW F \in SUBSET FrameIdx, \A x \in F : Dirty(x), FlushFrames(F)
          PROVE  FALSE
      <4>1. Current(p)' = Current(p)
        BY <3>1, FlushSeen
      <4> QED
        BY <4>1
    <3>2. \A q \in Page : ~FlushPage(q)
      <4> SUFFICES ASSUME NEW q \in Page, FlushPage(q) PROVE FALSE
        OBVIOUS
      <4>1. pageTable_[q] \in FrameIdx
        BY DEF FlushPage, IInv, TypeOK
      <4> QED
        BY <3>1, <4>1 DEF FlushPage
    <3>3. ~FlushAllPages
      BY <3>1 DEF FlushAllPages
    <3>4. ~Allocate
      BY AllocateSeen
    <3>5. \A u \in User, q \in Page : ~FetchPage(u, q) /\ ~PinPage(u, q)
      BY HitKeeps, SamePagesSeen, LoadSeen DEF FetchPage, FetchMiss, PinPage
    <3>6. \A u \in User : ~UnpinPage(u)
      BY UnpinKeeps, SamePagesSeen
    <3> QED
      BY <3>2, <3>3, <3>4, <3>5, <3>6 DEF Next
  <2> QED
    BY <2>1, ModifySeen
<1> QED
  BY <1>1, InvariantHolds, PTL DEF Spec, OnlyHoldersChange

---------------------------------------------------------------------------
(* Who holds what: the lemmas give, for each action, the page every user    *)
(* has fetched.                                                             *)

LEMMA HoldsCases ==
  ASSUME IInv, NEW u \in User
  PROVE  /\ user[u] = None => Holds(u) = None
         /\ user[u] # None => Holds(u) = user[u].page /\ Holds(u) \in Page /\ Holds(u) # None
  BY PoolAssumption DEF IInv, TypeOK, Pointer, Holds

\* Nobody else's page changes when a user gets a pointer or gives it up.
LEMMA PointHolds ==
  ASSUME IInv, NEW u \in User, NEW p \in Page, NEW f \in FrameIdx, Point(u, p, f)
  PROVE  \A w \in User : Holds(w)' = IF w = u THEN p ELSE Holds(w)
<1>1. [page |-> p, frame |-> f] # None
  BY PoolAssumption DEF FrameIdx
<1>2. user' = [user EXCEPT ![u] = [page |-> p, frame |-> f]] /\ user \in [User -> Pointer \cup {None}]
  BY DEF Point, IInv, TypeOK
<1> SUFFICES ASSUME NEW w \in User
             PROVE  Holds(w)' = IF w = u THEN p ELSE Holds(w)
  OBVIOUS
<1>3. CASE w = u
  <2>1. user'[w] = [page |-> p, frame |-> f]
    BY <1>2, <1>3
  <2> QED
    BY <1>1, <1>3, <2>1 DEF Holds
<1>4. CASE w # u
  BY <1>2, <1>4 DEF Holds
<1> QED
  BY <1>3, <1>4

LEMMA UnpinHolds ==
  ASSUME IInv, NEW u \in User, UnpinPage(u)
  PROVE  /\ Holds(u) # None
         /\ \A w \in User : Holds(w)' = IF w = u THEN None ELSE Holds(w)
<1>1. user[u] # None /\ user' = [user EXCEPT ![u] = None] /\ user \in [User -> Pointer \cup {None}]
  BY DEF UnpinPage, IInv, TypeOK
<1>2. Holds(u) # None
  BY <1>1, HoldsCases
<1>3. \A w \in User : Holds(w)' = IF w = u THEN None ELSE Holds(w)
  BY <1>1 DEF Holds
<1> QED
  BY <1>2, <1>3

\* The pool implements the page store of its users: every call maps to a fetch, a
\* write of the page its user has fetched, a release, a write-back of pages as they
\* are seen, a crash or a stutter.
THEOREM Implements == Spec => ImplementsPageStore
<1> DEFINE seen   == [p \in Page |-> Current(p)]
           onDisk == [p \in Page |-> ReadPage(p)]
           held   == [u \in User |-> Holds(u)]
           Same   == \A p \in Page : Current(p)' = Current(p) /\ ReadPage(p)' = ReadPage(p)
           Saved(P) == \A p \in Page : /\ Current(p)' = Current(p)
                                     /\ ReadPage(p)' = IF p \in P THEN Current(p) ELSE ReadPage(p)
<1>1. Init => Store!SharedInit
  BY FileAssumption
     DEF Init, FileInit, PoolInit, Store!SharedInit, Store!Init, Current, ReadPage, Holds
<1>2. IInv /\ [Next]_vars => [Store!SharedNext]_<<<<seen, onDisk>>, held>>
  <2> SUFFICES ASSUME IInv, [Next]_vars
               PROVE  Store!SharedNext \/ UNCHANGED <<<<seen, onDisk>>, held>>
    OBVIOUS
  <2>1. ASSUME Same PROVE Saved({})
    BY <2>1
  <2>2. ASSUME NEW P \in SUBSET Page, Saved(P) PROVE Store!Persist(P)
    BY <2>2 DEF Store!Persist
  <2>3. ASSUME UNCHANGED user PROVE UNCHANGED held
    BY <2>3 DEF Holds
  <2>4. ASSUME NEW u \in User, NEW p \in Page, NEW f \in FrameIdx, Point(u, p, f),
               user[u] = None, NEW P \in SUBSET Page, Saved(P)
        PROVE  Store!SharedNext
    <3>1. held[u] = None /\ held' = [held EXCEPT ![u] = p]
      BY <2>4, HoldsCases, PointHolds
    <3>2. Store!Persist(P)
      BY <2>2, <2>4
    <3>3. Store!Fetch(u, p)
      BY <3>1, <3>2 DEF Store!Fetch
    <3> QED
      BY <3>3 DEF Store!SharedNext
  <2>5. ASSUME NEW P \in SUBSET Page, Saved(P), UNCHANGED user
        PROVE  Store!SharedNext
    <3>1. Store!Save(P)
      BY <2>2, <2>3, <2>5 DEF Store!Save
    <3> QED
      BY <3>1 DEF Store!SharedNext
  <2>6. ASSUME NEW F \in SUBSET FrameIdx, \A x \in F : Dirty(x), FlushFrames(F)
        PROVE  Store!SharedNext
    <3> DEFINE P == {p \in Page : \E f \in F : frames_[f].pid = p}
    <3>1. Saved(P)
      BY <2>6, FlushSeen
    <3> HIDE DEF P
    <3>2. P \in SUBSET Page
      BY DEF P
    <3>3. UNCHANGED user
      BY <2>6 DEF FlushFrames
    <3> QED
      BY <2>5, <3>1, <3>2, <3>3
  <2>7. ASSUME NEW u \in User, NEW p \in Page, NEW f \in FrameIdx, LoadInto(u, p, f)
        PROVE  Store!SharedNext
    <3> DEFINE P == {q \in Page : Dirty(f) /\ q = frames_[f].pid}
    <3>1. Saved(P)
      BY <2>7, LoadSeen
    <3> HIDE DEF P
    <3>2. P \in SUBSET Page
      BY DEF P
    <3>3. user[u] = None /\ Point(u, p, f)
      BY <2>7 DEF LoadInto
    <3> QED
      BY <2>4, <3>1, <3>2, <3>3
  <2>8. ASSUME NEW u \in User, NEW p \in Page, FetchHit(u, p)
        PROVE  Store!SharedNext
    <3>1. Saved({})
      BY <2>1, <2>8, HitKeeps, SamePagesSeen
    <3>2. PICK f \in FrameIdx : user[u] = None /\ Point(u, p, f)
      BY <2>8 DEF FetchHit, IInv, TypeOK
    <3> HIDE DEF Saved
    <3> QED
      BY <2>4, <3>1, <3>2
  <2>9. ASSUME NEW u \in User, UnpinPage(u)
        PROVE  Store!SharedNext
    <3>1. UNCHANGED <<seen, onDisk>>
      BY <2>9, UnpinKeeps, SamePagesSeen
    <3>2. held[u] # None /\ held' = [held EXCEPT ![u] = None]
      BY <2>9, UnpinHolds
    <3>3. Store!Release(u)
      BY <3>1, <3>2 DEF Store!Release, Store!vars
    <3> QED
      BY <3>3 DEF Store!SharedNext
  <2>10. ASSUME NEW u \in User, NEW v \in Content, Modify(u, v)
        PROVE  Store!SharedNext
    <3>1. held[u] = user[u].page /\ held[u] # None /\ UNCHANGED held
      BY <2>3, <2>10, HoldsCases DEF Modify
    <3>2. Store!Write(held[u], v)
      BY <2>10, <3>1, ModifySeen DEF Store!Write
    <3>3. Store!Modify(u, v)
      BY <3>1, <3>2 DEF Store!Modify
    <3> QED
      BY <3>3 DEF Store!SharedNext
  <2>11. ASSUME NEW p \in Page, FlushPage(p)
        PROVE  Store!SharedNext
    <3>1. pageTable_[p] \in FrameIdx
      BY <2>11 DEF FlushPage, IInv, TypeOK
    <3> QED
      BY <2>6, <2>11, <3>1 DEF FlushPage
  <2>12. ASSUME FlushAllPages
        PROVE  Store!SharedNext
    BY <2>6, <2>12 DEF FlushAllPages
  <2>13. CASE Allocate
    <3>1. Saved({})
      BY <2>1, <2>13, AllocateSeen
    <3>2. UNCHANGED user
      BY <2>13 DEF Allocate, poolVars
    <3> HIDE DEF Saved
    <3> QED
      BY <2>5, <3>1, <3>2
  <2>14. CASE Crash
    <3>1. Store!Crash
      BY <2>14, CrashSeen DEF Store!Crash
    <3>2. held' = [u \in User |-> None]
      BY <2>14 DEF Crash, Holds
    <3>3. Store!Die
      BY <3>1, <3>2 DEF Store!Die
    <3> QED
      BY <3>3 DEF Store!SharedNext
  <2>15. CASE UNCHANGED vars
    BY <2>3, <2>15 DEF vars, poolVars, Current, ReadPage
  <2>16. ASSUME NEW u \in User, NEW p \in Page, FetchPage(u, p) \/ PinPage(u, p)
         PROVE  Store!SharedNext
    BY <2>7, <2>8, <2>16 DEF FetchPage, FetchMiss, PinPage
  <2> HIDE DEF seen, onDisk, held
  <2>17. CASE Next
    BY <2>9, <2>10, <2>11, <2>12, <2>13, <2>14, <2>16, <2>17 DEF Next
  <2> QED
    BY <2>15, <2>17
<1> QED
  BY <1>1, <1>2, InvariantHolds, PTL DEF Spec, ImplementsPageStore, Store!SharedSpec, Store!vars
=============================================================================
