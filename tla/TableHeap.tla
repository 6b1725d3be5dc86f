----------------------------- MODULE TableHeap -----------------------------
(***************************************************************************)
(* src/tableHeap/TableHeap.{h,cpp}: the slotted pages of one table.  A     *)
(* page has a slot count and, for every slot, a tombstone byte and the     *)
(* bytes of a record; a freshly zeroed page has no slots and only dead     *)
(* ones behind them.                                                       *)
(*                                                                         *)
(* Every function fetches a page from the buffer pool, works on it and     *)
(* unpins it, one page at a time, so the pool is the PageStore its module  *)
(* shows it to be: `content` is what fetchPage returns and `durable` what  *)
(* is on disk.  A function is one action: nothing else runs in between.    *)
(***************************************************************************)
EXTENDS Integers

CONSTANTS MaxPages,  \* bound: the file has at most this many pages
          MaxSlots,  \* maxSlotsPerPage_
          Value,     \* records
          Zero       \* the bytes of a record in a zeroed page

ASSUME HeapAssumption == MaxPages \in Nat \ {0} /\ MaxSlots \in Nat \ {0}

VARIABLES content, durable, pageCount

heapVars == <<content, durable, pageCount>>

Page == 0 .. MaxPages - 1
Slot == 0 .. MaxSlots - 1

HeapPage == [numSlots : 0 .. MaxSlots,
             alive    : [Slot -> BOOLEAN],
             record   : [Slot -> Value \cup {Zero}]]

ZeroPage == [numSlots |-> 0,
             alive    |-> [i \in Slot |-> FALSE],
             record   |-> [i \in Slot |-> Zero]]

RecordID == [pageId : Page, slotNum : Slot]

Pool == INSTANCE PageStore WITH Content <- HeapPage, Zero <- ZeroPage

TypeOK ==
  /\ content \in [Page -> HeapPage]
  /\ durable \in [Page -> HeapPage]
  /\ pageCount \in 0 .. MaxPages

\* The constructor gives an empty file its first page.
Init == Pool!Init /\ pageCount = 1

-----------------------------------------------------------------------------
LiveIn(pages, r) ==
  /\ r.slotNum < pages[r.pageId].numSlots
  /\ pages[r.pageId].alive[r.slotNum]

Live(r) == LiveIn(content, r)

\* The records of a set of pages, by record id.
RowsOf(pages) ==
  [r \in {x \in RecordID : LiveIn(pages, x)} |-> pages[r.pageId].record[r.slotNum]]

\* Faulty: the slot count is not grown.
PutSlotUncounted(page, i, v) ==
  [page EXCEPT !.alive = [@ EXCEPT ![i] = TRUE], !.record = [@ EXCEPT ![i] = v]]

\* Faulty: counts a slot again when it is taken again.
PutSlotRecounted(page, i, v) ==
  [page EXCEPT !.numSlots = @ + 1,
               !.alive    = [@ EXCEPT ![i] = TRUE],
               !.record   = [@ EXCEPT ![i] = v]]

\* What the functions do to one page: setSlotAlive and the memcpy of the record,
\* with the slot count grown when the slot is behind the last one.
PutSlot(page, i, v) ==
  [numSlots |-> IF i >= page.numSlots THEN i + 1 ELSE page.numSlots,
   alive    |-> [page.alive EXCEPT ![i] = TRUE],
   record   |-> [page.record EXCEPT ![i] = v]]

\* Faulty: the page ends where a record is deleted.
KillSlotAndTail(page, i) == [page EXCEPT !.numSlots = i]

KillSlot(page, i) == [page EXCEPT !.alive = [@ EXCEPT ![i] = FALSE]]

WriteSlot(page, i, v) == [page EXCEPT !.record = [@ EXCEPT ![i] = v]]

\* Faulty: takes any slot for a tombstone.
UsedSlots(page) == {i \in Slot : i < page.numSlots}

Tombstones(page) == {i \in Slot : i < page.numSlots /\ ~page.alive[i]}

\* Faulty: forgets the tombstones.
HasRoomAtEnd(page) == page.numSlots < MaxSlots

HasRoom(page) == Tombstones(page) # {} \/ page.numSlots < MaxSlots

\* The slot insertRecord takes in a page: the first tombstone, else a new slot.
TakesSlot(page, i) ==
  \/ i \in Tombstones(page) /\ \A j \in Tombstones(page) : i <= j
  \/ Tombstones(page) = {} /\ i = page.numSlots

ChangeSlot(r, page) ==
  /\ Pool!Write(r.pageId, page)
  /\ UNCHANGED pageCount

\* insertRecord finds a slot in the first page that has room.
FindsInPage(r) ==
  /\ r.pageId < pageCount
  /\ HasRoom(content[r.pageId])
  /\ \A q \in Page : q < r.pageId => ~HasRoom(content[q])
  /\ TakesSlot(content[r.pageId], r.slotNum)

\* No page has room: the record becomes the first of a new page.
FindsNewPage(r) ==
  /\ \A q \in Page : q < pageCount => ~HasRoom(content[q])
  /\ r.pageId = pageCount
  /\ r.slotNum = 0

InsertInPage(r, v) ==
  /\ FindsInPage(r)
  /\ ChangeSlot(r, PutSlot(content[r.pageId], r.slotNum, v))

\* allocatePage appends a zeroed page to the file.
InsertInNewPage(r, v) ==
  /\ FindsNewPage(r)
  /\ Pool!Write(r.pageId, PutSlot([content[r.pageId] EXCEPT !.numSlots = 1], 0, v))
  /\ pageCount' = pageCount + 1

InsertRecord(r, v) == InsertInPage(r, v) \/ InsertInNewPage(r, v)

\* deleteRecord and updateRecord return false, and do nothing, unless the
\* record is in the file and alive.
InFile(r) == r.pageId < pageCount

DeleteRecord(r) ==
  /\ InFile(r) /\ Live(r)
  /\ ChangeSlot(r, KillSlot(content[r.pageId], r.slotNum))

UpdateRecord(r, v) ==
  /\ InFile(r) /\ Live(r)
  /\ ChangeSlot(r, WriteSlot(content[r.pageId], r.slotNum, v))

\* The replay operations check nothing.
InsertAt(r, v) == ChangeSlot(r, PutSlot(content[r.pageId], r.slotNum, v))
DeleteAt(r)    == ChangeSlot(r, KillSlot(content[r.pageId], r.slotNum))
UpdateAt(r, v) == ChangeSlot(r, WriteSlot(content[r.pageId], r.slotNum, v))

\* The pool writes pages back, by eviction or flush.
WriteBack(P) ==
  /\ Pool!Persist(P)
  /\ UNCHANGED pageCount

Crash ==
  /\ Pool!Crash
  /\ UNCHANGED pageCount

\* Records are replayed where they were once inserted, so in a page of the file.
Next ==
  \/ \E r \in RecordID, v \in Value :
       \/ InsertRecord(r, v)
       \/ UpdateRecord(r, v)
       \/ InFile(r) /\ InsertAt(r, v)
       \/ InFile(r) /\ UpdateAt(r, v)
  \/ \E r \in RecordID : DeleteRecord(r) \/ (InFile(r) /\ DeleteAt(r))
  \/ \E p \in Page : WriteBack({p})
  \/ Crash

Spec == Init /\ [][Next]_heapVars

-----------------------------------------------------------------------------
\* The tombstone bytes behind the last slot are clear, in the pool and on disk:
\* insertAt may grow the slot count over several slots (TableHeap.cpp:152-154),
\* and none of those in between may come up as a record.
TailIsDead ==
  \A p \in Page, i \in Slot :
    /\ i >= content[p].numSlots => ~content[p].alive[i]
    /\ i >= durable[p].numSlots => ~durable[p].alive[i]

\* The slot insertRecord would take next is never that of a record, after any
\* mix of deletes, crashes and replays: first fit trusts the slot count, the
\* tombstones and the zeroes of a new page.
InsertTakesFreeSlot ==
  \A r \in RecordID : FindsInPage(r) \/ FindsNewPage(r) => ~Live(r)

\* The file grows only when every slot of every page holds a record: deleted
\* and replayed slots are found again, in whatever page they are.
GrowsOnlyWhenFull ==
  [][pageCount' # pageCount => \A r \in RecordID : InFile(r) => Live(r)]_heapVars

Rows == INSTANCE RowStore WITH
  Rid <- RecordID, rows <- RowsOf(content), saved <- RowsOf(durable)

\* The slotted pages implement the row store: no operation touches
\* another record than its own, and write-back changes none.
ImplementsRowStore == Rows!Spec
=============================================================================
