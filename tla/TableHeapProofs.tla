-------------------------- MODULE TableHeapProofs --------------------------
(***************************************************************************)
(* The slotted pages of module TableHeap, for any number of pages, slots   *)
(* and records: the type, the dead tail of every page, that an insert      *)
(* takes a free slot and the file grows only when it is full, and that the *)
(* pages implement the map of module RowStore.                             *)
(***************************************************************************)
EXTENDS TableHeap, TLAPS

\* The pages behind the end of the file are zero, in the pool and on disk: an
\* insert into a new page finds no record there.
Fresh == \A p \in Page : p >= pageCount => content[p] = ZeroPage /\ durable[p] = ZeroPage

\* The inductive invariant.  TailIsDead alone is not inductive: a page appended to
\* the file gets one slot, and what is behind it is only known to be dead
\* because the page was zero.
IInv == TypeOK /\ TailIsDead /\ Fresh

DeadTail(page) == \A i \in Slot : i >= page.numSlots => ~page.alive[i]

---------------------------------------------------------------------------
(* What the functions do to one page.                                       *)

\* A record written into slot i is alive and counted, and every other slot is as it was.
LEMMA PutSlotPage ==
  ASSUME NEW page \in HeapPage, NEW i \in Slot, NEW v \in Value \cup {Zero}
  PROVE  LET q == PutSlot(page, i, v) IN
         /\ q \in HeapPage
         /\ q.numSlots = IF i >= page.numSlots THEN i + 1 ELSE page.numSlots
         /\ q.alive[i] /\ q.record[i] = v
         /\ \A j \in Slot \ {i} : (q.alive[j] <=> page.alive[j]) /\ q.record[j] = page.record[j]
         /\ DeadTail(page) => DeadTail(q)
<1> DEFINE q == [numSlots |-> IF i >= page.numSlots THEN i + 1 ELSE page.numSlots,
                 alive |-> [page.alive EXCEPT ![i] = TRUE],
                 record |-> [page.record EXCEPT ![i] = v]]
<1>1. PutSlot(page, i, v) = q
  BY DEF PutSlot
<1>2. /\ page.numSlots \in 0 .. MaxSlots
      /\ page.alive \in [Slot -> BOOLEAN]
      /\ page.record \in [Slot -> Value \cup {Zero}]
  BY DEF HeapPage
<1>3. q.numSlots \in 0 .. MaxSlots
  BY <1>2, HeapAssumption DEF Slot
<1>4. q \in HeapPage
  BY <1>2, <1>3 DEF HeapPage
<1>5. /\ q.alive[i] /\ q.record[i] = v
      /\ \A j \in Slot \ {i} : (q.alive[j] <=> page.alive[j]) /\ q.record[j] = page.record[j]
  BY <1>2
<1>6. DeadTail(page) => DeadTail(q)
  BY <1>2, <1>5, HeapAssumption DEF DeadTail, Slot
<1> QED
  BY <1>1, <1>4, <1>5, <1>6

\* Killing a slot leaves the slot count and every other slot as they were.
LEMMA KillSlotPage ==
  ASSUME NEW page \in HeapPage, NEW i \in Slot
  PROVE  LET q == KillSlot(page, i) IN
         /\ q \in HeapPage
         /\ q.numSlots = page.numSlots
         /\ q.record = page.record
         /\ ~q.alive[i]
         /\ \A j \in Slot \ {i} : q.alive[j] <=> page.alive[j]
         /\ DeadTail(page) => DeadTail(q)
<1> DEFINE q == [numSlots |-> page.numSlots,
                 alive |-> [page.alive EXCEPT ![i] = FALSE],
                 record |-> page.record]
<1>1. KillSlot(page, i) = q
  <2> DEFINE a == [page.alive EXCEPT ![i] = FALSE]
  <2>1. KillSlot(page, i) = [page EXCEPT !.alive = a]
    BY DEF KillSlot
  <2> HIDE DEF a
  <2>2. [page EXCEPT !.alive = a]
          = [numSlots |-> page.numSlots, alive |-> a, record |-> page.record]
    BY DEF HeapPage
  <2> QED
    BY <2>1, <2>2 DEF a
<1>2. page.alive \in [Slot -> BOOLEAN]
  BY DEF HeapPage
<1>3. q \in HeapPage
  BY <1>2 DEF HeapPage
<1>4. ~q.alive[i] /\ \A j \in Slot \ {i} : q.alive[j] <=> page.alive[j]
  BY <1>2
<1>5. DeadTail(page) => DeadTail(q)
  BY <1>4 DEF DeadTail
<1> QED
  BY <1>1, <1>3, <1>4, <1>5

\* Writing a slot leaves alive what was alive.
LEMMA WriteSlotPage ==
  ASSUME NEW page \in HeapPage, NEW i \in Slot, NEW v \in Value \cup {Zero}
  PROVE  LET q == WriteSlot(page, i, v) IN
         /\ q \in HeapPage
         /\ q.numSlots = page.numSlots /\ q.alive = page.alive
         /\ q.record[i] = v
         /\ \A j \in Slot \ {i} : q.record[j] = page.record[j]
         /\ DeadTail(page) => DeadTail(q)
<1> DEFINE q == [numSlots |-> page.numSlots,
                 alive |-> page.alive,
                 record |-> [page.record EXCEPT ![i] = v]]
<1>1. WriteSlot(page, i, v) = q
  BY DEF WriteSlot, HeapPage
<1>2. page.record \in [Slot -> Value \cup {Zero}]
  BY DEF HeapPage
<1>3. q \in HeapPage
  BY <1>2 DEF HeapPage
<1>4. q.record[i] = v /\ \A j \in Slot \ {i} : q.record[j] = page.record[j]
  BY <1>2
<1> QED
  BY <1>1, <1>3, <1>4 DEF DeadTail

\* The zeroed page, and its first record.
LEMMA ZeroPageIsEmpty ==
  /\ ZeroPage \in HeapPage
  /\ ZeroPage.numSlots = 0
  /\ DeadTail(ZeroPage)
  /\ \A i \in Slot : ~ZeroPage.alive[i]
BY HeapAssumption DEF ZeroPage, HeapPage, DeadTail

LEMMA FirstRecord ==
  ASSUME NEW v \in Value
  PROVE  PutSlot([ZeroPage EXCEPT !.numSlots = 1], 0, v) = PutSlot(ZeroPage, 0, v)
<1> DEFINE one == [ZeroPage EXCEPT !.numSlots = 1]
           q   == [numSlots |-> 1,
                   alive    |-> [ZeroPage.alive EXCEPT ![0] = TRUE],
                   record   |-> [ZeroPage.record EXCEPT ![0] = v]]
<1>1. ZeroPage \in HeapPage /\ ZeroPage.numSlots = 0
  BY ZeroPageIsEmpty
<1>2. /\ one \in HeapPage /\ one.numSlots = 1
      /\ one.alive = ZeroPage.alive /\ one.record = ZeroPage.record
  BY <1>1, HeapAssumption DEF HeapPage
<1> HIDE DEF one
<1>3. PutSlot(one, 0, v) = q
  BY <1>2 DEF PutSlot
<1>4. PutSlot(ZeroPage, 0, v) = q
  BY <1>1 DEF PutSlot
<1> QED
  BY <1>3, <1>4 DEF one

---------------------------------------------------------------------------
(* The invariant.                                                           *)

\* A page of the file is replaced by one with a dead tail.
LEMMA ChangeKeeps ==
  ASSUME IInv, NEW p \in Page, NEW q \in HeapPage, DeadTail(q),
         content' = [content EXCEPT ![p] = q], durable' = durable,
         pageCount' \in 0 .. MaxPages, pageCount' >= pageCount, p < pageCount'
  PROVE  IInv'
<1>1. \A x \in Page : content'[x] = IF x = p THEN q ELSE content[x]
  BY DEF IInv, TypeOK
<1>2. TypeOK'
  BY <1>1 DEF IInv, TypeOK
<1>3. TailIsDead'
  BY <1>1 DEF IInv, TailIsDead, DeadTail
<1>4. Fresh'
  BY <1>1, HeapAssumption DEF IInv, TypeOK, Fresh, Page
<1> QED
  BY <1>2, <1>3, <1>4 DEF IInv

LEMMA TailOf ==
  ASSUME IInv, NEW p \in Page
  PROVE  content[p] \in HeapPage /\ DeadTail(content[p])
  BY DEF IInv, TypeOK, TailIsDead, DeadTail

\* The slot insertRecord finds holds no record: in a page of the file it is a
\* tombstone or behind the slot count, and a new page is still zero.
LEMMA FoundIsFree ==
  ASSUME IInv, NEW r \in RecordID, FindsInPage(r) \/ FindsNewPage(r)
  PROVE  ~Live(r)
<1>1. r.pageId \in Page /\ r.slotNum \in Slot /\ content[r.pageId] \in HeapPage
  BY DEF RecordID, IInv, TypeOK
<1>2. CASE FindsInPage(r)
  BY <1>1, <1>2 DEF FindsInPage, TakesSlot, Tombstones, Live, LiveIn, Slot, HeapPage
<1>3. CASE FindsNewPage(r)
  <2>1. content[r.pageId] = ZeroPage
    BY <1>1, <1>3 DEF FindsNewPage, IInv, TypeOK, Fresh, Page
  <2> QED
    BY <1>1, <2>1, ZeroPageIsEmpty DEF Live, LiveIn
<1> QED
  BY <1>2, <1>3

\* insertRecord writes the record into one slot of one page, dead before, in the
\* file afterwards.
LEMMA InsertWrites ==
  ASSUME IInv, NEW r \in RecordID, NEW v \in Value, InsertRecord(r, v)
  PROVE  /\ content' = [content EXCEPT ![r.pageId] = PutSlot(content[r.pageId], r.slotNum, v)]
         /\ durable' = durable
         /\ pageCount' \in 0 .. MaxPages /\ pageCount' >= pageCount /\ r.pageId < pageCount'
         /\ ~Live(r)
<1>1. /\ pageCount \in 0 .. MaxPages
      /\ r.pageId \in Page /\ content[r.pageId] \in HeapPage
  BY DEF IInv, TypeOK, RecordID
<1>2. ~Live(r)
  BY FoundIsFree DEF InsertRecord, InsertInPage, InsertInNewPage
<1>3. CASE InsertInPage(r, v)
  <2>1. /\ content' = [content EXCEPT ![r.pageId] = PutSlot(content[r.pageId], r.slotNum, v)]
        /\ durable' = durable /\ pageCount' = pageCount /\ r.pageId < pageCount
    BY <1>3 DEF InsertInPage, FindsInPage, ChangeSlot, Pool!Write
  <2>2. pageCount' \in 0 .. MaxPages /\ pageCount' >= pageCount /\ r.pageId < pageCount'
    BY <1>1, <2>1, HeapAssumption
  <2> QED
    BY <1>2, <2>1, <2>2
<1>4. CASE InsertInNewPage(r, v)
  <2>1. r.pageId = pageCount /\ r.slotNum = 0 /\ pageCount' = pageCount + 1
    BY <1>4 DEF InsertInNewPage, FindsNewPage
  <2>2. content[r.pageId] = ZeroPage
    BY <1>1, <2>1 DEF IInv, Fresh, Page
  <2>3. PutSlot([content[r.pageId] EXCEPT !.numSlots = 1], 0, v)
          = PutSlot(content[r.pageId], r.slotNum, v)
    BY <2>1, <2>2, FirstRecord
  <2>4. pageCount < MaxPages
    BY <1>1, <2>1, HeapAssumption DEF Page
  <2>5. pageCount' \in 0 .. MaxPages /\ pageCount' >= pageCount /\ r.pageId < pageCount'
    BY <1>1, <2>1, <2>4, HeapAssumption
  <2>6. /\ content' = [content EXCEPT ![r.pageId] = PutSlot([content[r.pageId] EXCEPT !.numSlots = 1], 0, v)]
        /\ durable' = durable
    BY <1>4 DEF InsertInNewPage, Pool!Write
  <2> QED
    BY <1>2, <2>3, <2>5, <2>6
<1> QED
  BY <1>3, <1>4 DEF InsertRecord

\* Replaying an insert, and overwriting or killing a slot of the file.
LEMMA PutKeeps ==
  ASSUME IInv, NEW r \in RecordID, NEW v \in Value \cup {Zero},
         content' = [content EXCEPT ![r.pageId] = PutSlot(content[r.pageId], r.slotNum, v)],
         durable' = durable,
         pageCount' \in 0 .. MaxPages, pageCount' >= pageCount, r.pageId < pageCount'
  PROVE  IInv'
<1>1. r.pageId \in Page /\ r.slotNum \in Slot
  BY DEF RecordID
<1>2. PutSlot(content[r.pageId], r.slotNum, v) \in HeapPage
      /\ DeadTail(PutSlot(content[r.pageId], r.slotNum, v))
  BY <1>1, TailOf, PutSlotPage
<1> QED
  BY <1>1, <1>2, ChangeKeeps

LEMMA WriteKeeps ==
  ASSUME IInv, NEW r \in RecordID, NEW v \in Value \cup {Zero}, InFile(r), UpdateAt(r, v)
  PROVE  IInv'
<1>1. r.pageId \in Page /\ r.slotNum \in Slot
  BY DEF RecordID
<1>2. WriteSlot(content[r.pageId], r.slotNum, v) \in HeapPage
      /\ DeadTail(WriteSlot(content[r.pageId], r.slotNum, v))
  BY <1>1, TailOf, WriteSlotPage
<1>3. pageCount \in 0 .. MaxPages
  BY DEF IInv, TypeOK
<1>4. /\ content' = [content EXCEPT ![r.pageId] = WriteSlot(content[r.pageId], r.slotNum, v)]
      /\ durable' = durable /\ pageCount' = pageCount
  BY DEF UpdateAt, ChangeSlot, Pool!Write
<1>5. pageCount' \in 0 .. MaxPages /\ pageCount' >= pageCount /\ r.pageId < pageCount'
  BY <1>3, <1>4, HeapAssumption DEF InFile
<1> QED
  BY <1>1, <1>2, <1>4, <1>5, ChangeKeeps

LEMMA KillKeeps ==
  ASSUME IInv, NEW r \in RecordID, InFile(r), DeleteAt(r)
  PROVE  IInv'
<1>1. r.pageId \in Page /\ r.slotNum \in Slot
  BY DEF RecordID
<1>2. KillSlot(content[r.pageId], r.slotNum) \in HeapPage
      /\ DeadTail(KillSlot(content[r.pageId], r.slotNum))
  BY <1>1, TailOf, KillSlotPage
<1>3. pageCount \in 0 .. MaxPages
  BY DEF IInv, TypeOK
<1>4. /\ content' = [content EXCEPT ![r.pageId] = KillSlot(content[r.pageId], r.slotNum)]
      /\ durable' = durable /\ pageCount' = pageCount
  BY DEF DeleteAt, ChangeSlot, Pool!Write
<1>5. pageCount' \in 0 .. MaxPages /\ pageCount' >= pageCount /\ r.pageId < pageCount'
  BY <1>3, <1>4, HeapAssumption DEF InFile
<1> QED
  BY <1>1, <1>2, <1>4, <1>5, ChangeKeeps

LEMMA InitIInv == Init => IInv
<1> SUFFICES ASSUME Init PROVE IInv
  OBVIOUS
<1>1. \A p \in Page : content[p] = ZeroPage /\ durable[p] = ZeroPage
  BY DEF Init, Pool!Init
<1>2. TypeOK
  BY ZeroPageIsEmpty, HeapAssumption DEF Init, Pool!Init, TypeOK
<1>3. TailIsDead
  BY <1>1, ZeroPageIsEmpty DEF TailIsDead
<1> QED
  BY <1>1, <1>2, <1>3 DEF IInv, Fresh

LEMMA NextIInv == IInv /\ [Next]_heapVars => IInv'
<1> SUFFICES ASSUME IInv, [Next]_heapVars PROVE IInv'
  OBVIOUS
<1>0. pageCount \in 0 .. MaxPages
  BY DEF IInv, TypeOK
<1>1. ASSUME NEW r \in RecordID, NEW v \in Value, InsertRecord(r, v) PROVE IInv'
  BY <1>1, InsertWrites, PutKeeps
<1>2. ASSUME NEW r \in RecordID, NEW v \in Value, UpdateRecord(r, v) PROVE IInv'
  BY <1>2, WriteKeeps DEF UpdateRecord, UpdateAt
<1>3. ASSUME NEW r \in RecordID, NEW v \in Value, InFile(r), InsertAt(r, v) PROVE IInv'
  <2>1. /\ content' = [content EXCEPT ![r.pageId] = PutSlot(content[r.pageId], r.slotNum, v)]
        /\ durable' = durable /\ pageCount' = pageCount
    BY <1>3 DEF InsertAt, ChangeSlot, Pool!Write
  <2>2. pageCount' \in 0 .. MaxPages /\ pageCount' >= pageCount /\ r.pageId < pageCount'
    BY <1>0, <1>3, <2>1, HeapAssumption DEF InFile
  <2> QED
    BY <2>1, <2>2, PutKeeps
<1>4. ASSUME NEW r \in RecordID, NEW v \in Value, InFile(r), UpdateAt(r, v) PROVE IInv'
  BY <1>4, WriteKeeps
<1>5. ASSUME NEW r \in RecordID, DeleteRecord(r) PROVE IInv'
  BY <1>5, KillKeeps DEF DeleteRecord, DeleteAt
<1>6. ASSUME NEW r \in RecordID, InFile(r), DeleteAt(r) PROVE IInv'
  BY <1>6, KillKeeps
<1>7. ASSUME NEW p \in Page, WriteBack({p}) PROVE IInv'
  <2>1. /\ content' = content /\ pageCount' = pageCount
        /\ durable' = [x \in Page |-> IF x \in {p} THEN content[x] ELSE durable[x]]
    BY <1>7 DEF WriteBack, Pool!Persist
  <2> QED
    BY <2>1 DEF IInv, TypeOK, TailIsDead, Fresh
<1>8. CASE Crash
  <2>1. content' = durable /\ durable' = durable /\ pageCount' = pageCount
    BY <1>8 DEF Crash, Pool!Crash
  <2> QED
    BY <2>1 DEF IInv, TypeOK, TailIsDead, Fresh
<1>9. CASE UNCHANGED heapVars
  BY <1>9 DEF heapVars, IInv, TypeOK, TailIsDead, Fresh
<1> QED
  BY <1>1, <1>2, <1>3, <1>4, <1>5, <1>6, <1>7, <1>8, <1>9 DEF Next

LEMMA InvariantHolds == Spec => []IInv
  BY InitIInv, NextIInv, PTL DEF Spec

\* Every page in the pool and on disk is well-formed.
THEOREM TypeCorrect == Spec => []TypeOK
<1>1. IInv => TypeOK
  BY DEF IInv
<1> QED
  BY <1>1, InvariantHolds, PTL

\* No byte behind the last slot of a page says that a record is there.
THEOREM DeadTails == Spec => []TailIsDead
<1>1. IInv => TailIsDead
  BY DEF IInv
<1> QED
  BY <1>1, InvariantHolds, PTL

\* insertRecord never takes the slot of a record, whatever was deleted, replayed
\* and lost in crashes before.
THEOREM InsertsAreFree == Spec => []InsertTakesFreeSlot
<1>1. IInv => InsertTakesFreeSlot
  BY FoundIsFree DEF InsertTakesFreeSlot
<1> QED
  BY <1>1, InvariantHolds, PTL

\* A page is added to the file only when every slot of it holds a record.
THEOREM GrowsWhenFull == Spec => GrowsOnlyWhenFull
<1> DEFINE Full  == \A r \in RecordID : InFile(r) => Live(r)
           Grows == pageCount' # pageCount => Full
<1>1. IInv /\ [Next]_heapVars => [Grows]_heapVars
  <2> SUFFICES ASSUME IInv, Next, pageCount' # pageCount
               PROVE  Full
    OBVIOUS
  <2>1. PICK r \in RecordID, v \in Value : InsertInNewPage(r, v)
    BY DEF Next, InsertRecord, InsertInPage, UpdateRecord, InsertAt, UpdateAt, DeleteRecord,
           DeleteAt, ChangeSlot, WriteBack, Crash
  <2>2. \A q \in Page : q < pageCount => ~HasRoom(content[q])
    BY <2>1 DEF InsertInNewPage, FindsNewPage
  <2> SUFFICES ASSUME NEW x \in RecordID, InFile(x)
               PROVE  Live(x)
    OBVIOUS
  <2>3. x.pageId \in Page /\ x.slotNum \in Slot /\ content[x.pageId] \in HeapPage
    BY DEF RecordID, IInv, TypeOK
  <2>4. ~HasRoom(content[x.pageId])
    BY <2>2, <2>3 DEF InFile
  <2>5. /\ content[x.pageId].numSlots \in 0 .. MaxSlots
        /\ x.slotNum \notin Tombstones(content[x.pageId])
        /\ ~(content[x.pageId].numSlots < MaxSlots)
    BY <2>3, <2>4 DEF HasRoom, HeapPage
  <2>6. x.slotNum < content[x.pageId].numSlots
    BY <2>3, <2>5, HeapAssumption DEF Slot
  <2> QED
    BY <2>3, <2>5, <2>6 DEF Tombstones, Live, LiveIn
<1> QED
  BY <1>1, InvariantHolds, PTL DEF Spec, GrowsOnlyWhenFull

---------------------------------------------------------------------------
(* The pages as a map of rows.                                              *)

\* What changing one slot does to the liveness and the bytes of every record.
LEMMA ChangedPage ==
  ASSUME NEW pages \in [Page -> HeapPage], NEW r \in RecordID, NEW q \in HeapPage,
         NEW x \in RecordID
  PROVE  LET new == [pages EXCEPT ![r.pageId] = q] IN
         new[x.pageId] = IF x.pageId = r.pageId THEN q ELSE pages[x.pageId]
  BY DEF RecordID

LEMMA SameRecordID ==
  ASSUME NEW r \in RecordID, NEW x \in RecordID
  PROVE  x = r <=> x.pageId = r.pageId /\ x.slotNum = r.slotNum
  BY DEF RecordID

\* A slot written alive adds its row or replaces it.  No slot between the old slot
\* count and the new one comes up: that is TailIsDead.
LEMMA PutRow ==
  ASSUME NEW pages \in [Page -> HeapPage], NEW r \in RecordID, NEW v \in Value,
         DeadTail(pages[r.pageId])
  PROVE  RowsOf([pages EXCEPT ![r.pageId] = PutSlot(pages[r.pageId], r.slotNum, v)])
           = [x \in DOMAIN RowsOf(pages) \cup {r} |-> IF x = r THEN v ELSE RowsOf(pages)[x]]
<1> DEFINE page == pages[r.pageId]
           q    == PutSlot(page, r.slotNum, v)
           new  == [pages EXCEPT ![r.pageId] = q]
<1>1. page \in HeapPage /\ r.slotNum \in Slot
  BY DEF RecordID
<1>2. /\ q \in HeapPage
      /\ q.numSlots = IF r.slotNum >= page.numSlots THEN r.slotNum + 1 ELSE page.numSlots
      /\ q.alive[r.slotNum] /\ q.record[r.slotNum] = v
      /\ \A j \in Slot \ {r.slotNum} : (q.alive[j] <=> page.alive[j]) /\ q.record[j] = page.record[j]
  BY <1>1, PutSlotPage
<1> HIDE DEF q
<1>3. \A x \in RecordID : new[x.pageId] = IF x.pageId = r.pageId THEN q ELSE pages[x.pageId]
  BY <1>2, ChangedPage
<1>4. r.slotNum < q.numSlots
  BY <1>1, <1>2 DEF Slot, HeapPage
<1>5. \A j \in Slot : j # r.slotNum =>
         (j < q.numSlots /\ q.alive[j] <=> j < page.numSlots /\ page.alive[j])
  <2> SUFFICES ASSUME NEW j \in Slot, j # r.slotNum
               PROVE  j < q.numSlots /\ q.alive[j] <=> j < page.numSlots /\ page.alive[j]
    OBVIOUS
  <2>1. q.alive[j] <=> page.alive[j]
    BY <1>2
  <2>2. j >= page.numSlots => ~page.alive[j]
    BY DEF DeadTail
  <2>3. j < page.numSlots => j < q.numSlots
    BY <1>1, <1>2, HeapAssumption DEF HeapPage, Slot
  <2>4. j < page.numSlots \/ j >= page.numSlots
    BY <1>1, HeapAssumption DEF HeapPage, Slot
  <2> QED
    BY <2>1, <2>2, <2>3, <2>4
<1>6. ASSUME NEW x \in RecordID
      PROVE  /\ LiveIn(new, x) <=> LiveIn(pages, x) \/ x = r
             /\ x = r => new[x.pageId].record[x.slotNum] = v
             /\ x # r => new[x.pageId].record[x.slotNum] = pages[x.pageId].record[x.slotNum]
  <2>1. x.slotNum \in Slot /\ (x = r <=> x.pageId = r.pageId /\ x.slotNum = r.slotNum)
    BY SameRecordID DEF RecordID
  <2>2. CASE x = r
    BY <1>2, <1>3, <1>4, <2>2 DEF LiveIn
  <2>3. CASE x # r /\ x.pageId = r.pageId
    BY <1>2, <1>3, <1>5, <2>1, <2>3 DEF LiveIn
  <2>4. CASE x.pageId # r.pageId
    BY <1>3, <2>1, <2>4 DEF LiveIn
  <2> QED
    BY <2>2, <2>3, <2>4
<1> HIDE DEF new
<1>7. {x \in RecordID : LiveIn(new, x)} = {x \in RecordID : LiveIn(pages, x)} \cup {r}
  BY <1>6
<1>8. RowsOf(new) = [x \in DOMAIN RowsOf(pages) \cup {r} |-> IF x = r THEN v ELSE RowsOf(pages)[x]]
  BY <1>6, <1>7 DEF RowsOf
<1> QED
  BY <1>8 DEF new, q

\* A slot killed takes its row away.
LEMMA KillRow ==
  ASSUME NEW pages \in [Page -> HeapPage], NEW r \in RecordID
  PROVE  RowsOf([pages EXCEPT ![r.pageId] = KillSlot(pages[r.pageId], r.slotNum)])
           = [x \in DOMAIN RowsOf(pages) \ {r} |-> RowsOf(pages)[x]]
<1> DEFINE page == pages[r.pageId]
           q    == KillSlot(page, r.slotNum)
           new  == [pages EXCEPT ![r.pageId] = q]
<1>1. page \in HeapPage /\ r.slotNum \in Slot
  BY DEF RecordID
<1>2. /\ q \in HeapPage
      /\ q.numSlots = page.numSlots /\ q.record = page.record
      /\ ~q.alive[r.slotNum]
      /\ \A j \in Slot \ {r.slotNum} : q.alive[j] <=> page.alive[j]
  BY <1>1, KillSlotPage
<1> HIDE DEF q
<1>3. \A x \in RecordID : new[x.pageId] = IF x.pageId = r.pageId THEN q ELSE pages[x.pageId]
  BY <1>2, ChangedPage
<1>4. ASSUME NEW x \in RecordID
      PROVE  /\ LiveIn(new, x) <=> LiveIn(pages, x) /\ x # r
             /\ new[x.pageId].record[x.slotNum] = pages[x.pageId].record[x.slotNum]
  <2>1. x.slotNum \in Slot /\ (x = r <=> x.pageId = r.pageId /\ x.slotNum = r.slotNum)
    BY SameRecordID DEF RecordID
  <2>2. CASE x = r
    BY <1>2, <1>3, <2>2 DEF LiveIn
  <2>3. CASE x # r /\ x.pageId = r.pageId
    BY <1>2, <1>3, <2>1, <2>3 DEF LiveIn
  <2>4. CASE x.pageId # r.pageId
    BY <1>3, <2>1, <2>4 DEF LiveIn
  <2> QED
    BY <2>2, <2>3, <2>4
<1> HIDE DEF new
<1>5. {x \in RecordID : LiveIn(new, x)} = {x \in RecordID : LiveIn(pages, x)} \ {r}
  BY <1>4
<1>6. RowsOf(new) = [x \in DOMAIN RowsOf(pages) \ {r} |-> RowsOf(pages)[x]]
  BY <1>4, <1>5 DEF RowsOf
<1> QED
  BY <1>6 DEF new, q

\* A slot overwritten replaces its row, when it is one.
LEMMA WriteRow ==
  ASSUME NEW pages \in [Page -> HeapPage], NEW r \in RecordID, NEW v \in Value
  PROVE  RowsOf([pages EXCEPT ![r.pageId] = WriteSlot(pages[r.pageId], r.slotNum, v)])
           = [x \in DOMAIN RowsOf(pages) |-> IF x = r THEN v ELSE RowsOf(pages)[x]]
<1> DEFINE page == pages[r.pageId]
           q    == WriteSlot(page, r.slotNum, v)
           new  == [pages EXCEPT ![r.pageId] = q]
<1>1. page \in HeapPage /\ r.slotNum \in Slot
  BY DEF RecordID
<1>2. /\ q \in HeapPage
      /\ q.numSlots = page.numSlots /\ q.alive = page.alive
      /\ q.record[r.slotNum] = v
      /\ \A j \in Slot \ {r.slotNum} : q.record[j] = page.record[j]
  BY <1>1, WriteSlotPage
<1> HIDE DEF q
<1>3. \A x \in RecordID : new[x.pageId] = IF x.pageId = r.pageId THEN q ELSE pages[x.pageId]
  BY <1>2, ChangedPage
<1>4. ASSUME NEW x \in RecordID
      PROVE  /\ LiveIn(new, x) <=> LiveIn(pages, x)
             /\ x = r => new[x.pageId].record[x.slotNum] = v
             /\ x # r => new[x.pageId].record[x.slotNum] = pages[x.pageId].record[x.slotNum]
  <2>1. x.slotNum \in Slot /\ (x = r <=> x.pageId = r.pageId /\ x.slotNum = r.slotNum)
    BY SameRecordID DEF RecordID
  <2> QED
    BY <1>2, <1>3, <2>1 DEF LiveIn
<1> HIDE DEF new
<1>5. {x \in RecordID : LiveIn(new, x)} = {x \in RecordID : LiveIn(pages, x)}
  BY <1>4
<1>6. RowsOf(new) = [x \in DOMAIN RowsOf(pages) |-> IF x = r THEN v ELSE RowsOf(pages)[x]]
  BY <1>4, <1>5 DEF RowsOf
<1> QED
  BY <1>6 DEF new, q

\* A page written back brings its rows to the disk, and the absence of the others.
LEMMA PersistRows ==
  ASSUME NEW old \in [Page -> HeapPage], NEW cur \in [Page -> HeapPage], NEW p \in Page
  PROVE  LET R == {x \in RecordID : x.pageId = p} IN
         RowsOf([q \in Page |-> IF q \in {p} THEN cur[q] ELSE old[q]])
           = [x \in (DOMAIN RowsOf(old) \ R) \cup (DOMAIN RowsOf(cur) \cap R) |->
                IF x \in R THEN RowsOf(cur)[x] ELSE RowsOf(old)[x]]
<1> DEFINE R   == {x \in RecordID : x.pageId = p}
           new == [q \in Page |-> IF q \in {p} THEN cur[q] ELSE old[q]]
<1>1. \A x \in RecordID : new[x.pageId] = IF x \in R THEN cur[x.pageId] ELSE old[x.pageId]
  BY DEF RecordID
<1> HIDE DEF new
<1>2. \A x \in RecordID : LiveIn(new, x) <=> IF x \in R THEN LiveIn(cur, x) ELSE LiveIn(old, x)
  BY <1>1 DEF LiveIn
<1>3. {x \in RecordID : LiveIn(new, x)}
        = ({x \in RecordID : LiveIn(old, x)} \ R) \cup ({x \in RecordID : LiveIn(cur, x)} \cap R)
  BY <1>2
<1> HIDE DEF R
<1>4. RowsOf(new) = [x \in (DOMAIN RowsOf(old) \ R) \cup (DOMAIN RowsOf(cur) \cap R) |->
                       IF x \in R THEN RowsOf(cur)[x] ELSE RowsOf(old)[x]]
  BY <1>1, <1>3 DEF RowsOf
<1> QED
  BY <1>4 DEF new, R

\* The heap implements the row store: the empty file maps to no rows, and every
\* step to a step on one row, a write-back, a crash or a stutter.
THEOREM Implements == Spec => ImplementsRowStore
<1> DEFINE rows  == RowsOf(content)
           saved == RowsOf(durable)
<1>1. Init => Rows!Init
  <2> SUFFICES ASSUME Init
               PROVE  Rows!Init
    OBVIOUS
  <2>1. \A x \in RecordID : ~LiveIn(content, x) /\ ~LiveIn(durable, x)
    BY ZeroPageIsEmpty DEF Init, Pool!Init, LiveIn, RecordID
  <2>2. rows = [r \in {} |-> 0] /\ saved = [r \in {} |-> 0]
    BY <2>1 DEF RowsOf
  <2> QED
    BY <2>2 DEF Rows!Init
<1>2. IInv /\ [Next]_heapVars => [Rows!Next]_<<rows, saved>>
  <2> SUFFICES ASSUME IInv, [Next]_heapVars
               PROVE  Rows!Next \/ UNCHANGED <<rows, saved>>
    OBVIOUS
  <2>0. content \in [Page -> HeapPage] /\ durable \in [Page -> HeapPage]
    BY DEF IInv, TypeOK
  <2>1. ASSUME NEW r \in RecordID, NEW v \in Value, durable' = durable,
               content' = [content EXCEPT ![r.pageId] = PutSlot(content[r.pageId], r.slotNum, v)]
        PROVE  Rows!Overwrite(r, v)
    <3>1. DeadTail(content[r.pageId])
      BY TailOf DEF RecordID
    <3>2. rows' = [x \in DOMAIN rows \cup {r} |-> IF x = r THEN v ELSE rows[x]] /\ saved' = saved
      BY <2>0, <2>1, <3>1, PutRow
    <3> QED
      BY <3>2 DEF Rows!Overwrite, Rows!Put
  <2>2. ASSUME NEW r \in RecordID, NEW v \in Value, UpdateAt(r, v)
        PROVE  Rows!Overwrite(r, v) \/ UNCHANGED <<rows, saved>>
    <3>1. /\ content' = [content EXCEPT ![r.pageId] = WriteSlot(content[r.pageId], r.slotNum, v)]
          /\ durable' = durable
      BY <2>2 DEF UpdateAt, ChangeSlot, Pool!Write
    <3>2. rows' = [x \in DOMAIN rows |-> IF x = r THEN v ELSE rows[x]] /\ saved' = saved
      BY <2>0, <3>1, WriteRow
    <3>3. CASE r \in DOMAIN rows
      <4>1. rows' = [x \in DOMAIN rows \cup {r} |-> IF x = r THEN v ELSE rows[x]]
        <5>1. DOMAIN rows \cup {r} = DOMAIN rows
          BY <3>3
        <5> QED
          BY <3>2, <5>1
      <4> QED
        BY <3>2, <4>1 DEF Rows!Overwrite, Rows!Put
    <3>4. CASE r \notin DOMAIN rows
      <4>1. rows = [x \in DOMAIN rows |-> rows[x]]
        BY DEF RowsOf
      <4>2. rows' = rows
        BY <3>2, <3>4, <4>1
      <4> QED
        BY <3>2, <4>2
    <3> QED
      BY <3>3, <3>4
  <2>3. ASSUME NEW r \in RecordID, DeleteAt(r)
        PROVE  Rows!Delete(r)
    <3>1. /\ content' = [content EXCEPT ![r.pageId] = KillSlot(content[r.pageId], r.slotNum)]
          /\ durable' = durable
      BY <2>3 DEF DeleteAt, ChangeSlot, Pool!Write
    <3>2. rows' = [x \in DOMAIN rows \ {r} |-> rows[x]] /\ saved' = saved
      BY <2>0, <3>1, KillRow
    <3> QED
      BY <3>2 DEF Rows!Delete
  <2>4. ASSUME NEW p \in Page, WriteBack({p})
        PROVE  Rows!Persist({x \in RecordID : x.pageId = p})
    <3>1. /\ content' = content
          /\ durable' = [q \in Page |-> IF q \in {p} THEN content[q] ELSE durable[q]]
      BY <2>4 DEF WriteBack, Pool!Persist
    <3> QED
      BY <2>0, <3>1, PersistRows DEF Rows!Persist
  <2>5. ASSUME Crash
        PROVE  Rows!Crash
    BY <2>5 DEF Crash, Pool!Crash, Rows!Crash, RowsOf, LiveIn
  <2>6. CASE UNCHANGED heapVars
    BY <2>6 DEF heapVars
  <2>7. ASSUME NEW r \in RecordID, NEW v \in Value, InsertRecord(r, v)
        PROVE  Rows!Overwrite(r, v)
    BY <2>1, <2>7, InsertWrites
  <2>8. ASSUME NEW r \in RecordID, NEW v \in Value, InsertAt(r, v)
        PROVE  Rows!Overwrite(r, v)
    BY <2>1, <2>8 DEF InsertAt, ChangeSlot, Pool!Write
  <2>9. ASSUME NEW r \in RecordID, NEW v \in Value, UpdateRecord(r, v)
        PROVE  Rows!Overwrite(r, v) \/ UNCHANGED <<rows, saved>>
    BY <2>2, <2>9 DEF UpdateRecord, UpdateAt
  <2>10. ASSUME NEW r \in RecordID, DeleteRecord(r)
         PROVE  Rows!Delete(r)
    BY <2>3, <2>10 DEF DeleteRecord, DeleteAt
  <2>11. \A p \in Page : {x \in RecordID : x.pageId = p} \in SUBSET RecordID
    OBVIOUS
  <2> QED
    BY <2>2, <2>3, <2>4, <2>5, <2>6, <2>7, <2>8, <2>9, <2>10, <2>11 DEF Next, Rows!Next
<1> QED
  BY <1>1, <1>2, InvariantHolds, PTL DEF Spec, ImplementsRowStore, Rows!Spec, Rows!vars
=============================================================================
