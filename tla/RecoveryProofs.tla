--------------------------- MODULE RecoveryProofs ---------------------------
(***************************************************************************)
(* Proofs about Recovery, for any heap, any number of transactions, any    *)
(* write-backs, crashes and shutdowns: the types; an acknowledged commit   *)
(* is in the log file; recovery would bring back the acknowledged commits  *)
(* at every moment; and it leaves exactly them.                            *)
(*                                                                         *)
(* The argument.  A life that logs gives every slot a history: the row it  *)
(* holds after each record of the log, file and buffer together (Chain).   *)
(* The pool is at the end of it, the committed rows are where the records  *)
(* before the open transaction end, and a page on disk is, slot by slot,   *)
(* at some moment whose records are in the file (History).  recover()      *)
(* redoes the records up to one place and undoes those behind it (Finds).  *)
(* Of all its visits to a slot the last one that inserts or deletes says   *)
(* whether it is alive, and the last one that inserts or updates says what *)
(* it holds (Determines); both agree with the history at that one place.   *)
(* A slot no visit inserts into or deletes was alive at every moment the   *)
(* disk can show, or at none, and so for its bytes (Fits).  From there on, *)
(* in and between the attempts at recovery, log and pages keep this        *)
(* relation to the committed rows, and what has been replayed is in the    *)
(* pool (Outside).                                                         *)
(***************************************************************************)
EXTENDS Recovery, TLAPS, WellFoundedInduction, SequenceTheorems

HP == INSTANCE TableHeapProofs

DeadTail(page) == \A i \in Heap!Slot : i >= page.numSlots => ~page.alive[i]

Tame(pages) ==
  pages \in [Heap!Page -> Heap!HeapPage] /\ \A p \in Heap!Page : DeadTail(pages[p])

Bytes(pages, r) == pages[r.pageId].record[r.slotNum]

-----------------------------------------------------------------------------
(* Loops.                                                                   *)

\* What holds at k and goes from every number to the next holds at l.
LEMMA Climb ==
  ASSUME NEW k \in Nat, NEW l \in Nat, k <= l, NEW S,
         k \in S, \A i \in k + 1 .. l : i - 1 \in S => i \in S
  PROVE  l \in S
<1> SUFFICES ASSUME l \notin S PROVE FALSE
  OBVIOUS
<1> DEFINE T == {i \in k .. l : i \notin S}
<1>1. T \subseteq Nat /\ T # {}
  OBVIOUS
<1>2. PICK x \in T : \A y \in T : ~ (<<y, x>> \in OpToRel(<, Nat))
  BY <1>1, NatLessThanWellFounded, WFMin
<1>3. \A y \in T : ~ (y < x)
  BY <1>1, <1>2 DEF OpToRel
<1>4. x \in k .. l /\ x \notin S /\ x # k
  OBVIOUS
<1>5. x - 1 \in k .. l /\ x - 1 < x /\ x \in k + 1 .. l
  BY <1>4
<1>6. x - 1 \in S
  BY <1>3, <1>5
<1> QED
  BY <1>4, <1>5, <1>6

\* The last of the numbers up to k that are in J.
Latest(J, j, k) == j \in J /\ j <= k /\ \A i \in J : i <= k => i <= j

LEMMA LatestExists ==
  ASSUME NEW n \in Nat, NEW J, J \subseteq 1 .. n, NEW k \in 0 .. n,
         \E i \in J : i <= k
  PROVE  \E j \in J : Latest(J, j, k)
<1> DEFINE T == {d \in 0 .. k : k - d \in J}
<1>1. PICK i \in J : i <= k
  OBVIOUS
<1>2. i \in 1 .. n /\ k - i \in 0 .. k /\ k - (k - i) = i
  BY <1>1
<1>3. T \subseteq Nat /\ T # {}
  BY <1>1, <1>2
<1>4. PICK x \in T : \A y \in T : ~ (<<y, x>> \in OpToRel(<, Nat))
  BY <1>3, NatLessThanWellFounded, WFMin
<1>5. \A y \in T : ~ (y < x)
  BY <1>3, <1>4 DEF OpToRel
<1>6. x \in T
  BY <1>4
<1>7. k - x \in J /\ x \in 0 .. k
  BY <1>6
<1> HIDE DEF T
<1>8. k - x <= k
  BY <1>7
<1>9. ASSUME NEW m \in J, m <= k
      PROVE  m <= k - x
  <2>1. m \in 1 .. n /\ k - m \in 0 .. k /\ k - (k - m) = m
    BY <1>9
  <2>2. k - m \in T
    BY <2>1 DEF T
  <2>3. ~ (k - m < x)
    BY <1>5, <2>2
  <2> QED
    BY <1>7, <2>1, <2>3
<1> QED
  BY <1>7, <1>8, <1>9 DEF Latest

-----------------------------------------------------------------------------
(* The heap's pages.                                                        *)

\* TableHeapProofs is about the same heap.
LEMMA SameHeap ==
  /\ Heap!HeapPage = HP!HeapPage /\ Heap!Slot = HP!Slot /\ Heap!Page = HP!Page
  /\ Heap!RecordID = HP!RecordID /\ Heap!ZeroPage = HP!ZeroPage
  /\ \A q : DeadTail(q) = HP!DeadTail(q)
  /\ \A page, i, v : Heap!PutSlot(page, i, v) = HP!PutSlot(page, i, v)
  /\ \A page, i, v : Heap!WriteSlot(page, i, v) = HP!WriteSlot(page, i, v)
  /\ \A page, i : Heap!KillSlot(page, i) = HP!KillSlot(page, i)
  BY DEF DeadTail, HP!DeadTail, Heap!HeapPage, HP!HeapPage, Heap!Slot, HP!Slot, Heap!Page, HP!Page,
     Heap!RecordID, HP!RecordID, Heap!ZeroPage, HP!ZeroPage,
     Heap!PutSlot, HP!PutSlot, Heap!WriteSlot, HP!WriteSlot, Heap!KillSlot, HP!KillSlot

LEMMA PutPage ==
  ASSUME NEW page \in Heap!HeapPage, NEW i \in Heap!Slot, NEW v \in Value \cup {Zero}
  PROVE  LET q == Heap!PutSlot(page, i, v) IN
         /\ q \in Heap!HeapPage
         /\ q.numSlots = IF i >= page.numSlots THEN i + 1 ELSE page.numSlots
         /\ q.alive[i] /\ q.record[i] = v
         /\ \A j \in Heap!Slot \ {i} : (q.alive[j] <=> page.alive[j]) /\ q.record[j] = page.record[j]
         /\ DeadTail(page) => DeadTail(q)
  BY SameHeap, HP!PutSlotPage, RecoveryAssumption

LEMMA KillPage ==
  ASSUME NEW page \in Heap!HeapPage, NEW i \in Heap!Slot
  PROVE  LET q == Heap!KillSlot(page, i) IN
         /\ q \in Heap!HeapPage
         /\ q.numSlots = page.numSlots
         /\ q.record = page.record
         /\ ~q.alive[i]
         /\ \A j \in Heap!Slot \ {i} : q.alive[j] <=> page.alive[j]
         /\ DeadTail(page) => DeadTail(q)
  BY SameHeap, HP!KillSlotPage, RecoveryAssumption

LEMMA WritePage ==
  ASSUME NEW page \in Heap!HeapPage, NEW i \in Heap!Slot, NEW v \in Value \cup {Zero}
  PROVE  LET q == Heap!WriteSlot(page, i, v) IN
         /\ q \in Heap!HeapPage
         /\ q.numSlots = page.numSlots /\ q.alive = page.alive
         /\ q.record[i] = v
         /\ \A j \in Heap!Slot \ {i} : q.record[j] = page.record[j]
         /\ DeadTail(page) => DeadTail(q)
  BY SameHeap, HP!WriteSlotPage, RecoveryAssumption

\* The slots of a page: which are records, and what is in them.
Alive(page, i) == i < page.numSlots /\ page.alive[i]

\* A step of the replay changes one slot.
Step == [do : {"insertAt", "deleteAt", "updateAt"}, rid : Heap!RecordID, value : Datum]

LEMMA ReplayPage ==
  ASSUME NEW page \in Heap!HeapPage, DeadTail(page), NEW s \in Step, CanReplay(s)
  PROVE  LET q == ReplayOn(page, s)
             i == s.rid.slotNum IN
         /\ q \in Heap!HeapPage /\ DeadTail(q)
         /\ \A j \in Heap!Slot \ {i} : (Alive(q, j) <=> Alive(page, j)) /\ q.record[j] = page.record[j]
         /\ s.do = "insertAt" => Alive(q, i) /\ q.record[i] = s.value
         /\ s.do = "deleteAt" => ~Alive(q, i) /\ q.record[i] = page.record[i]
         /\ s.do = "updateAt" => (Alive(q, i) <=> Alive(page, i)) /\ q.record[i] = s.value
<1> DEFINE i == s.rid.slotNum
<1>1. i \in Heap!Slot /\ s.do \in {"insertAt", "deleteAt", "updateAt"} /\ s.value \in Datum
  BY DEF Step, Heap!RecordID
<1>2. s.do # "deleteAt" => s.value \in Value \cup {Zero}
  BY <1>1 DEF CanReplay, Datum
<1>3. page.numSlots \in 0 .. MaxSlots /\ Heap!Slot = 0 .. MaxSlots - 1 /\ MaxSlots \in Nat
  BY RecoveryAssumption DEF Heap!HeapPage, Heap!Slot
<1> HIDE DEF i
<1>4. CASE s.do = "insertAt"
  <2> DEFINE q == Heap!PutSlot(page, i, s.value)
  <2>1. ReplayOn(page, s) = q
    BY <1>4 DEF ReplayOn, i
  <2>2. /\ q \in Heap!HeapPage
        /\ q.numSlots = IF i >= page.numSlots THEN i + 1 ELSE page.numSlots
        /\ q.alive[i] /\ q.record[i] = s.value
        /\ \A j \in Heap!Slot \ {i} : (q.alive[j] <=> page.alive[j]) /\ q.record[j] = page.record[j]
        /\ DeadTail(page) => DeadTail(q)
    BY <1>1, <1>2, <1>4, PutPage
  <2> HIDE DEF q
  <2>3. Alive(q, i)
    BY <1>1, <1>3, <2>2 DEF Alive
  <2>4. ASSUME NEW j \in Heap!Slot \ {i}
        PROVE  Alive(q, j) <=> Alive(page, j)
    <3>1. q.alive[j] <=> page.alive[j]
      BY <2>2
    <3>2. page.alive[j] => j < page.numSlots
      BY <1>3 DEF DeadTail
    <3>3. j < page.numSlots => j < q.numSlots
      BY <1>1, <1>3, <2>2
    <3> QED
      BY <3>1, <3>2, <3>3 DEF Alive
  <2> QED
    BY <1>4, <2>1, <2>2, <2>3, <2>4 DEF i
<1>5. CASE s.do = "deleteAt"
  <2> DEFINE q == Heap!KillSlot(page, i)
  <2>1. ReplayOn(page, s) = q
    BY <1>5 DEF ReplayOn, i
  <2>2. /\ q \in Heap!HeapPage /\ q.numSlots = page.numSlots /\ q.record = page.record /\ ~q.alive[i]
        /\ \A j \in Heap!Slot \ {i} : q.alive[j] <=> page.alive[j]
        /\ DeadTail(page) => DeadTail(q)
    BY <1>1, KillPage
  <2> HIDE DEF q
  <2> QED
    BY <1>5, <2>1, <2>2 DEF Alive, i
<1>6. CASE s.do = "updateAt"
  <2> DEFINE q == Heap!WriteSlot(page, i, s.value)
  <2>1. ReplayOn(page, s) = q
    BY <1>6 DEF ReplayOn, i
  <2>2. /\ q \in Heap!HeapPage /\ q.numSlots = page.numSlots /\ q.alive = page.alive
        /\ q.record[i] = s.value
        /\ \A j \in Heap!Slot \ {i} : q.record[j] = page.record[j]
        /\ DeadTail(page) => DeadTail(q)
    BY <1>1, <1>2, <1>6, WritePage
  <2> HIDE DEF q
  <2> QED
    BY <1>6, <2>1, <2>2 DEF Alive, i
<1> QED
  BY <1>1, <1>4, <1>5, <1>6

LEMMA ReplayEffect ==
  ASSUME NEW pages, Tame(pages), NEW s \in Step, CanReplay(s)
  PROVE  LET q == [pages EXCEPT ![s.rid.pageId] = ReplayOn(@, s)] IN
         /\ Tame(q)
         /\ \A r \in Heap!RecordID \ {s.rid} :
              (Heap!LiveIn(q, r) <=> Heap!LiveIn(pages, r)) /\ Bytes(q, r) = Bytes(pages, r)
         /\ s.do = "insertAt" => Heap!LiveIn(q, s.rid) /\ Bytes(q, s.rid) = s.value
         /\ s.do = "deleteAt" => ~Heap!LiveIn(q, s.rid) /\ Bytes(q, s.rid) = Bytes(pages, s.rid)
         /\ s.do = "updateAt" =>
              (Heap!LiveIn(q, s.rid) <=> Heap!LiveIn(pages, s.rid)) /\ Bytes(q, s.rid) = s.value
<1> DEFINE p    == s.rid.pageId
           i    == s.rid.slotNum
           page == ReplayOn(pages[p], s)
           q    == [pages EXCEPT ![p] = page]
<1>1. /\ pages \in [Heap!Page -> Heap!HeapPage]
      /\ p \in Heap!Page /\ i \in Heap!Slot
      /\ pages[p] \in Heap!HeapPage /\ DeadTail(pages[p])
  BY DEF Tame, Step, Heap!RecordID
<1>2. /\ page \in Heap!HeapPage /\ DeadTail(page)
      /\ \A j \in Heap!Slot \ {i} : (Alive(page, j) <=> Alive(pages[p], j)) /\ page.record[j] = pages[p].record[j]
      /\ s.do = "insertAt" => Alive(page, i) /\ page.record[i] = s.value
      /\ s.do = "deleteAt" => ~Alive(page, i) /\ page.record[i] = pages[p].record[i]
      /\ s.do = "updateAt" => (Alive(page, i) <=> Alive(pages[p], i)) /\ page.record[i] = s.value
  BY <1>1, ReplayPage
<1> HIDE DEF page
<1>3. \A x \in Heap!Page : q[x] = IF x = p THEN page ELSE pages[x]
  BY <1>1
<1>4. Tame(q)
  BY <1>1, <1>2, <1>3 DEF Tame
<1>5. [pages EXCEPT ![s.rid.pageId] = ReplayOn(@, s)] = q
  BY DEF page
<1> HIDE DEF q
<1>6. \A x : \A r \in Heap!RecordID : Heap!LiveIn(x, r) <=> Alive(x[r.pageId], r.slotNum)
  BY DEF Heap!LiveIn, Alive
<1>7. ASSUME NEW r \in Heap!RecordID \ {s.rid}
      PROVE  (Heap!LiveIn(q, r) <=> Heap!LiveIn(pages, r)) /\ Bytes(q, r) = Bytes(pages, r)
  <2>1. r.pageId \in Heap!Page /\ r.slotNum \in Heap!Slot /\ (r.pageId = p => r.slotNum # i)
    BY DEF Heap!RecordID, Step
  <2>2. CASE r.pageId # p
    BY <1>3, <1>6, <2>1, <2>2 DEF Bytes
  <2>3. CASE r.pageId = p
    BY <1>2, <1>3, <1>6, <2>1, <2>3 DEF Bytes
  <2> QED
    BY <2>2, <2>3
<1>8. s.rid \in Heap!RecordID
  BY DEF Step
<1> HIDE DEF p, i
<1>9. /\ s.do = "insertAt" => Heap!LiveIn(q, s.rid) /\ Bytes(q, s.rid) = s.value
      /\ s.do = "deleteAt" => ~Heap!LiveIn(q, s.rid) /\ Bytes(q, s.rid) = Bytes(pages, s.rid)
      /\ s.do = "updateAt" =>
           (Heap!LiveIn(q, s.rid) <=> Heap!LiveIn(pages, s.rid)) /\ Bytes(q, s.rid) = s.value
  BY <1>1, <1>2, <1>3, <1>6, <1>8 DEF Bytes, p, i
<1> QED
  BY <1>4, <1>5, <1>7, <1>9

-----------------------------------------------------------------------------
(* The replay of a log, slot by slot.  The two things a slot has, whether   *)
(* it is alive and its bytes, are each what the last visit says that sets   *)
(* them, or what they were before.                                          *)

Marks(log, r)  == {j \in Visits(log) : StepAt(log, j).rid = r /\ StepAt(log, j).do # "updateAt"}
Writes(log, r) == {j \in Visits(log) : StepAt(log, j).rid = r /\ StepAt(log, j).do # "deleteAt"}

\* The last visits to each slot agree with rows.
Determines(log, rows) ==
  \A r \in Heap!RecordID :
    /\ \A j \in Marks(log, r) : Latest(Marks(log, r), j, 2 * Len(log)) =>
         (StepAt(log, j).do = "insertAt" <=> r \in DOMAIN rows)
    /\ \A j \in Writes(log, r) : Latest(Writes(log, r), j, 2 * Len(log)) /\ r \in DOMAIN rows =>
         StepAt(log, j).value = rows[r]

\* What no visit sets is in pages as in rows.
Fits(log, pages, rows) ==
  \A r \in Heap!RecordID :
    /\ Marks(log, r) = {} => (Heap!LiveIn(pages, r) <=> r \in DOMAIN rows)
    /\ Writes(log, r) = {} /\ r \in DOMAIN rows => Bytes(pages, r) = rows[r]

\* What the visits up to k set is in pages.
Reached(log, pages, k) ==
  \A r \in Heap!RecordID :
    /\ \A j \in Marks(log, r) : Latest(Marks(log, r), j, k) =>
         (Heap!LiveIn(pages, r) <=> StepAt(log, j).do = "insertAt")
    /\ \A j \in Writes(log, r) : Latest(Writes(log, r), j, k) =>
         Bytes(pages, r) = StepAt(log, j).value

IsRows(rows) == rows = [r \in DOMAIN rows |-> rows[r]] /\ DOMAIN rows \subseteq Heap!RecordID

LEMMA DataType ==
  ASSUME NEW rec \in LogRecord, IsData(rec)
  PROVE  rec \in DataRecord
  BY DEF LogRecord, EndRecord, Garbage, IsData

\* Reading changes no more of a record than its values.
LEMMA AsReadType ==
  ASSUME NEW rec \in LogRecord
  PROVE  /\ AsRead(rec) \in LogRecord
         /\ IsData(AsRead(rec)) <=> IsData(rec)
         /\ IsData(rec) => AsRead(rec).rid = rec.rid
<1>1. CASE rec.op = "UPDATE"
  <2>1. rec \in DataRecord /\ IsData(rec)
    BY <1>1, DataType DEF IsData
  <2>2. OldRead[rec.old] \in Datum /\ Misfit \in Datum
    BY <2>1, RecoveryAssumption DEF DataRecord, Datum
  <2> DEFINE old == OldRead[rec.old]
             new == IF old = Misfit THEN Misfit ELSE rec.new
  <2>3. old \in Datum /\ new \in Datum
    BY <2>1, <2>2 DEF DataRecord
  <2>4. AsRead(rec) = [rec EXCEPT !.old = old, !.new = new]
    BY <1>1 DEF AsRead
  <2> HIDE DEF old, new
  <2>5. AsRead(rec) \in DataRecord /\ AsRead(rec).op = rec.op /\ AsRead(rec).rid = rec.rid
    BY <2>1, <2>3, <2>4 DEF DataRecord
  <2> QED
    BY <2>1, <2>5 DEF LogRecord, IsData
<1>2. CASE rec.op # "UPDATE"
  BY <1>2 DEF AsRead
<1> QED
  BY <1>1, <1>2

LEMMA VisitsType ==
  ASSUME NEW log \in Seq(LogRecord), NEW j \in Visits(log)
  PROVE  /\ j \in 1 .. 2 * Len(log) /\ Len(log) \in Nat
         /\ Visited(log, j) \in DataRecord
         /\ StepAt(log, j) \in Step
         /\ StepAt(log, j).rid = Visited(log, j).rid
<1>1. j \in 1 .. 2 * Len(log) /\ Len(log) \in Nat /\ IsData(Visited(log, j))
  BY DEF Visits, Replays
<1>2. Visited(log, j) \in LogRecord
  <2> DEFINE i == IF j <= Len(log) THEN j ELSE 2 * Len(log) + 1 - j
  <2>1. i \in 1 .. Len(log)
    BY <1>1
  <2>2. log[i] \in LogRecord /\ Visited(log, j) = AsRead(log[i])
    BY <2>1, ElementOfSeq DEF Visited
  <2> QED
    BY <2>2, AsReadType
<1>3. Visited(log, j) \in DataRecord
  BY <1>1, <1>2, DataType
<1> DEFINE rec == Visited(log, j)
<1> HIDE DEF rec
<1>4. rec \in DataRecord => /\ Redo(rec) \in Step /\ Undo(rec) \in Step
                            /\ Redo(rec).rid = rec.rid /\ Undo(rec).rid = rec.rid
  BY DEF DataRecord, Redo, Undo, Step
<1> QED
  BY <1>1, <1>3, <1>4 DEF rec, StepAt

LEMMA OneReplay ==
  ASSUME NEW log \in Seq(LogRecord), NEW pages, Tame(pages), NEW rows,
         NEW k \in Nat, NEW j \in Visits(log), k < j,
         \A i \in Visits(log) : i > k => j <= i,
         CanReplay(StepAt(log, j)),
         Fits(log, pages, rows), Reached(log, pages, k)
  PROVE  LET q == [pages EXCEPT ![StepAt(log, j).rid.pageId] = ReplayOn(@, StepAt(log, j))] IN
         Tame(q) /\ Fits(log, q, rows) /\ Reached(log, q, j)
<1> DEFINE s == StepAt(log, j)
           q == [pages EXCEPT ![s.rid.pageId] = ReplayOn(@, s)]
<1>1. s \in Step /\ s.rid \in Heap!RecordID /\ s.do \in {"insertAt", "deleteAt", "updateAt"}
  BY VisitsType DEF Step
<1>2. /\ Tame(q)
      /\ \A r \in Heap!RecordID \ {s.rid} :
           (Heap!LiveIn(q, r) <=> Heap!LiveIn(pages, r)) /\ Bytes(q, r) = Bytes(pages, r)
      /\ s.do = "insertAt" => Heap!LiveIn(q, s.rid) /\ Bytes(q, s.rid) = s.value
      /\ s.do = "deleteAt" => ~Heap!LiveIn(q, s.rid) /\ Bytes(q, s.rid) = Bytes(pages, s.rid)
      /\ s.do = "updateAt" =>
           (Heap!LiveIn(q, s.rid) <=> Heap!LiveIn(pages, s.rid)) /\ Bytes(q, s.rid) = s.value
  BY <1>1, ReplayEffect
<1> HIDE DEF q
<1>3. s.do # "updateAt" => j \in Marks(log, s.rid)
  BY DEF Marks
<1>4. s.do # "deleteAt" => j \in Writes(log, s.rid)
  BY DEF Writes
<1>5. \A r :
        /\ \A i \in Marks(log, r) :
             i \in Visits(log) /\ StepAt(log, i).rid = r /\ StepAt(log, i).do # "updateAt"
        /\ \A i \in Writes(log, r) :
             i \in Visits(log) /\ StepAt(log, i).rid = r /\ StepAt(log, i).do # "deleteAt"
  BY DEF Marks, Writes
<1>6. \A i \in Visits(log) : i \in Nat /\ (i <= j => i = j \/ i <= k)
  BY VisitsType
<1>7. j \in Nat
  BY <1>6
<1>8. Fits(log, q, rows)
  <2> SUFFICES ASSUME NEW r \in Heap!RecordID
               PROVE  /\ Marks(log, r) = {} => (Heap!LiveIn(q, r) <=> r \in DOMAIN rows)
                      /\ Writes(log, r) = {} /\ r \in DOMAIN rows => Bytes(q, r) = rows[r]
    BY DEF Fits
  <2>1. /\ Marks(log, r) = {} => (Heap!LiveIn(pages, r) <=> r \in DOMAIN rows)
        /\ Writes(log, r) = {} /\ r \in DOMAIN rows => Bytes(pages, r) = rows[r]
    BY DEF Fits
  <2>2. CASE r # s.rid
    BY <1>2, <2>1, <2>2
  <2>3. CASE r = s.rid
    <3>1. Marks(log, r) = {} => (Heap!LiveIn(q, r) <=> Heap!LiveIn(pages, r))
      BY <1>1, <1>2, <1>3, <2>3
    <3>2. Writes(log, r) = {} => Bytes(q, r) = Bytes(pages, r)
      BY <1>1, <1>2, <1>4, <2>3
    <3> QED
      BY <2>1, <3>1, <3>2
  <2> QED
    BY <2>2, <2>3
<1>9. ASSUME NEW r \in Heap!RecordID, NEW i \in Marks(log, r), Latest(Marks(log, r), i, j)
      PROVE  Heap!LiveIn(q, r) <=> StepAt(log, i).do = "insertAt"
  <2>1. i \in Visits(log) /\ i <= j /\ StepAt(log, i).rid = r /\ StepAt(log, i).do # "updateAt"
    BY <1>5, <1>9 DEF Latest
  <2>2. CASE i = j
    BY <1>1, <1>2, <2>1, <2>2
  <2>3. CASE i # j
    <3>1. i <= k
      BY <1>6, <2>1, <2>3
    <3>2. Latest(Marks(log, r), i, k)
      <4>1. ASSUME NEW m \in Marks(log, r), m <= k
            PROVE  m <= i
        <5>1. m \in Nat
          BY <1>5, <1>6
        <5>2. m <= j
          BY <1>7, <4>1, <5>1
        <5> QED
          BY <5>2, <1>9 DEF Latest
      <4> QED
        BY <3>1, <4>1 DEF Latest
    <3>3. Heap!LiveIn(pages, r) <=> StepAt(log, i).do = "insertAt"
      BY <3>2 DEF Reached
    <3>4. r = s.rid => s.do = "updateAt"
      <4> SUFFICES ASSUME r = s.rid, s.do # "updateAt" PROVE FALSE
        OBVIOUS
      <4>1. j \in Marks(log, r) /\ j <= j
        BY <1>3, <1>7
      <4>2. j <= i /\ i \in Nat
        BY <1>6, <1>9, <2>1, <4>1 DEF Latest
      <4> QED
        BY <1>7, <2>1, <2>3, <4>2
    <3> QED
      BY <1>2, <3>3, <3>4
  <2> QED
    BY <2>2, <2>3
<1>10. ASSUME NEW r \in Heap!RecordID, NEW i \in Writes(log, r), Latest(Writes(log, r), i, j)
       PROVE  Bytes(q, r) = StepAt(log, i).value
  <2>1. i \in Visits(log) /\ i <= j /\ StepAt(log, i).rid = r /\ StepAt(log, i).do # "deleteAt"
    BY <1>5, <1>10 DEF Latest
  <2>2. CASE i = j
    BY <1>1, <1>2, <2>1, <2>2
  <2>3. CASE i # j
    <3>1. i <= k
      BY <1>6, <2>1, <2>3
    <3>2. Latest(Writes(log, r), i, k)
      <4>1. ASSUME NEW m \in Writes(log, r), m <= k
            PROVE  m <= i
        <5>1. m \in Nat
          BY <1>5, <1>6
        <5>2. m <= j
          BY <1>7, <4>1, <5>1
        <5> QED
          BY <5>2, <1>10 DEF Latest
      <4> QED
        BY <3>1, <4>1 DEF Latest
    <3>3. Bytes(pages, r) = StepAt(log, i).value
      BY <3>2 DEF Reached
    <3>4. r = s.rid => s.do = "deleteAt"
      <4> SUFFICES ASSUME r = s.rid, s.do # "deleteAt" PROVE FALSE
        OBVIOUS
      <4>1. j \in Writes(log, r) /\ j <= j
        BY <1>4, <1>7
      <4>2. j <= i /\ i \in Nat
        BY <1>6, <1>10, <2>1, <4>1 DEF Latest
      <4> QED
        BY <1>7, <2>1, <2>3, <4>2
    <3> QED
      BY <1>2, <3>3, <3>4
  <2> QED
    BY <2>2, <2>3
<1> QED
  BY <1>2, <1>8, <1>9, <1>10 DEF q, Reached

LEMMA ReachedNothing ==
  ASSUME NEW log \in Seq(LogRecord), NEW pages
  PROVE  Reached(log, pages, 0)
<1>1. \A j \in Visits(log) : ~ (j <= 0)
  BY VisitsType
<1> QED
  BY <1>1 DEF Reached, Latest, Marks, Writes

\* When every visit has been made, the pages hold the rows.
LEMMA ReplayedRows ==
  ASSUME NEW log \in Seq(LogRecord), NEW pages, NEW rows, IsRows(rows), NEW k \in Nat,
         \A j \in Visits(log) : j <= k,
         Determines(log, rows), Fits(log, pages, rows), Reached(log, pages, k)
  PROVE  Heap!RowsOf(pages) = rows
<1>1. \A j \in Visits(log) : j \in 1 .. 2 * Len(log) /\ Len(log) \in Nat
  BY VisitsType
<1>2. ASSUME NEW J, J \subseteq Visits(log), J # {}
      PROVE  \E j \in J : Latest(J, j, k) /\ Latest(J, j, 2 * Len(log))
  <2> DEFINE n == 2 * Len(log)
  <2>1. n \in Nat /\ J \subseteq 1 .. n /\ n \in 0 .. n /\ \E i \in J : i <= n
    BY <1>1, <1>2
  <2> HIDE DEF n
  <2>2. PICK j \in J : Latest(J, j, n)
    BY <2>1, LatestExists
  <2>3. Latest(J, j, k)
    BY <1>2, <2>1, <2>2 DEF Latest
  <2> QED
    BY <2>2, <2>3 DEF n
<1>3. ASSUME NEW r \in Heap!RecordID
      PROVE  /\ Heap!LiveIn(pages, r) <=> r \in DOMAIN rows
             /\ r \in DOMAIN rows => Bytes(pages, r) = rows[r]
  <2>1. Marks(log, r) \subseteq Visits(log) /\ Writes(log, r) \subseteq Visits(log)
    BY DEF Marks, Writes
  <2>2. Heap!LiveIn(pages, r) <=> r \in DOMAIN rows
    <3>1. CASE Marks(log, r) = {}
      BY <3>1 DEF Fits
    <3>2. CASE Marks(log, r) # {}
      <4>1. PICK j \in Marks(log, r) : /\ Latest(Marks(log, r), j, k)
                                       /\ Latest(Marks(log, r), j, 2 * Len(log))
        BY <1>2, <2>1, <3>2
      <4> QED
        BY <4>1 DEF Reached, Determines
    <3> QED
      BY <3>1, <3>2
  <2>3. r \in DOMAIN rows => Bytes(pages, r) = rows[r]
    <3>1. CASE Writes(log, r) = {}
      BY <3>1 DEF Fits
    <3>2. CASE Writes(log, r) # {}
      <4>1. PICK j \in Writes(log, r) : /\ Latest(Writes(log, r), j, k)
                                        /\ Latest(Writes(log, r), j, 2 * Len(log))
        BY <1>2, <2>1, <3>2
      <4> QED
        BY <4>1 DEF Reached, Determines
    <3> QED
      BY <3>1, <3>2
  <2> QED
    BY <2>2, <2>3
<1>4. {x \in Heap!RecordID : Heap!LiveIn(pages, x)} = DOMAIN rows
  BY <1>3 DEF IsRows
<1>5. \A r \in DOMAIN rows : pages[r.pageId].record[r.slotNum] = rows[r]
  BY <1>3 DEF IsRows, Bytes
<1> DEFINE live == {x \in Heap!RecordID : Heap!LiveIn(pages, x)}
<1>6. Heap!RowsOf(pages) = [r \in live |-> pages[r.pageId].record[r.slotNum]]
  BY DEF Heap!RowsOf
<1> HIDE DEF live
<1>7. [r \in live |-> pages[r.pageId].record[r.slotNum]] = [r \in DOMAIN rows |-> rows[r]]
  BY <1>4, <1>5 DEF live
<1> QED
  BY <1>6, <1>7 DEF IsRows

\* The loop of ReplayAll, as the pages after each visit.
Loop(pages, log, f) ==
  f = [j \in 0 .. 2 * Len(log) |->
         IF j = 0 THEN pages
         ELSE IF Replays(log, j)
         THEN [f[j - 1] EXCEPT ![StepAt(log, j).rid.pageId] = ReplayOn(@, StepAt(log, j))]
         ELSE f[j - 1]]

LEMMA LoopEnds ==
  ASSUME NEW log \in Seq(LogRecord), NEW pages
  PROVE  \E f : Loop(pages, log, f) /\ ReplayAll(pages, log) = f[2 * Len(log)]
<1> DEFINE N == 2 * Len(log)
           Turn(before, j) == IF Replays(log, j)
             THEN [before EXCEPT ![StepAt(log, j).rid.pageId] = ReplayOn(@, StepAt(log, j))]
             ELSE before
           Upto(g, m) == \A j \in 0 .. m : g[j] = IF j = 0 THEN pages ELSE Turn(g[j - 1], j)
           S == {m \in 0 .. N : \E g : Upto(g, m)}
<1>1. N \in Nat
  OBVIOUS
<1> HIDE DEF N, Turn
<1>2. 0 \in S
  <2> DEFINE g == [j \in 0 .. 0 |-> pages]
  <2>1. Upto(g, 0)
    OBVIOUS
  <2> HIDE DEF g
  <2> QED
    BY <1>1, <2>1
<1>3. ASSUME NEW i \in 0 + 1 .. N, i - 1 \in S
      PROVE  i \in S
  <2>1. PICK g : Upto(g, i - 1)
    BY <1>3
  <2> DEFINE h == [j \in 0 .. i |-> IF j = i THEN Turn(g[i - 1], i) ELSE g[j]]
  <2>2. i \in Nat /\ i >= 1
    BY <1>1
  <2>3. ASSUME NEW j \in 0 .. i
        PROVE  h[j] = IF j = 0 THEN pages ELSE Turn(h[j - 1], j)
    <3>1. CASE j = i
      <4>1. h[j - 1] = g[j - 1]
        BY <2>2, <3>1
      <4> QED
        BY <2>2, <3>1, <4>1
    <3>2. CASE j # i
      <4>1. j \in 0 .. i - 1 /\ h[j] = g[j] /\ (j # 0 => h[j - 1] = g[j - 1])
        BY <2>2, <3>2
      <4>2. g[j] = IF j = 0 THEN pages ELSE Turn(g[j - 1], j)
        BY <2>1, <4>1
      <4> QED
        BY <4>1, <4>2
    <3> QED
      BY <3>1, <3>2
  <2> HIDE DEF h
  <2>4. Upto(h, i)
    BY <2>3
  <2> QED
    BY <1>1, <2>4
<1>4. N \in S
  <2> HIDE DEF S
  <2> QED
    BY <1>1, <1>2, <1>3, Climb
<1>5. PICK g : Upto(g, N)
  BY <1>4
<1> DEFINE f == [j \in 0 .. N |-> g[j]]
<1>6. \A j \in 0 .. N : f[j] = IF j = 0 THEN pages ELSE Turn(f[j - 1], j)
  BY <1>1, <1>5
<1>7. f = [j \in 0 .. N |-> IF j = 0 THEN pages ELSE Turn(f[j - 1], j)]
  <2>1. f = [j \in 0 .. N |-> f[j]]
    OBVIOUS
  <2> HIDE DEF f
  <2> QED
    BY <1>6, <2>1
<1> HIDE DEF f
<1>8. Loop(pages, log, f)
  BY <1>7 DEF Loop, N, Turn
<1> DEFINE after == CHOOSE x : Loop(pages, log, x)
<1>9. Loop(pages, log, after)
  BY <1>8
<1>10. ReplayAll(pages, log) = after[2 * Len(log)]
  BY DEF ReplayAll, Loop
<1> QED
  BY <1>9, <1>10

LEMMA IdleVisit ==
  ASSUME NEW log \in Seq(LogRecord), NEW pages, NEW k \in Nat, NEW j \in Nat, k <= j,
         \A i \in Visits(log) : i <= j => i <= k,
         Reached(log, pages, k)
  PROVE  Reached(log, pages, j)
<1>1. ASSUME NEW J, J \subseteq Visits(log), NEW i \in J, Latest(J, i, j)
      PROVE  Latest(J, i, k)
  <2>1. \A m \in J : m \in Nat /\ (m <= k => m <= j)
    BY <1>1, VisitsType
  <2> QED
    BY <1>1, <2>1 DEF Latest
<1>2. \A r : Marks(log, r) \subseteq Visits(log) /\ Writes(log, r) \subseteq Visits(log)
  BY DEF Marks, Writes
<1> QED
  BY <1>1, <1>2 DEF Reached

\* What recover() makes of pages that fit the log.
LEMMA ReplayAllRows ==
  ASSUME NEW log \in Seq(LogRecord), Replayable(log), NEW pages, Tame(pages),
         NEW rows, IsRows(rows), Determines(log, rows), Fits(log, pages, rows)
  PROVE  Heap!RowsOf(ReplayAll(pages, log)) = rows
<1> DEFINE N == 2 * Len(log)
<1>1. N \in Nat
  OBVIOUS
<1>2. PICK f : Loop(pages, log, f) /\ ReplayAll(pages, log) = f[N]
  BY LoopEnds
<1> DEFINE S == {m \in 0 .. N : Tame(f[m]) /\ Fits(log, f[m], rows) /\ Reached(log, f[m], m)}
<1> HIDE DEF N
<1>3. 0 \in S
  <2>1. f[0] = pages
    BY <1>1, <1>2 DEF Loop, N
  <2> QED
    BY <1>1, <2>1, ReachedNothing
<1>4. ASSUME NEW j \in 0 + 1 .. N, j - 1 \in S
      PROVE  j \in S
  <2>1. j \in Nat /\ j - 1 \in Nat /\ j - 1 < j /\ j \in 0 .. N /\ j # 0
    BY <1>1
  <2>2. Tame(f[j - 1]) /\ Fits(log, f[j - 1], rows) /\ Reached(log, f[j - 1], j - 1)
    BY <1>4
  <2>3. f[j] = IF Replays(log, j)
               THEN [f[j - 1] EXCEPT ![StepAt(log, j).rid.pageId] = ReplayOn(@, StepAt(log, j))]
               ELSE f[j - 1]
    BY <1>2, <2>1 DEF Loop, N
  <2>4. \A i \in Visits(log) : i \in Nat
    BY VisitsType
  <2>5. CASE Replays(log, j)
    <3>1. j \in Visits(log) /\ CanReplay(StepAt(log, j))
      BY <1>1, <2>1, <2>5 DEF Visits, Replayable, N
    <3>2. \A i \in Visits(log) : i > j - 1 => j <= i
      BY <2>1, <2>4
    <3> QED
      BY <2>1, <2>2, <2>3, <2>5, <3>1, <3>2, OneReplay
  <2>6. CASE ~Replays(log, j)
    <3>1. j \notin Visits(log)
      BY <2>6 DEF Visits
    <3>2. \A i \in Visits(log) : i <= j => i <= j - 1
      BY <2>1, <2>4, <3>1
    <3>3. Reached(log, f[j - 1], j)
      BY <2>1, <2>2, <3>2, IdleVisit
    <3> QED
      BY <2>1, <2>2, <2>3, <2>6, <3>3
  <2> QED
    BY <2>5, <2>6
<1>5. N \in S
  <2> HIDE DEF S
  <2> QED
    BY <1>1, <1>3, <1>4, Climb
<1>6. \A j \in Visits(log) : j <= N
  BY VisitsType DEF N
<1> QED
  BY <1>1, <1>2, <1>5, <1>6, ReplayedRows

-----------------------------------------------------------------------------
(* The history of a slot.  h[r][k] is the row of slot r after the first k   *)
(* records of a log, as a set of at most one record.                        *)

Row(pages, r) == IF Heap!LiveIn(pages, r) THEN {Bytes(pages, r)} ELSE {}

RowIn(rows, r) == IF r \in DOMAIN rows THEN {rows[r]} ELSE {}

Pre(rec) == IF rec.op = "INSERT" THEN {} ELSE {rec.old}

\* An UPDATE the heap refused changed nothing.
Post(rec) ==
  IF rec.op = "DELETE" THEN {} ELSE IF rec.new = Misfit THEN {rec.old} ELSE {rec.new}

\* The data records that the state of the heap goes back to: those of transaction c
\* and of all that have not been rolled back.
Counts(log, c, i) == IsData(log[i]) /\ (log[i].tx = c \/ log[i].tx \notin Ended(log, "ABORT"))

On(log, c, r, i) == Counts(log, c, i) /\ log[i].rid = r

Chain(log, c, h) ==
  \A r \in Heap!RecordID, k \in 1 .. Len(log) :
    IF On(log, c, r, k)
    THEN h[r][k - 1] = Pre(log[k]) /\ h[r][k] = Post(log[k])
    ELSE h[r][k] = h[r][k - 1]

LEMMA ChainSame ==
  ASSUME NEW log \in Seq(LogRecord), NEW c, NEW h, Chain(log, c, h), NEW r \in Heap!RecordID,
         NEW k \in Nat, NEW l \in Nat, k <= l, l <= Len(log),
         \A i \in k + 1 .. l : ~On(log, c, r, i)
  PROVE  h[r][l] = h[r][k]
<1> DEFINE S == {x \in k .. l : h[r][x] = h[r][k]}
<1>1. ASSUME NEW i \in k + 1 .. l, i - 1 \in S PROVE i \in S
  <2>1. i \in 1 .. Len(log) /\ i \in k .. l
    OBVIOUS
  <2>2. h[r][i] = h[r][i - 1]
    BY <2>1 DEF Chain
  <2> QED
    BY <1>1, <2>1, <2>2
<1>2. k \in S
  OBVIOUS
<1>3. l \in S
  <2> HIDE DEF S
  <2> QED
    BY <1>1, <1>2, Climb
<1> QED
  BY <1>3

\* Updates leave a row a row.
LEMMA ChainAlive ==
  ASSUME NEW log \in Seq(LogRecord), NEW c, NEW h, Chain(log, c, h), NEW r \in Heap!RecordID,
         NEW k \in Nat, NEW l \in Nat, k <= l, l <= Len(log),
         \A i \in k + 1 .. l : On(log, c, r, i) => log[i].op = "UPDATE"
  PROVE  /\ h[r][l] = {} => h[r][k] = {}
         /\ h[r][k] = {} => h[r][l] = {}
<1> DEFINE S == {x \in k .. l : h[r][x] = {} <=> h[r][k] = {}}
<1>1. ASSUME NEW i \in k + 1 .. l, i - 1 \in S PROVE i \in S
  <2>1. i \in 1 .. Len(log) /\ i \in k .. l
    OBVIOUS
  <2>2. CASE ~On(log, c, r, i)
    <3>1. h[r][i] = h[r][i - 1]
      BY <2>1, <2>2 DEF Chain
    <3> QED
      BY <1>1, <2>1, <3>1
  <2>3. CASE On(log, c, r, i)
    <3>1. log[i].op = "UPDATE" /\ h[r][i - 1] = Pre(log[i]) /\ h[r][i] = Post(log[i])
      BY <2>1, <2>3 DEF Chain
    <3>2. h[r][i - 1] # {} /\ h[r][i] # {}
      BY <3>1 DEF Pre, Post
    <3> QED
      BY <1>1, <2>1, <3>2
  <2> QED
    BY <2>2, <2>3
<1>2. k \in S
  OBVIOUS
<1>3. l \in S
  <2> HIDE DEF S
  <2> QED
    BY <1>1, <1>2, Climb
<1> QED
  BY <1>3

\* A row that is there after deletes only was there before, and not deleted.
LEMMA ChainDeletes ==
  ASSUME NEW log \in Seq(LogRecord), NEW c, NEW h, Chain(log, c, h), NEW r \in Heap!RecordID,
         NEW k \in Nat, NEW l \in Nat, k <= l, l <= Len(log),
         \A i \in k + 1 .. l : On(log, c, r, i) => log[i].op = "DELETE"
  PROVE  h[r][l] # {} => h[r][l] = h[r][k]
<1> DEFINE S == {x \in k .. l : h[r][x] # {} => h[r][x] = h[r][k]}
<1>1. ASSUME NEW i \in k + 1 .. l, i - 1 \in S PROVE i \in S
  <2>1. i \in 1 .. Len(log) /\ i \in k .. l
    OBVIOUS
  <2>2. CASE ~On(log, c, r, i)
    <3>1. h[r][i] = h[r][i - 1]
      BY <2>1, <2>2 DEF Chain
    <3> QED
      BY <1>1, <2>1, <3>1
  <2>3. CASE On(log, c, r, i)
    <3>1. log[i].op = "DELETE" /\ h[r][i] = Post(log[i])
      BY <2>1, <2>3 DEF Chain
    <3>2. h[r][i] = {}
      BY <3>1 DEF Post
    <3> QED
      BY <2>1, <3>2
  <2> QED
    BY <2>2, <2>3
<1>2. k \in S
  OBVIOUS
<1>3. l \in S
  <2> HIDE DEF S
  <2> QED
    BY <1>1, <1>2, Climb
<1> QED
  BY <1>3

\* A slot that holds a row is not inserted into.
LEMMA ChainInserts ==
  ASSUME NEW log \in Seq(LogRecord), NEW c, NEW h, Chain(log, c, h), NEW r \in Heap!RecordID,
         NEW k \in Nat, NEW l \in Nat, k <= l, l <= Len(log),
         \A i \in k + 1 .. l : On(log, c, r, i) => log[i].op = "INSERT",
         h[r][k] # {}
  PROVE  h[r][l] = h[r][k]
<1> DEFINE S == {x \in k .. l : h[r][x] = h[r][k]}
<1>1. ASSUME NEW i \in k + 1 .. l, i - 1 \in S PROVE i \in S
  <2>1. i \in 1 .. Len(log) /\ i \in k .. l
    OBVIOUS
  <2>2. CASE ~On(log, c, r, i)
    <3>1. h[r][i] = h[r][i - 1]
      BY <2>1, <2>2 DEF Chain
    <3> QED
      BY <1>1, <2>1, <3>1
  <2>3. CASE On(log, c, r, i)
    <3>1. log[i].op = "INSERT" /\ h[r][i - 1] = Pre(log[i])
      BY <2>1, <2>3 DEF Chain
    <3>2. h[r][i - 1] = {}
      BY <3>1 DEF Pre
    <3> QED
      BY <1>1, <3>2
  <2> QED
    BY <2>2, <2>3
<1>2. k \in S
  OBVIOUS
<1>3. l \in S
  <2> HIDE DEF S
  <2> QED
    BY <1>1, <1>2, Climb
<1> QED
  BY <1>3

-----------------------------------------------------------------------------
(* What recovery finds of a log.                                            *)

\* L is what there is of the log `all`: the records up to e are redone and those
\* behind e, up to u, undone, as far as they count; of the last of them there may
\* be only the part that undo needs.
Finds(L, all, c, e, u) ==
  /\ ReadsBack(L)
  /\ e \in 0 .. u /\ u \in 0 .. Len(L) /\ u <= Len(all)
  /\ \A i \in 1 .. e : L[i] = all[i]
  /\ \A i \in 1 .. u : Counts(all, c, i) =>
       /\ L[i].op = all[i].op /\ L[i].rid = all[i].rid /\ L[i].old = all[i].old
  /\ \A j \in 1 .. Len(L) : Replays(L, j) <=> j <= e /\ Counts(all, c, j)
  /\ \A i \in 1 .. Len(L) : Replays(L, 2 * Len(L) + 1 - i) <=> e < i /\ i <= u /\ Counts(all, c, i)

LEMMA VisitedForth ==
  ASSUME NEW log \in Seq(LogRecord), ReadsBack(log), NEW i \in 1 .. Len(log)
  PROVE  Visited(log, i) = log[i]
<1>1. i <= Len(log) /\ i \in DOMAIN log
  OBVIOUS
<1>2. AsRead(log[i]) = log[i]
  BY <1>1 DEF ReadsBack
<1> QED
  BY <1>1, <1>2 DEF Visited

LEMMA VisitedBack ==
  ASSUME NEW log \in Seq(LogRecord), ReadsBack(log), NEW i \in 1 .. Len(log),
         NEW j \in Int, ~(j <= Len(log)), 2 * Len(log) + 1 - j = i
  PROVE  Visited(log, j) = log[i]
<1>1. i \in DOMAIN log
  OBVIOUS
<1>2. AsRead(log[i]) = log[i]
  BY <1>1 DEF ReadsBack
<1> QED
  BY <1>2 DEF Visited

\* What is replayed in either direction, of a log that is read as it was written.
LEMMA ReplaysForth ==
  ASSUME NEW log \in Seq(LogRecord), ReadsBack(log), NEW i \in 1 .. Len(log)
  PROVE  Replays(log, i) <=> IsData(log[i]) /\ log[i].tx \in Ended(log, "COMMIT")
<1>1. i <= Len(log)
  OBVIOUS
<1> QED
  BY <1>1, VisitedForth DEF Replays

LEMMA ReplaysBack ==
  ASSUME NEW log \in Seq(LogRecord), ReadsBack(log), NEW i \in 1 .. Len(log)
  PROVE  Replays(log, 2 * Len(log) + 1 - i) <=>
           /\ IsData(log[i])
           /\ log[i].tx \notin Ended(log, "COMMIT") \cup Ended(log, "ABORT")
<1> DEFINE j == 2 * Len(log) + 1 - i
<1>1. j \in Int /\ ~(j <= Len(log)) /\ 2 * Len(log) + 1 - j = i
  OBVIOUS
<1> HIDE DEF j
<1>2. Visited(log, j) = log[i]
  BY <1>1, VisitedBack
<1>3. Replays(log, j) <=> IsData(log[i]) /\ log[i].tx \notin Ended(log, "COMMIT") \cup Ended(log, "ABORT")
  BY <1>1, <1>2 DEF Replays
<1> QED
  BY <1>3 DEF j

LEMMA Redone ==
  ASSUME NEW L \in Seq(LogRecord), NEW all, NEW c, NEW e, NEW u, Finds(L, all, c, e, u),
         NEW r, NEW i \in 1 .. e, On(all, c, r, i)
  PROVE  i \in Visits(L) /\ StepAt(L, i) = Redo(all[i]) /\ StepAt(L, i).rid = r
<1>1. i \in 1 .. Len(L) /\ i \in 1 .. 2 * Len(L) /\ L[i] = all[i] /\ Len(L) \in Nat
  BY DEF Finds
<1>2. i \in Visits(L)
  BY <1>1 DEF Finds, Visits, On
<1>3. StepAt(L, i) = Redo(all[i])
  BY <1>1, VisitedForth DEF StepAt, Finds
<1> QED
  BY <1>2, <1>3 DEF Redo, On

LEMMA Undone ==
  ASSUME NEW L \in Seq(LogRecord), NEW all, NEW c, NEW e, NEW u, Finds(L, all, c, e, u),
         NEW r, NEW i \in e + 1 .. u, On(all, c, r, i)
  PROVE  LET j == 2 * Len(L) + 1 - i IN
         /\ j \in Visits(L) /\ j > Len(L)
         /\ StepAt(L, j).do = Undo(all[i]).do /\ StepAt(L, j).value = all[i].old
         /\ StepAt(L, j).rid = r
<1> DEFINE j == 2 * Len(L) + 1 - i
<1>1. e \in Nat /\ u \in Nat /\ Len(L) \in Nat /\ u <= Len(L)
  BY DEF Finds
<1>2. i \in 1 .. Len(L) /\ i \in 1 .. u /\ j \in 1 .. 2 * Len(L) /\ ~(j <= Len(L)) /\ j \in Int
      /\ 2 * Len(L) + 1 - j = i
  BY <1>1
<1>3. j \in Visits(L)
  BY <1>1, <1>2 DEF Finds, Visits, On
<1>4. StepAt(L, j) = Undo(L[i])
  <2>1. Visited(L, j) = L[i]
    BY <1>2, VisitedBack DEF Finds
  <2> QED
    BY <1>2, <2>1 DEF StepAt
<1>5. L[i].op = all[i].op /\ L[i].rid = all[i].rid /\ L[i].old = all[i].old
  BY <1>2 DEF Finds, On
<1>6. j > Len(L)
  BY <1>1, <1>2
<1> HIDE DEF j
<1>7. Undo(L[i]).do = Undo(all[i]).do /\ Undo(L[i]).value = all[i].old /\ Undo(L[i]).rid = r
  BY <1>5 DEF Undo, On
<1> QED
  BY <1>3, <1>4, <1>6, <1>7 DEF j

LEMMA VisitsOf ==
  ASSUME NEW L \in Seq(LogRecord), NEW all, NEW c, NEW e, NEW u, Finds(L, all, c, e, u),
         NEW r, NEW j \in Visits(L), StepAt(L, j).rid = r
  PROVE  \/ j \in 1 .. e /\ On(all, c, r, j)
         \/ \E i \in e + 1 .. u : j = 2 * Len(L) + 1 - i /\ On(all, c, r, i)
<1>1. e \in Nat /\ u \in Nat /\ e <= u /\ Len(L) \in Nat /\ u <= Len(L)
  BY DEF Finds
<1>2. j \in 1 .. 2 * Len(L) /\ Replays(L, j) /\ StepAt(L, j).rid = Visited(L, j).rid
  BY VisitsType DEF Visits
<1>3. CASE j <= Len(L)
  <2>1. j \in 1 .. Len(L) /\ Visited(L, j) = L[j]
    BY <1>1, <1>2, <1>3, VisitedForth DEF Finds
  <2>2. j \in 1 .. e /\ Counts(all, c, j)
    BY <1>1, <1>2, <2>1 DEF Finds
  <2>3. L[j] = all[j]
    BY <2>2 DEF Finds
  <2> QED
    BY <1>2, <2>1, <2>2, <2>3 DEF On
<1>4. CASE ~(j <= Len(L))
  <2> DEFINE i == 2 * Len(L) + 1 - j
  <2>1. i \in 1 .. Len(L) /\ 2 * Len(L) + 1 - i = j /\ Visited(L, j) = L[i]
    BY <1>1, <1>2, <1>4, VisitedBack DEF Finds
  <2> HIDE DEF i
  <2>2. e < i /\ i <= u /\ Counts(all, c, i)
    BY <1>2, <2>1 DEF Finds
  <2>3. i \in e + 1 .. u /\ i \in 1 .. u
    BY <1>1, <2>1, <2>2
  <2>4. L[i].rid = all[i].rid
    BY <2>2, <2>3 DEF Finds
  <2> QED
    BY <1>2, <2>1, <2>2, <2>3, <2>4 DEF On
<1> QED
  BY <1>3, <1>4

\* The last visits give every slot the row it had after record e.
LEMMA FoundMark ==
  ASSUME NEW L \in Seq(LogRecord), NEW all \in Seq(LogRecord), NEW c, NEW e, NEW u,
         Finds(L, all, c, e, u), NEW h, Chain(all, c, h), NEW r \in Heap!RecordID,
         NEW j \in Marks(L, r), Latest(Marks(L, r), j, 2 * Len(L))
  PROVE  StepAt(L, j).do = "insertAt" <=> h[r][e] # {}
<1>1. /\ e \in Nat /\ u \in Nat /\ e <= u /\ Len(L) \in Nat /\ u <= Len(L)
      /\ Len(all) \in Nat /\ u <= Len(all)
  BY DEF Finds
<1>2. j \in Visits(L) /\ StepAt(L, j).rid = r /\ StepAt(L, j).do # "updateAt"
  BY DEF Marks
<1>3. \A x \in Marks(L, r) : x <= j
  BY <1>1, VisitsType DEF Latest, Marks
<1>4. CASE j \in 1 .. e /\ On(all, c, r, j)
  <2>1. StepAt(L, j) = Redo(all[j])
    BY <1>4, Redone
  <2>2. j \in 1 .. Len(all) /\ j \in Nat /\ j <= e
    BY <1>1, <1>4
  <2>3. IsData(all[j]) /\ h[r][j] = Post(all[j])
    BY <1>4, <2>2 DEF Chain, On, Counts
  <2>4. all[j].op # "UPDATE"
    BY <1>2, <2>1 DEF Redo
  <2>5. StepAt(L, j).do = "insertAt" <=> h[r][j] # {}
    BY <2>1, <2>3, <2>4 DEF Redo, Post, IsData
  <2>6. ASSUME NEW i \in j + 1 .. e, On(all, c, r, i)
        PROVE  all[i].op = "UPDATE"
    <3> SUFFICES ASSUME all[i].op # "UPDATE" PROVE FALSE
      OBVIOUS
    <3>1. i \in 1 .. e
      BY <2>2
    <3>2. i \in Visits(L) /\ StepAt(L, i) = Redo(all[i]) /\ StepAt(L, i).rid = r
      BY <2>6, <3>1, Redone
    <3>3. StepAt(L, i).do # "updateAt"
      BY <2>6, <3>2 DEF Redo, On, Counts, IsData
    <3>4. i \in Marks(L, r)
      BY <3>2, <3>3 DEF Marks
    <3> QED
      BY <1>3, <2>2, <3>4
  <2>7. h[r][e] = {} <=> h[r][j] = {}
    BY <1>1, <2>2, <2>6, ChainAlive
  <2> QED
    BY <2>5, <2>7
<1>5. ASSUME NEW i \in e + 1 .. u, j = 2 * Len(L) + 1 - i, On(all, c, r, i)
      PROVE  StepAt(L, j).do = "insertAt" <=> h[r][e] # {}
  <2>1. StepAt(L, j).do = Undo(all[i]).do
    BY <1>5, Undone
  <2>2. i \in 1 .. Len(all) /\ i \in Nat /\ i - 1 \in Nat /\ e <= i - 1 /\ i - 1 <= Len(all)
    BY <1>1
  <2>3. IsData(all[i]) /\ h[r][i - 1] = Pre(all[i])
    BY <1>5, <2>2 DEF Chain, On, Counts
  <2>4. all[i].op # "UPDATE"
    BY <1>2, <2>1 DEF Undo
  <2>5. StepAt(L, j).do = "insertAt" <=> h[r][i - 1] # {}
    BY <2>1, <2>3, <2>4 DEF Undo, Pre, IsData
  <2>6. ASSUME NEW m \in e + 1 .. i - 1, On(all, c, r, m)
        PROVE  all[m].op = "UPDATE"
    <3> SUFFICES ASSUME all[m].op # "UPDATE" PROVE FALSE
      OBVIOUS
    <3> DEFINE x == 2 * Len(L) + 1 - m
    <3>1. m \in e + 1 .. u /\ x > j
      BY <1>1, <1>5, <2>2
    <3>2. x \in Visits(L) /\ StepAt(L, x).do = Undo(all[m]).do /\ StepAt(L, x).rid = r
      BY <2>6, <3>1, Undone
    <3> HIDE DEF x
    <3>3. StepAt(L, x).do # "updateAt"
      BY <2>6, <3>2 DEF Undo, On, Counts, IsData
    <3>4. x \in Marks(L, r)
      BY <3>2, <3>3 DEF Marks
    <3>5. x \in Nat /\ j \in Nat
      BY <1>2, <3>2, VisitsType
    <3> QED
      BY <1>3, <3>1, <3>4, <3>5
  <2>7. h[r][i - 1] = {} <=> h[r][e] = {}
    <3> DEFINE l == i - 1
    <3>1. \A m \in e + 1 .. l : On(all, c, r, m) => all[m].op = "UPDATE"
      BY <2>6
    <3>2. e \in Nat /\ l \in Nat /\ e <= l /\ l <= Len(all)
      BY <1>1, <2>2
    <3> HIDE DEF l
    <3>3. h[r][l] = {} <=> h[r][e] = {}
      BY <3>1, <3>2, ChainAlive
    <3> QED
      BY <3>3 DEF l
  <2> QED
    BY <2>5, <2>7
<1> QED
  BY <1>2, <1>4, <1>5, VisitsOf

LEMMA FoundWrite ==
  ASSUME NEW L \in Seq(LogRecord), Replayable(L), NEW all \in Seq(LogRecord),
         NEW c, NEW e, NEW u, Finds(L, all, c, e, u), NEW h, Chain(all, c, h),
         NEW r \in Heap!RecordID, h[r][e] # {},
         NEW j \in Writes(L, r), Latest(Writes(L, r), j, 2 * Len(L))
  PROVE  h[r][e] = {StepAt(L, j).value}
<1>1. /\ e \in Nat /\ u \in Nat /\ e <= u /\ Len(L) \in Nat /\ u <= Len(L)
      /\ Len(all) \in Nat /\ u <= Len(all)
  BY DEF Finds
<1>2. j \in Visits(L) /\ StepAt(L, j).rid = r /\ StepAt(L, j).do # "deleteAt"
  BY DEF Writes
<1>3. \A x \in Writes(L, r) : x <= j
  BY <1>1, VisitsType DEF Latest, Writes
<1>4. CASE j \in 1 .. e /\ On(all, c, r, j)
  <2>1. StepAt(L, j) = Redo(all[j])
    BY <1>4, Redone
  <2>2. j \in 1 .. Len(all) /\ j \in Nat /\ j <= e
    BY <1>1, <1>4
  <2>3. IsData(all[j]) /\ h[r][j] = Post(all[j])
    BY <1>4, <2>2 DEF Chain, On, Counts
  <2>4. all[j].op # "DELETE"
    BY <1>2, <2>1 DEF Redo
  <2>5. StepAt(L, j).value # Misfit
    BY <1>2 DEF Replayable, CanReplay
  <2>6. h[r][j] = {StepAt(L, j).value}
    BY <2>1, <2>3, <2>4, <2>5 DEF Redo, Post, IsData
  <2>7. ASSUME NEW i \in j + 1 .. e, On(all, c, r, i)
        PROVE  all[i].op = "DELETE"
    <3> SUFFICES ASSUME all[i].op # "DELETE" PROVE FALSE
      OBVIOUS
    <3>1. i \in 1 .. e
      BY <2>2
    <3>2. i \in Visits(L) /\ StepAt(L, i) = Redo(all[i]) /\ StepAt(L, i).rid = r
      BY <2>7, <3>1, Redone
    <3>3. StepAt(L, i).do # "deleteAt"
      BY <2>7, <3>2 DEF Redo, On, Counts, IsData
    <3>4. i \in Writes(L, r)
      BY <3>2, <3>3 DEF Writes
    <3> QED
      BY <1>3, <2>2, <3>4
  <2>8. h[r][e] = h[r][j]
    BY <1>1, <2>2, <2>7, ChainDeletes
  <2> QED
    BY <2>6, <2>8
<1>5. ASSUME NEW i \in e + 1 .. u, j = 2 * Len(L) + 1 - i, On(all, c, r, i)
      PROVE  h[r][e] = {StepAt(L, j).value}
  <2>1. StepAt(L, j).do = Undo(all[i]).do /\ StepAt(L, j).value = all[i].old
    BY <1>5, Undone
  <2>2. i \in 1 .. Len(all) /\ i \in Nat /\ i - 1 \in Nat /\ e <= i - 1 /\ i - 1 <= Len(all)
    BY <1>1
  <2>3. IsData(all[i]) /\ h[r][i - 1] = Pre(all[i])
    BY <1>5, <2>2 DEF Chain, On, Counts
  <2>4. all[i].op # "INSERT"
    BY <1>2, <2>1 DEF Undo
  <2>5. h[r][i - 1] = {StepAt(L, j).value}
    BY <2>1, <2>3, <2>4 DEF Pre
  <2>6. ASSUME NEW m \in e + 1 .. i - 1, On(all, c, r, m)
        PROVE  all[m].op = "INSERT"
    <3> SUFFICES ASSUME all[m].op # "INSERT" PROVE FALSE
      OBVIOUS
    <3> DEFINE x == 2 * Len(L) + 1 - m
    <3>1. m \in e + 1 .. u /\ x > j
      BY <1>1, <1>5, <2>2
    <3>2. x \in Visits(L) /\ StepAt(L, x).do = Undo(all[m]).do /\ StepAt(L, x).rid = r
      BY <2>6, <3>1, Undone
    <3> HIDE DEF x
    <3>3. StepAt(L, x).do # "deleteAt"
      BY <2>6, <3>2 DEF Undo, On, Counts, IsData
    <3>4. x \in Writes(L, r)
      BY <3>2, <3>3 DEF Writes
    <3>5. x \in Nat /\ j \in Nat
      BY <1>2, <3>2, VisitsType
    <3> QED
      BY <1>3, <3>1, <3>4, <3>5
  <2>7. h[r][i - 1] = h[r][e]
    <3> DEFINE l == i - 1
    <3>1. \A m \in e + 1 .. l : On(all, c, r, m) => all[m].op = "INSERT"
      BY <2>6
    <3>2. l \in Nat /\ e <= l /\ l <= Len(all)
      BY <2>2
    <3> HIDE DEF l
    <3>3. h[r][l] = h[r][e]
      BY <1>1, <3>1, <3>2, ChainInserts
    <3> QED
      BY <3>3 DEF l
  <2> QED
    BY <2>5, <2>7
<1> QED
  BY <1>2, <1>4, <1>5, VisitsOf

\* What no visit sets has been the same at every moment up to u.
LEMMA FoundUnmarked ==
  ASSUME NEW L \in Seq(LogRecord), NEW all \in Seq(LogRecord), NEW c, NEW e, NEW u,
         Finds(L, all, c, e, u), NEW h, Chain(all, c, h), NEW r \in Heap!RecordID,
         Marks(L, r) = {}, NEW t \in 0 .. u
  PROVE  h[r][t] = {} <=> h[r][e] = {}
<1>1. /\ e \in Nat /\ u \in Nat /\ e <= u /\ Len(L) \in Nat /\ u <= Len(L)
      /\ Len(all) \in Nat /\ u <= Len(all) /\ t \in Nat /\ t <= u
  BY DEF Finds
<1>2. ASSUME NEW i \in 1 .. u, On(all, c, r, i)
      PROVE  all[i].op = "UPDATE"
  <2> SUFFICES ASSUME all[i].op # "UPDATE" PROVE FALSE
    OBVIOUS
  <2>1. CASE i <= e
    <3>1. i \in Visits(L) /\ StepAt(L, i) = Redo(all[i]) /\ StepAt(L, i).rid = r
      BY <1>1, <1>2, <2>1, Redone
    <3>2. StepAt(L, i).do # "updateAt"
      BY <1>2, <3>1 DEF Redo, On, Counts, IsData
    <3> QED
      BY <3>1, <3>2 DEF Marks
  <2>2. CASE ~(i <= e)
    <3> DEFINE x == 2 * Len(L) + 1 - i
    <3>1. i \in e + 1 .. u
      BY <1>1, <2>2
    <3>2. x \in Visits(L) /\ StepAt(L, x).do = Undo(all[i]).do /\ StepAt(L, x).rid = r
      BY <1>2, <3>1, Undone
    <3> HIDE DEF x
    <3>3. StepAt(L, x).do # "updateAt"
      BY <1>2, <3>2 DEF Undo, On, Counts, IsData
    <3> QED
      BY <3>2, <3>3 DEF Marks
  <2> QED
    BY <2>1, <2>2
<1>3. CASE t <= e
  <2>1. \A i \in t + 1 .. e : On(all, c, r, i) => all[i].op = "UPDATE"
    <3>1. \A i \in t + 1 .. e : i \in 1 .. u
      BY <1>1
    <3> QED
      BY <1>2, <3>1
  <2>2. e \in Nat /\ t \in Nat /\ t <= e /\ e <= Len(all)
    BY <1>1, <1>3
  <2>3. h[r][e] = {} => h[r][t] = {}
    BY <2>1, <2>2, ChainAlive
  <2>4. h[r][t] = {} => h[r][e] = {}
    BY <2>1, <2>2, ChainAlive
  <2> QED
    BY <2>3, <2>4
<1>4. CASE ~(t <= e)
  <2>1. \A i \in e + 1 .. t : On(all, c, r, i) => all[i].op = "UPDATE"
    <3>1. \A i \in e + 1 .. t : i \in 1 .. u
      BY <1>1
    <3> QED
      BY <1>2, <3>1
  <2>2. e \in Nat /\ t \in Nat /\ e <= t /\ t <= Len(all)
    BY <1>1, <1>4
  <2>3. h[r][t] = {} => h[r][e] = {}
    BY <2>1, <2>2, ChainAlive
  <2>4. h[r][e] = {} => h[r][t] = {}
    BY <2>1, <2>2, ChainAlive
  <2> QED
    BY <2>3, <2>4
<1> QED
  BY <1>3, <1>4

LEMMA FoundUnwritten ==
  ASSUME NEW L \in Seq(LogRecord), NEW all \in Seq(LogRecord), NEW c, NEW e, NEW u,
         Finds(L, all, c, e, u), NEW h, Chain(all, c, h), NEW r \in Heap!RecordID,
         Writes(L, r) = {}, NEW t \in 0 .. u, h[r][e] # {}
  PROVE  h[r][t] = h[r][e]
<1>1. /\ e \in Nat /\ u \in Nat /\ e <= u /\ Len(L) \in Nat /\ u <= Len(L)
      /\ Len(all) \in Nat /\ u <= Len(all) /\ t \in Nat /\ t <= u
  BY DEF Finds
<1>2. CASE t <= e
  <2>1. ASSUME NEW i \in t + 1 .. e, On(all, c, r, i)
        PROVE  all[i].op = "DELETE"
    <3> SUFFICES ASSUME all[i].op # "DELETE" PROVE FALSE
      OBVIOUS
    <3>1. i \in Visits(L) /\ StepAt(L, i) = Redo(all[i]) /\ StepAt(L, i).rid = r
      BY <1>1, <2>1, Redone
    <3>2. StepAt(L, i).do # "deleteAt"
      BY <2>1, <3>1 DEF Redo, On, Counts, IsData
    <3> QED
      BY <3>1, <3>2 DEF Writes
  <2> QED
    BY <1>1, <1>2, <2>1, ChainDeletes
<1>3. CASE ~(t <= e)
  <2>1. ASSUME NEW i \in e + 1 .. t, On(all, c, r, i)
        PROVE  all[i].op = "INSERT"
    <3> SUFFICES ASSUME all[i].op # "INSERT" PROVE FALSE
      OBVIOUS
    <3> DEFINE x == 2 * Len(L) + 1 - i
    <3>1. i \in e + 1 .. u
      BY <1>1
    <3>2. x \in Visits(L) /\ StepAt(L, x).do = Undo(all[i]).do /\ StepAt(L, x).rid = r
      BY <2>1, <3>1, Undone
    <3> HIDE DEF x
    <3>3. StepAt(L, x).do # "deleteAt"
      BY <2>1, <3>2 DEF Undo, On, Counts, IsData
    <3> QED
      BY <3>2, <3>3 DEF Writes
  <2> QED
    BY <1>1, <1>3, <2>1, ChainInserts
<1> QED
  BY <1>2, <1>3

\* The rows after record e, and pages that hold for every slot the row of some
\* moment up to u.
After(h, e, rows) == \A r \in Heap!RecordID : h[r][e] = RowIn(rows, r)

Within(h, u, pages) == \A r \in Heap!RecordID : \E t \in 0 .. u : Row(pages, r) = h[r][t]

\* Such pages are replayed to the rows after record e.
LEMMA Found ==
  ASSUME NEW L \in Seq(LogRecord), Replayable(L), NEW all \in Seq(LogRecord),
         NEW c, NEW e, NEW u, Finds(L, all, c, e, u), NEW h, Chain(all, c, h),
         NEW rows, After(h, e, rows), NEW pages, Within(h, u, pages)
  PROVE  Determines(L, rows) /\ Fits(L, pages, rows)
<1>1. \A r \in Heap!RecordID : /\ h[r][e] # {} <=> r \in DOMAIN rows
                               /\ r \in DOMAIN rows => h[r][e] = {rows[r]}
  BY DEF After, RowIn
<1>2. Determines(L, rows)
  BY <1>1, FoundMark, FoundWrite DEF Determines
<1>3. ASSUME NEW r \in Heap!RecordID
      PROVE  /\ Marks(L, r) = {} => (Heap!LiveIn(pages, r) <=> r \in DOMAIN rows)
             /\ Writes(L, r) = {} /\ r \in DOMAIN rows => Bytes(pages, r) = rows[r]
  <2>1. PICK t \in 0 .. u : Row(pages, r) = h[r][t]
    BY DEF Within
  <2>2. Heap!LiveIn(pages, r) <=> h[r][t] # {}
    BY <2>1 DEF Row
  <2>3. Heap!LiveIn(pages, r) => h[r][t] = {Bytes(pages, r)}
    BY <2>1 DEF Row
  <2>4. Marks(L, r) = {} => (Heap!LiveIn(pages, r) <=> r \in DOMAIN rows)
    BY <1>1, <2>2, FoundUnmarked
  <2>5. Writes(L, r) = {} /\ r \in DOMAIN rows => h[r][t] = {rows[r]}
    BY <1>1, FoundUnwritten
  <2> QED
    BY <2>2, <2>3, <2>4, <2>5
<1>4. Fits(L, pages, rows)
  BY <1>3 DEF Fits
<1> QED
  BY <1>2, <1>4

-----------------------------------------------------------------------------
(* The log of a process that logs from its start.                           *)

Whole == DataRecord \cup EndRecord

\* The records up to b are of ended transactions, those behind it of transaction c,
\* whose COMMIT or ABORT is the last.
Shape(all, c, next, b) ==
  /\ b \in 0 .. Len(all)
  /\ c < next
  /\ \A i \in 1 .. Len(all) : all[i] \in Whole /\ all[i].tx < next
  /\ \A i \in 1 .. b : all[i].tx # c
  /\ \A i \in 1 .. b : all[i].tx \in Ended(all, "COMMIT") \cup Ended(all, "ABORT")
  /\ \A i \in b + 1 .. Len(all) : all[i].tx = c
  /\ \A i \in b + 1 .. Len(all) : IsData(all[i]) \/ i = Len(all)
  /\ Ended(all, "COMMIT") \cap Ended(all, "ABORT") = {}

LEMMA EndedOf ==
  ASSUME NEW log \in Seq(LogRecord), NEW op, NEW x
  PROVE  x \in Ended(log, op) <=> \E i \in 1 .. Len(log) : log[i].op = op /\ log[i].tx = x
  BY DEF Ended

LEMMA WholeRecord ==
  ASSUME NEW rec \in Whole
  PROVE  /\ rec \in LogRecord /\ rec.tx \in TxId /\ rec.tx # 0
         /\ rec.op \in {"INSERT", "DELETE", "UPDATE", "COMMIT", "ABORT"}
         /\ ~IsData(rec) => rec.op \in {"COMMIT", "ABORT"}
         /\ IsData(rec) => rec.op \in {"INSERT", "DELETE", "UPDATE"} /\ rec \in DataRecord
  BY DEF Whole, DataRecord, EndRecord, LogRecord, TxId, IsData

\* L is a first part of the log, its last record perhaps without what undo does not need.
Part(L, all, b) ==
  /\ b <= Len(L) /\ Len(L) <= Len(all)
  /\ \A i \in 1 .. b : L[i] = all[i]
  /\ \A i \in 1 .. Len(L) : L[i].op = all[i].op /\ L[i].tx = all[i].tx
  /\ \A i \in 1 .. Len(L) : IsData(all[i]) => L[i].rid = all[i].rid /\ L[i].old = all[i].old

\* It has the same ended transactions but for c.
LEMMA EndedBefore ==
  ASSUME NEW all \in Seq(LogRecord), NEW c, NEW next, NEW b, Shape(all, c, next, b),
         NEW L \in Seq(LogRecord), Part(L, all, b),
         NEW op, NEW x, x # c
  PROVE  x \in Ended(L, op) <=> x \in Ended(all, op)
<1>1. b \in Nat /\ Len(L) \in Nat /\ Len(all) \in Nat /\ b <= Len(L) /\ Len(L) <= Len(all)
  BY DEF Shape, Part
<1>2. \A i \in 1 .. Len(all) : all[i].tx = x => i \in 1 .. b
  BY <1>1 DEF Shape
<1>3. \A i \in 1 .. b : i \in 1 .. Len(L) /\ i \in 1 .. Len(all)
  BY <1>1
<1>4. \A i \in 1 .. Len(L) : i \in 1 .. Len(all)
  BY <1>1
<1> QED
  BY <1>2, <1>3, <1>4, EndedOf DEF Part

\* Transaction c has not ended: its records are undone, those of the others redone.
LEMMA FindsUnfinished ==
  ASSUME NEW all \in Seq(LogRecord), NEW c, NEW next, NEW b, Shape(all, c, next, b),
         NEW L \in Seq(LogRecord), ReadsBack(L), Part(L, all, b),
         c \notin Ended(L, "COMMIT"), c \notin Ended(L, "ABORT")
  PROVE  Finds(L, all, c, b, Len(L))
<1>1. b \in Nat /\ Len(L) \in Nat /\ Len(all) \in Nat /\ b <= Len(L) /\ Len(L) <= Len(all)
  BY DEF Shape, Part
<1>2. \A i \in 1 .. Len(L) : i \in 1 .. Len(all) /\ (i \in 1 .. b \/ i \in b + 1 .. Len(all))
  BY <1>1
<1>3. \A i \in 1 .. Len(L) : (IsData(L[i]) <=> IsData(all[i])) /\ L[i].tx = all[i].tx
  BY DEF IsData, Part
<1>4. \A i \in 1 .. Len(L) : i <= b => all[i].tx # c
  BY <1>1 DEF Shape
<1>5. \A i \in 1 .. Len(L) : ~(i <= b) => all[i].tx = c
  BY <1>1, <1>2 DEF Shape
<1>6. \A i \in 1 .. Len(L) : i <= b =>
        all[i].tx \in Ended(all, "COMMIT") \cup Ended(all, "ABORT")
  BY <1>1, <1>2 DEF Shape
<1>7. \A x : x # c => (x \in Ended(L, "COMMIT") <=> x \in Ended(all, "COMMIT"))
  BY EndedBefore
<1>8. \A x : x # c => (x \in Ended(L, "ABORT") <=> x \in Ended(all, "ABORT"))
  BY EndedBefore
<1>9. ASSUME NEW j \in 1 .. Len(L)
      PROVE  Replays(L, j) <=> j <= b /\ Counts(all, c, j)
  <2>1. Replays(L, j) <=> IsData(L[j]) /\ L[j].tx \in Ended(L, "COMMIT")
    BY <1>1, VisitedForth DEF Replays
  <2>2. CASE j <= b
    BY <1>3, <1>4, <1>6, <1>7, <2>1, <2>2 DEF Counts, Shape
  <2>3. CASE ~(j <= b)
    BY <1>3, <1>5, <2>1, <2>3
  <2> QED
    BY <2>2, <2>3
<1>10. ASSUME NEW i \in 1 .. Len(L)
       PROVE  Replays(L, 2 * Len(L) + 1 - i) <=> b < i /\ i <= Len(L) /\ Counts(all, c, i)
  <2>1. ~(2 * Len(L) + 1 - i <= Len(L)) /\ 2 * Len(L) + 1 - (2 * Len(L) + 1 - i) = i
    BY <1>1
  <2>2. Replays(L, 2 * Len(L) + 1 - i) <=>
          IsData(L[i]) /\ L[i].tx \notin Ended(L, "COMMIT") \cup Ended(L, "ABORT")
    BY <1>1, <2>1, VisitedBack DEF Replays
  <2>3. CASE i <= b
    <3>1. ~(b < i)
      BY <1>1, <2>3
    <3> QED
      BY <1>3, <1>4, <1>6, <1>7, <1>8, <2>2, <2>3, <3>1
  <2>4. CASE ~(i <= b)
    <3>1. b < i /\ i <= Len(L)
      BY <1>1, <2>4
    <3> QED
      BY <1>3, <1>5, <2>2, <2>4, <3>1 DEF Counts
  <2> QED
    BY <2>3, <2>4
<1>11. \A i \in 1 .. Len(L) : Counts(all, c, i) =>
         L[i].op = all[i].op /\ L[i].rid = all[i].rid /\ L[i].old = all[i].old
  BY DEF Counts, Part
<1>12. b \in 0 .. Len(L) /\ Len(L) \in 0 .. Len(L)
  BY <1>1
<1> QED
  BY <1>1, <1>9, <1>10, <1>11, <1>12 DEF Finds, Part

\* A record behind it that is no change and ends no transaction anew changes nothing.
LEMMA FindsAppended ==
  ASSUME NEW L \in Seq(LogRecord), NEW all, NEW c, NEW e, NEW u, Finds(L, all, c, e, u),
         NEW rec \in LogRecord, ~IsData(rec), NEW M, M = Append(L, rec), ReadsBack(M),
         Ended(M, "COMMIT") = Ended(L, "COMMIT"),
         Ended(M, "COMMIT") \cup Ended(M, "ABORT") = Ended(L, "COMMIT") \cup Ended(L, "ABORT")
  PROVE  Finds(M, all, c, e, u)
<1>1. /\ M \in Seq(LogRecord) /\ Len(M) = Len(L) + 1 /\ Len(L) \in Nat
      /\ \A i \in 1 .. Len(L) : M[i] = L[i]
      /\ M[Len(L) + 1] = rec
  OBVIOUS
<1>2. e \in Nat /\ u \in Nat /\ e <= u /\ u <= Len(L) /\ ReadsBack(L)
  BY DEF Finds
<1>3. \A i \in 1 .. Len(M) : i \in 1 .. Len(L) \/ i = Len(L) + 1
  BY <1>1
<1>4. ASSUME NEW j \in 1 .. Len(M)
      PROVE  Replays(M, j) <=> j <= e /\ Counts(all, c, j)
  <2>1. Replays(M, j) <=> IsData(M[j]) /\ M[j].tx \in Ended(M, "COMMIT")
    BY <1>1, ReplaysForth
  <2>2. CASE j \in 1 .. Len(L)
    <3>1. Replays(L, j) <=> IsData(L[j]) /\ L[j].tx \in Ended(L, "COMMIT")
      BY <1>2, <2>2, ReplaysForth
    <3> QED
      BY <1>1, <2>1, <2>2, <3>1 DEF Finds
  <2>3. CASE j = Len(L) + 1
    BY <1>1, <1>2, <2>1, <2>3
  <2> QED
    BY <1>3, <2>2, <2>3
<1>5. ASSUME NEW i \in 1 .. Len(M)
      PROVE  Replays(M, 2 * Len(M) + 1 - i) <=> e < i /\ i <= u /\ Counts(all, c, i)
  <2>1. ~(2 * Len(M) + 1 - i <= Len(M)) /\ 2 * Len(M) + 1 - (2 * Len(M) + 1 - i) = i
    BY <1>1
  <2>2. Replays(M, 2 * Len(M) + 1 - i) <=>
          IsData(M[i]) /\ M[i].tx \notin Ended(M, "COMMIT") \cup Ended(M, "ABORT")
    BY <1>1, ReplaysBack
  <2>3. CASE i \in 1 .. Len(L)
    <3>1. ~(2 * Len(L) + 1 - i <= Len(L)) /\ 2 * Len(L) + 1 - (2 * Len(L) + 1 - i) = i
      BY <1>1, <2>3
    <3>2. Replays(L, 2 * Len(L) + 1 - i) <=>
            IsData(L[i]) /\ L[i].tx \notin Ended(L, "COMMIT") \cup Ended(L, "ABORT")
      BY <1>2, <2>3, ReplaysBack
    <3>3. Replays(L, 2 * Len(L) + 1 - i) <=> e < i /\ i <= u /\ Counts(all, c, i)
      BY <2>3 DEF Finds
    <3> QED
      BY <1>1, <2>2, <2>3, <3>2, <3>3
  <2>4. CASE i = Len(L) + 1
    BY <1>1, <1>2, <2>2, <2>4
  <2> QED
    BY <1>3, <2>3, <2>4
<1>6. \A i \in 1 .. u : i \in 1 .. Len(L)
  BY <1>1, <1>2
<1>7. \A i \in 1 .. e : i \in 1 .. Len(L)
  BY <1>1, <1>2
<1>8. u \in 0 .. Len(M)
  BY <1>1, <1>2
<1>9. \A i \in 1 .. u : Counts(all, c, i) =>
        M[i].op = all[i].op /\ M[i].rid = all[i].rid /\ M[i].old = all[i].old
  BY <1>1, <1>6 DEF Finds
<1>10. \A i \in 1 .. e : M[i] = all[i]
  BY <1>1, <1>7 DEF Finds
<1>11. ReadsBack(M) /\ e \in 0 .. u /\ u <= Len(all)
  BY <1>2 DEF Finds
<1> QED
  BY ONLY <1>4, <1>5, <1>8, <1>9, <1>10, <1>11 DEF Finds

\* Transaction c has ended, and its COMMIT or ABORT is the last record.
LEMMA FindsEnded ==
  ASSUME NEW all \in Seq(LogRecord), ReadsBack(all), NEW c, NEW next, NEW b, Shape(all, c, next, b),
         c \in Ended(all, "COMMIT") \cup Ended(all, "ABORT"), NEW e,
         e = IF c \in Ended(all, "COMMIT") THEN Len(all) ELSE b
  PROVE  Finds(all, all, c, e, e)
<1>1. b \in Nat /\ Len(all) \in Nat /\ b <= Len(all) /\ e \in 0 .. Len(all)
  BY DEF Shape
<1>2. \A i \in 1 .. Len(all) : all[i].tx \in Ended(all, "COMMIT") \cup Ended(all, "ABORT")
  <2> SUFFICES ASSUME NEW i \in 1 .. Len(all)
               PROVE  all[i].tx \in Ended(all, "COMMIT") \cup Ended(all, "ABORT")
    OBVIOUS
  <2>1. i \in 1 .. b \/ i \in b + 1 .. Len(all)
    BY <1>1
  <2> QED
    BY <2>1 DEF Shape
<1>3. \A i \in 1 .. Len(all) : i <= b => all[i].tx # c
  BY <1>1 DEF Shape
<1>4. \A i \in 1 .. Len(all) : ~(i <= b) => all[i].tx = c
  BY <1>1 DEF Shape
<1>5. ASSUME NEW j \in 1 .. Len(all)
      PROVE  Replays(all, j) <=> j <= e /\ Counts(all, c, j)
  <2>1. Replays(all, j) <=> IsData(all[j]) /\ all[j].tx \in Ended(all, "COMMIT")
    BY <1>1, VisitedForth DEF Replays
  <2>2. CASE c \in Ended(all, "COMMIT")
    <3>1. j <= e
      BY <1>1, <2>2
    <3> QED
      BY <1>2, <2>1, <2>2, <3>1 DEF Counts, Shape
  <2>3. CASE c \notin Ended(all, "COMMIT")
    BY <1>2, <1>3, <1>4, <2>1, <2>3 DEF Counts, Shape
  <2> QED
    BY <2>2, <2>3
<1>6. ASSUME NEW i \in 1 .. Len(all)
      PROVE  Replays(all, 2 * Len(all) + 1 - i) <=> e < i /\ i <= e /\ Counts(all, c, i)
  <2>1. ~(2 * Len(all) + 1 - i <= Len(all)) /\ 2 * Len(all) + 1 - (2 * Len(all) + 1 - i) = i
    BY <1>1
  <2>2. ~Replays(all, 2 * Len(all) + 1 - i)
    BY <1>1, <1>2, <2>1, VisitedBack DEF Replays
  <2>3. ~(e < i /\ i <= e)
    BY <1>1
  <2> QED
    BY <2>2, <2>3
<1> QED
  BY <1>1, <1>5, <1>6 DEF Finds

-----------------------------------------------------------------------------
(* The pages of a process that logs from its start.                         *)

\* With the first l records of the log in the file: the pages in the pool hold the
\* rows after all of them, the committed rows are those after record b, and every
\* slot on disk holds the row of some moment the file knows of, of one before the
\* open transaction unless a page was written during it.
History(all, c, h, pages, disk, l, rows, b, ahead) ==
  /\ Chain(all, c, h)
  /\ \A r \in Heap!RecordID :
       /\ h[r][Len(all)] = Row(pages, r)
       /\ h[r][b] = RowIn(rows, r)
       /\ \E t \in 0 .. l : Row(disk, r) = h[r][t] /\ (ahead \/ t <= b)

LEMMA RowOfRows ==
  ASSUME NEW pages, NEW r \in Heap!RecordID
  PROVE  RowIn(Heap!RowsOf(pages), r) = Row(pages, r)
  BY DEF RowIn, Row, Bytes, Heap!RowsOf

LEMMA RowsAreRows ==
  ASSUME NEW pages
  PROVE  IsRows(Heap!RowsOf(pages))
  BY DEF IsRows, Heap!RowsOf

LEMMA AppendLog ==
  ASSUME NEW all \in Seq(LogRecord), NEW rec \in LogRecord
  PROVE  /\ Append(all, rec) \in Seq(LogRecord)
         /\ Len(Append(all, rec)) = Len(all) + 1 /\ Len(all) \in Nat
         /\ \A i \in 1 .. Len(all) : Append(all, rec)[i] = all[i]
         /\ Append(all, rec)[Len(all) + 1] = rec
         /\ \A op : Ended(Append(all, rec), op) =
              Ended(all, op) \cup IF rec.op = op THEN {rec.tx} ELSE {}
<1> DEFINE new == Append(all, rec)
<1>1. /\ new \in Seq(LogRecord) /\ Len(new) = Len(all) + 1 /\ Len(all) \in Nat
      /\ \A i \in 1 .. Len(all) : new[i] = all[i]
      /\ new[Len(all) + 1] = rec
  OBVIOUS
<1> HIDE DEF new
<1>2. ASSUME NEW op, NEW x
      PROVE  x \in Ended(new, op) <=> x \in Ended(all, op) \/ (rec.op = op /\ x = rec.tx)
  <2>1. \A i \in 1 .. Len(new) : i \in 1 .. Len(all) \/ i = Len(all) + 1
    BY <1>1
  <2>2. \A i \in 1 .. Len(all) : i \in 1 .. Len(new)
    BY <1>1
  <2>3. Len(all) + 1 \in 1 .. Len(new)
    BY <1>1
  <2> QED
    BY <1>1, <2>1, <2>2, <2>3, EndedOf
<1>3. \A op : Ended(new, op) = Ended(all, op) \cup IF rec.op = op THEN {rec.tx} ELSE {}
  BY <1>2
<1> QED
  BY <1>1, <1>3 DEF new

LEMMA ShapeAppend ==
  ASSUME NEW all \in Seq(LogRecord), NEW c, NEW next, NEW b, Shape(all, c, next, b),
         c \notin Ended(all, "COMMIT") \cup Ended(all, "ABORT"),
         NEW rec \in Whole, rec.tx = c
  PROVE  Shape(Append(all, rec), c, next, b)
<1> DEFINE new == Append(all, rec)
<1>1. /\ new \in Seq(LogRecord) /\ Len(new) = Len(all) + 1 /\ Len(all) \in Nat
      /\ \A i \in 1 .. Len(all) : new[i] = all[i]
      /\ new[Len(all) + 1] = rec
      /\ \A op : Ended(new, op) = Ended(all, op) \cup IF rec.op = op THEN {rec.tx} ELSE {}
  BY AppendLog, WholeRecord
<1> HIDE DEF new
<1>2. b \in Nat /\ b <= Len(all)
  BY <1>1 DEF Shape
<1>3. \A i \in 1 .. Len(new) : i \in 1 .. Len(all) \/ i = Len(all) + 1
  BY <1>1
<1>4. \A i \in 1 .. b : i \in 1 .. Len(all)
  BY <1>1, <1>2
<1>5. \A i \in b + 1 .. Len(new) : (i \in 1 .. Len(all) /\ i \in b + 1 .. Len(all)) \/ i = Len(all) + 1
  BY <1>1, <1>2
<1>6. b \in 0 .. Len(new)
  BY <1>1, <1>2
<1>7. \A i \in 1 .. Len(new) : new[i] \in Whole /\ new[i].tx < next
  BY <1>1, <1>3 DEF Shape
<1>8. \A i \in 1 .. b : new[i].tx # c /\ new[i].tx \in Ended(new, "COMMIT") \cup Ended(new, "ABORT")
  BY <1>1, <1>4 DEF Shape
<1>9. \A i \in b + 1 .. Len(new) : new[i].tx = c
  BY <1>1, <1>5 DEF Shape
<1>10. \A i \in b + 1 .. Len(all) : IsData(all[i])
  <2> SUFFICES ASSUME NEW i \in b + 1 .. Len(all), ~IsData(all[i]) PROVE FALSE
    OBVIOUS
  <2>1. i \in 1 .. Len(all) /\ all[i] \in Whole /\ all[i].tx = c
    BY <1>1, <1>2 DEF Shape
  <2>2. all[i].op \in {"COMMIT", "ABORT"}
    BY <2>1, WholeRecord
  <2> QED
    BY <2>1, <2>2, EndedOf
<1>11. \A i \in b + 1 .. Len(new) : IsData(new[i]) \/ i = Len(new)
  BY <1>1, <1>5, <1>10
<1>12. Ended(new, "COMMIT") \cap Ended(new, "ABORT") = {}
  <2>1. Ended(all, "COMMIT") \cap Ended(all, "ABORT") = {}
    BY DEF Shape
  <2>2. /\ Ended(new, "COMMIT") = Ended(all, "COMMIT") \cup IF rec.op = "COMMIT" THEN {c} ELSE {}
        /\ Ended(new, "ABORT") = Ended(all, "ABORT") \cup IF rec.op = "ABORT" THEN {c} ELSE {}
    BY <1>1
  <2> QED
    BY <2>1, <2>2
<1>13. c < next
  BY DEF Shape
<1> QED
  BY <1>6, <1>7, <1>8, <1>9, <1>11, <1>12, <1>13 DEF Shape, new

LEMMA HistoryAppend ==
  ASSUME NEW all \in Seq(LogRecord), NEW c, NEW next, NEW b, Shape(all, c, next, b),
         NEW h, NEW pages, NEW disk, NEW l, l \in Nat, l <= Len(all), NEW rows, NEW ahead,
         History(all, c, h, pages, disk, l, rows, b, ahead),
         NEW rec \in Whole, rec.tx = c, NEW new,
         \A r \in Heap!RecordID :
           IF IsData(rec) /\ rec.rid = r
           THEN Row(pages, r) = Pre(rec) /\ Row(new, r) = Post(rec)
           ELSE Row(new, r) = Row(pages, r)
  PROVE  \E g : History(Append(all, rec), c, g, new, disk, l, rows, b, ahead)
<1> DEFINE log == Append(all, rec)
           n == Len(all)
           g == [r \in Heap!RecordID |-> [k \in 0 .. n + 1 |-> IF k <= n THEN h[r][k] ELSE Row(new, r)]]
<1>1. /\ log \in Seq(LogRecord) /\ Len(log) = n + 1 /\ n \in Nat
      /\ \A i \in 1 .. n : log[i] = all[i]
      /\ log[n + 1] = rec
      /\ \A op : Ended(log, op) = Ended(all, op) \cup IF rec.op = op THEN {rec.tx} ELSE {}
  BY AppendLog, WholeRecord
<1>2. b \in Nat /\ b <= n
  BY <1>1 DEF Shape
<1> HIDE DEF log, n
<1>3. \A r \in Heap!RecordID, k \in 0 .. n : g[r][k] = h[r][k]
  BY <1>1
<1>4. \A r \in Heap!RecordID : g[r][n + 1] = Row(new, r)
  BY <1>1
<1> HIDE DEF g
<1>5. \A r \in Heap!RecordID, k \in 1 .. n : On(log, c, r, k) <=> On(all, c, r, k)
  BY <1>1 DEF On, Counts
<1>6. \A r \in Heap!RecordID : On(log, c, r, n + 1) <=> IsData(rec) /\ rec.rid = r
  BY <1>1 DEF On, Counts
<1>7. Chain(log, c, g)
  <2> SUFFICES ASSUME NEW r \in Heap!RecordID, NEW k \in 1 .. Len(log)
               PROVE  IF On(log, c, r, k)
                      THEN g[r][k - 1] = Pre(log[k]) /\ g[r][k] = Post(log[k])
                      ELSE g[r][k] = g[r][k - 1]
    BY DEF Chain
  <2>1. CASE k \in 1 .. n
    <3>1. k \in 0 .. n /\ k - 1 \in 0 .. n
      BY <1>1, <2>1
    <3>2. IF On(all, c, r, k)
          THEN h[r][k - 1] = Pre(all[k]) /\ h[r][k] = Post(all[k])
          ELSE h[r][k] = h[r][k - 1]
      BY <2>1 DEF History, Chain, n
    <3> QED
      BY <1>1, <1>3, <1>5, <2>1, <3>1, <3>2
  <2>2. CASE k \notin 1 .. n
    <3>1. k = n + 1 /\ k - 1 = n /\ n \in 0 .. n
      BY <1>1, <2>2
    <3>2. h[r][n] = Row(pages, r)
      BY DEF History, n
    <3>3. g[r][k - 1] = Row(pages, r) /\ g[r][k] = Row(new, r)
      BY <1>3, <1>4, <3>1, <3>2
    <3> QED
      BY <1>1, <1>6, <3>1, <3>3
  <2> QED
    BY <2>1, <2>2
<1>8. ASSUME NEW r \in Heap!RecordID
      PROVE  /\ g[r][Len(log)] = Row(new, r)
             /\ g[r][b] = RowIn(rows, r)
             /\ \E t \in 0 .. l : Row(disk, r) = g[r][t] /\ (ahead \/ t <= b)
  <2>1. g[r][Len(log)] = Row(new, r)
    BY <1>1, <1>4
  <2>2. b \in 0 .. n
    BY <1>1, <1>2
  <2>3. g[r][b] = RowIn(rows, r)
    BY <1>3, <2>2 DEF History
  <2>4. PICK t \in 0 .. l : Row(disk, r) = h[r][t] /\ (ahead \/ t <= b)
    BY DEF History
  <2>5. t \in 0 .. n
    BY <1>1 DEF n
  <2> QED
    BY <1>3, <2>1, <2>3, <2>4, <2>5
<1> QED
  BY <1>7, <1>8 DEF History, log

\* COMMIT acknowledged: the rows in the pool are the committed ones.
LEMMA ShapeEnd ==
  ASSUME NEW all \in Seq(LogRecord), NEW c, NEW next, NEW b, Shape(all, c, next, b),
         c \in Ended(all, "COMMIT") \cup Ended(all, "ABORT"), 0 < next
  PROVE  Shape(all, 0, next, Len(all))
<1>1. b \in Nat /\ Len(all) \in Nat /\ b <= Len(all)
  BY DEF Shape
<1>2. \A i \in 1 .. Len(all) : i \in 1 .. b \/ i \in b + 1 .. Len(all)
  BY <1>1
<1>3. \A i \in 1 .. Len(all) : all[i].tx \in Ended(all, "COMMIT") \cup Ended(all, "ABORT")
  BY <1>2 DEF Shape
<1>4. \A i \in 1 .. Len(all) : all[i].tx # 0
  BY WholeRecord DEF Shape
<1>5. \A i \in Len(all) + 1 .. Len(all) : FALSE
  BY <1>1
<1> QED
  BY <1>1, <1>3, <1>4, <1>5 DEF Shape

LEMMA HistoryCommit ==
  ASSUME NEW all \in Seq(LogRecord), NEW c, NEW next, NEW b, Shape(all, c, next, b),
         c \in Ended(all, "COMMIT"), NEW h, NEW pages, NEW disk, NEW rows, NEW ahead,
         History(all, c, h, pages, disk, Len(all), rows, b, ahead)
  PROVE  History(all, 0, h, pages, disk, Len(all), Heap!RowsOf(pages), Len(all), ahead)
<1>1. Len(all) \in Nat
  OBVIOUS
<1>2. \A i \in 1 .. Len(all) : all[i].tx # 0
  BY WholeRecord DEF Shape
<1>3. c \notin Ended(all, "ABORT")
  BY DEF Shape
<1>4. \A r \in Heap!RecordID, k \in 1 .. Len(all) : On(all, 0, r, k) <=> On(all, c, r, k)
  BY <1>2, <1>3 DEF On, Counts
<1>5. Chain(all, 0, h)
  BY <1>4 DEF Chain, History
<1>6. \A t \in 0 .. Len(all) : t <= Len(all)
  OBVIOUS
<1> QED
  BY <1>5, <1>6, RowOfRows DEF History

\* ROLLBACK acknowledged, with nothing left behind: the transaction never was.
LEMMA HistoryAbort ==
  ASSUME NEW all \in Seq(LogRecord), NEW c, NEW next, NEW b, Shape(all, c, next, b),
         c \in Ended(all, "ABORT"), NEW h, NEW pages, NEW disk, NEW rows,
         History(all, c, h, pages, disk, Len(all), rows, b, FALSE),
         Heap!RowsOf(pages) = rows
  PROVE  \E g : History(all, 0, g, pages, disk, Len(all), rows, Len(all), FALSE)
<1> DEFINE n == Len(all)
           g == [r \in Heap!RecordID |-> [k \in 0 .. n |-> IF k <= b THEN h[r][k] ELSE h[r][b]]]
<1>1. n \in Nat /\ b \in Nat /\ b <= n
  BY DEF Shape
<1> HIDE DEF n
<1>2. \A r \in Heap!RecordID, k \in 0 .. n : g[r][k] = IF k <= b THEN h[r][k] ELSE h[r][b]
  OBVIOUS
<1> HIDE DEF g
<1>3. \A i \in 1 .. n : all[i].tx # 0
  BY WholeRecord DEF Shape, n
<1>4. \A i \in 1 .. n : i <= b => all[i].tx # c
  BY <1>1 DEF Shape
<1>5. \A i \in 1 .. n : ~(i <= b) => all[i].tx = c
  <2>1. \A i \in 1 .. n : ~(i <= b) => i \in b + 1 .. n
    BY <1>1
  <2> QED
    BY <2>1 DEF Shape, n
<1>6. \A r \in Heap!RecordID, k \in 1 .. n : On(all, 0, r, k) <=> k <= b /\ On(all, c, r, k)
  BY <1>3, <1>4, <1>5 DEF On, Counts
<1>7. Chain(all, 0, g)
  <2> SUFFICES ASSUME NEW r \in Heap!RecordID, NEW k \in 1 .. n
               PROVE  IF On(all, 0, r, k)
                      THEN g[r][k - 1] = Pre(all[k]) /\ g[r][k] = Post(all[k])
                      ELSE g[r][k] = g[r][k - 1]
    BY DEF Chain, n
  <2>1. k \in 0 .. n /\ k - 1 \in 0 .. n /\ k \in Nat
    BY <1>1
  <2>2. IF On(all, c, r, k)
        THEN h[r][k - 1] = Pre(all[k]) /\ h[r][k] = Post(all[k])
        ELSE h[r][k] = h[r][k - 1]
    BY DEF History, Chain, n
  <2>3. CASE k <= b
    <3>1. k - 1 <= b
      BY <1>1, <2>1, <2>3
    <3>2. g[r][k] = h[r][k] /\ g[r][k - 1] = h[r][k - 1]
      BY <1>2, <2>1, <2>3, <3>1
    <3> QED
      BY <1>6, <2>2, <2>3, <3>2
  <2>4. CASE ~(k <= b)
    <3>1. k - 1 = b \/ ~(k - 1 <= b)
      BY <1>1, <2>1, <2>4
    <3>2. g[r][k] = h[r][b] /\ g[r][k - 1] = h[r][b]
      BY <1>2, <2>1, <2>4, <3>1
    <3> QED
      BY <1>6, <2>4, <3>2
  <2> QED
    BY <2>3, <2>4
<1>8. ASSUME NEW r \in Heap!RecordID
      PROVE  /\ g[r][n] = Row(pages, r)
             /\ g[r][n] = RowIn(rows, r)
             /\ \E t \in 0 .. n : Row(disk, r) = g[r][t] /\ t <= n
  <2>1. n \in 0 .. n /\ (n <= b => n = b)
    BY <1>1
  <2>2. g[r][n] = h[r][b] /\ h[r][b] = RowIn(rows, r)
    BY <1>2, <2>1 DEF History
  <2>3. PICK t \in 0 .. n : Row(disk, r) = h[r][t] /\ t <= b
    BY DEF History, n
  <2>4. Row(disk, r) = g[r][t] /\ t <= n
    BY <1>1, <1>2, <2>3
  <2> QED
    BY <2>2, <2>4, RowOfRows
<1> QED
  BY <1>7, <1>8 DEF History, n

LEMMA ShapeIdle ==
  ASSUME NEW all \in Seq(LogRecord), NEW next, NEW b, Shape(all, 0, next, b)
  PROVE  b = Len(all)
<1>1. b \in 0 .. Len(all) /\ Len(all) \in Nat
  BY DEF Shape
<1>2. \A i \in 1 .. Len(all) : all[i].tx # 0
  BY WholeRecord DEF Shape
<1>3. b # Len(all) => b + 1 \in b + 1 .. Len(all) /\ b + 1 \in 1 .. Len(all)
  BY <1>1
<1> QED
  BY <1>2, <1>3 DEF Shape

LEMMA ShapeBegin ==
  ASSUME NEW all \in Seq(LogRecord), NEW next \in Int, NEW b, Shape(all, 0, next, b)
  PROVE  Shape(all, next, next + 1, b)
<1>1. b = Len(all) /\ Len(all) \in Nat
  BY ShapeIdle
<1>2. \A i \in 1 .. Len(all) : all[i].tx \in Int /\ all[i].tx < next
  BY WholeRecord DEF Shape, TxId
<1>3. \A i \in 1 .. Len(all) : all[i].tx < next + 1 /\ all[i].tx # next
  BY <1>2
<1>4. \A i \in b + 1 .. Len(all) : FALSE
  BY <1>1
<1> QED
  BY <1>1, <1>3, <1>4 DEF Shape

LEMMA HistoryBegin ==
  ASSUME NEW all \in Seq(LogRecord), NEW next \in Int, NEW b, Shape(all, 0, next, b),
         NEW h, NEW pages, NEW disk, NEW l \in Nat, l <= Len(all), NEW rows, NEW ahead, NEW now,
         History(all, 0, h, pages, disk, l, rows, b, ahead)
  PROVE  History(all, next, h, pages, disk, l, rows, b, now)
<1>1. b = Len(all) /\ Len(all) \in Nat
  BY ShapeIdle
<1>2. \A i \in 1 .. Len(all) : all[i].tx # next /\ all[i].tx # 0
  BY <1>1, WholeRecord DEF Shape, TxId
<1>3. \A r \in Heap!RecordID, k \in 1 .. Len(all) : On(all, next, r, k) <=> On(all, 0, r, k)
  BY <1>2 DEF On, Counts
<1>4. Chain(all, next, h)
  BY <1>3 DEF Chain, History
<1>5. \A t \in 0 .. l : t <= b
  BY <1>1
<1> QED
  BY <1>4, <1>5 DEF History

\* No record of page p behind record l, and page p copied from the pool to disk.
InFirst(all, l, p) ==
  \A i \in l + 1 .. Len(all) : IsData(all[i]) => all[i].rid.pageId # p

Copied(new, pages, disk, p) ==
  \A r \in Heap!RecordID : Row(new, r) = IF r.pageId = p THEN Row(pages, r) ELSE Row(disk, r)

\* A page goes to disk with none of its log records behind.
LEMMA HistoryPersist ==
  ASSUME NEW all \in Seq(LogRecord), NEW c, NEW next, NEW b, Shape(all, c, next, b),
         NEW h, NEW pages, NEW disk, NEW l \in Nat, l <= Len(all), NEW rows, NEW ahead, NEW now,
         History(all, c, h, pages, disk, l, rows, b, ahead),
         ahead => now, now \/ c = 0, NEW p,
         InFirst(all, l, p), NEW new, Copied(new, pages, disk, p)
  PROVE  History(all, c, h, pages, new, l, rows, b, now)
<1>1. Len(all) \in Nat /\ b \in Nat /\ b <= Len(all)
  BY DEF Shape
<1>2. now \/ b = Len(all)
  BY ShapeIdle
<1>3. ASSUME NEW r \in Heap!RecordID
      PROVE  \E t \in 0 .. l : Row(new, r) = h[r][t] /\ (now \/ t <= b)
  <2>1. CASE r.pageId = p
    <3>1. \A i \in l + 1 .. Len(all) : ~On(all, c, r, i)
      BY <2>1 DEF On, Counts, InFirst
    <3>2. h[r][Len(all)] = h[r][l]
      BY <1>1, <3>1, ChainSame DEF History
    <3>3. Row(new, r) = h[r][l]
      BY <2>1, <3>2 DEF History, Copied
    <3>4. l \in 0 .. l /\ (now \/ l <= b)
      BY <1>1, <1>2
    <3> QED
      BY <3>3, <3>4
  <2>2. CASE r.pageId # p
    <3>1. PICK t \in 0 .. l : Row(disk, r) = h[r][t] /\ (ahead \/ t <= b)
      BY DEF History
    <3>2. Row(new, r) = h[r][t] /\ (now \/ t <= b)
      BY <2>2, <3>1 DEF Copied
    <3> QED
      BY <3>2
  <2> QED
    BY <2>1, <2>2
<1> QED
  BY <1>3 DEF History

\* A log that recover() comes to the end of and reads as it was written.
Restorable(log) == Replayable(log) /\ ReadsBack(log)

\* What recovery finds of this log and these pages.
LEMMA UnfinishedFound ==
  ASSUME NEW all \in Seq(LogRecord), NEW c, NEW next, NEW b, Shape(all, c, next, b),
         NEW h, NEW pages, NEW disk, NEW l \in Nat, NEW rows, NEW ahead,
         History(all, c, h, pages, disk, l, rows, b, ahead),
         NEW L \in Seq(LogRecord), Restorable(L), Part(L, all, b), l <= Len(L),
         c \notin Ended(L, "COMMIT"), c \notin Ended(L, "ABORT")
  PROVE  Determines(L, rows) /\ Fits(L, disk, rows)
<1>1. Finds(L, all, c, b, Len(L))
  BY FindsUnfinished DEF Restorable
<1>2. Chain(all, c, h) /\ After(h, b, rows)
  BY DEF History, After
<1>3. Within(h, Len(L), disk)
  <2>1. \A t \in 0 .. l : t \in 0 .. Len(L)
    OBVIOUS
  <2> QED
    BY <2>1 DEF History, Within
<1> QED
  BY <1>1, <1>2, <1>3, Found DEF Restorable

LEMMA CommittedFound ==
  ASSUME NEW all \in Seq(LogRecord), Restorable(all), NEW c, NEW next, NEW b,
         Shape(all, c, next, b), c \in Ended(all, "COMMIT"),
         NEW h, NEW pages, NEW disk, NEW rows, NEW ahead,
         History(all, c, h, pages, disk, Len(all), rows, b, ahead)
  PROVE  Determines(all, Heap!RowsOf(pages)) /\ Fits(all, disk, Heap!RowsOf(pages))
<1>1. Finds(all, all, c, Len(all), Len(all))
  BY FindsEnded DEF Restorable
<1>2. Chain(all, c, h) /\ After(h, Len(all), Heap!RowsOf(pages))
  BY RowOfRows DEF History, After
<1>3. Within(h, Len(all), disk)
  BY DEF History, Within
<1> QED
  BY <1>1, <1>2, <1>3, Found DEF Restorable

LEMMA AbortedFound ==
  ASSUME NEW all \in Seq(LogRecord), Restorable(all), NEW c, NEW next, NEW b,
         Shape(all, c, next, b), c \in Ended(all, "ABORT"),
         NEW h, NEW pages, NEW disk, NEW rows,
         History(all, c, h, pages, disk, Len(all), rows, b, FALSE)
  PROVE  Determines(all, rows) /\ Fits(all, disk, rows)
<1>1. b \in Nat /\ Len(all) \in Nat
  BY DEF Shape
<1>2. c \notin Ended(all, "COMMIT")
  BY DEF Shape
<1>3. Finds(all, all, c, b, b)
  BY <1>2, FindsEnded DEF Restorable
<1>4. Chain(all, c, h) /\ After(h, b, rows)
  BY DEF History, After
<1>5. Within(h, b, disk)
  <2>1. \A t \in 0 .. Len(all) : t <= b => t \in 0 .. b
    BY <1>1
  <2> QED
    BY <2>1 DEF History, Within
<1> QED
  BY <1>3, <1>4, <1>5, Found DEF Restorable

-----------------------------------------------------------------------------
(* The log as its file and its buffer.                                      *)

LEMMA Joined ==
  ASSUME NEW a \in Seq(LogRecord), NEW s \in Seq(LogRecord)
  PROVE  /\ a \o s \in Seq(LogRecord)
         /\ Len(a \o s) = Len(a) + Len(s) /\ Len(a) \in Nat /\ Len(s) \in Nat
         /\ \A i \in 1 .. Len(a) : (a \o s)[i] = a[i]
         /\ \A i \in 1 .. Len(s) : (a \o s)[Len(a) + i] = s[i]
  OBVIOUS

LEMMA JoinedEmpty ==
  ASSUME NEW a \in Seq(LogRecord), NEW s \in Seq(LogRecord), Len(a \o s) = Len(a) \/ s = <<>>
  PROVE  a \o s = a
<1>1. a \o s \in Seq(LogRecord) /\ Len(a \o s) = Len(a)
  BY Joined
<1>2. \A i \in 1 .. Len(a) : (a \o s)[i] = a[i]
  BY Joined
<1> QED
  BY <1>1, <1>2, SeqEqual

LEMMA JoinedAppend ==
  ASSUME NEW a \in Seq(LogRecord), NEW s \in Seq(LogRecord), NEW rec \in LogRecord
  PROVE  a \o Append(s, rec) = Append(a \o s, rec)
<1>1. <<rec>> \in Seq(LogRecord) /\ a \o s \in Seq(LogRecord)
  OBVIOUS
<1>2. Append(s, rec) = s \o <<rec>> /\ Append(a \o s, rec) = (a \o s) \o <<rec>>
  BY <1>1, AppendIsConcat
<1> QED
  BY <1>1, <1>2, ConcatAssociative

LEMMA JoinedSpill ==
  ASSUME NEW a \in Seq(LogRecord), NEW s \in Seq(LogRecord), s # <<>>
  PROVE  /\ Append(a, Head(s)) \o Tail(s) = a \o s
         /\ Append(a, Head(s)) \in Seq(LogRecord) /\ Tail(s) \in Seq(LogRecord)
         /\ Head(s) \in LogRecord
         /\ Len(Append(a, Head(s))) = Len(a) + 1
         /\ Len(a) + 1 <= Len(a \o s) /\ (a \o s)[Len(a) + 1] = Head(s)
<1> DEFINE hd == Head(s)
           tl == Tail(s)
<1>1. /\ hd \in LogRecord /\ tl \in Seq(LogRecord) /\ Len(s) \in Nat \ {0}
      /\ Len(tl) = Len(s) - 1 /\ hd = s[1]
      /\ \A i \in 1 .. Len(tl) : tl[i] = s[i + 1]
  BY HeadTailProperties, EmptySeq
<1> HIDE DEF hd, tl
<1>2. <<hd>> \in Seq(LogRecord) /\ Len(<<hd>>) = 1 /\ <<hd>>[1] = hd
  BY <1>1
<1> DEFINE one == <<hd>>
<1> HIDE DEF one
<1>3. one \o tl = s
  <2>1. /\ one \o tl \in Seq(LogRecord) /\ Len(one \o tl) = Len(one) + Len(tl)
        /\ \A i \in 1 .. Len(one) + Len(tl) :
             (one \o tl)[i] = IF i <= Len(one) THEN one[i] ELSE tl[i - Len(one)]
    BY <1>1, <1>2, ConcatProperties DEF one
  <2>2. Len(one \o tl) = Len(s) /\ Len(one) = 1 /\ one[1] = s[1]
    BY <1>1, <1>2, <2>1 DEF one
  <2>3. \A i \in 1 .. Len(s) : (one \o tl)[i] = s[i]
    <3> SUFFICES ASSUME NEW i \in 1 .. Len(s) PROVE (one \o tl)[i] = s[i]
      OBVIOUS
    <3>1. CASE i = 1
      BY <1>1, <2>1, <2>2, <3>1
    <3>2. CASE i # 1
      <4>1. i - 1 \in 1 .. Len(tl) /\ ~(i <= 1) /\ (i - 1) + 1 = i
        BY <1>1, <3>2
      <4> QED
        BY <1>1, <2>1, <2>2, <4>1
    <3> QED
      BY <3>1, <3>2
  <2> QED
    BY <2>1, <2>2, <2>3, SeqEqual
<1>4. Append(a, hd) = a \o one
  BY <1>1, AppendIsConcat DEF one
<1>5. Append(a, hd) \o tl = a \o s
  <2>1. (a \o one) \o tl = a \o (one \o tl)
    BY <1>1, <1>2, ConcatAssociative DEF one
  <2> QED
    BY <1>3, <1>4, <2>1
<1>6. /\ Append(a, hd) \in Seq(LogRecord) /\ Len(Append(a, hd)) = Len(a) + 1 /\ Len(a) \in Nat
  BY <1>1, AppendLog
<1>7. Len(a) + 1 <= Len(a \o s) /\ (a \o s)[Len(a) + 1] = hd
  BY <1>1, <1>6, Joined
<1> QED
  BY <1>1, <1>5, <1>6, <1>7 DEF hd, tl

-----------------------------------------------------------------------------
(* The heap under the actions.                                              *)

LEMMA HeapTame ==
  ASSUME HP!IInv
  PROVE  Tame(content) /\ Tame(durable) /\ Heap!TypeOK /\ pageCount \in 0 .. MaxPages
<1>1. HP!TypeOK /\ HP!TailIsDead
  BY DEF HP!IInv
<1>2. Heap!TypeOK /\ pageCount \in 0 .. MaxPages
  BY <1>1, SameHeap DEF HP!TypeOK, Heap!TypeOK
<1> QED
  BY <1>1, <1>2, SameHeap DEF HP!TailIsDead, Heap!TypeOK, Tame, DeadTail

\* What a step does to the row of its slot.
RowAfter(row, s) ==
  IF s.do = "insertAt" THEN {s.value}
  ELSE IF s.do = "deleteAt" \/ row = {} THEN {} ELSE {s.value}

LEMMA ChangeEffect ==
  ASSUME HP!IInv, NEW s \in Step, CanReplay(s),
         content' = [content EXCEPT ![s.rid.pageId] = ReplayOn(@, s)], durable' = durable,
         pageCount' \in 0 .. MaxPages, pageCount' >= pageCount, s.rid.pageId < pageCount'
  PROVE  /\ HP!IInv'
         /\ \A r \in Heap!RecordID :
              Row(content', r) = IF r = s.rid THEN RowAfter(Row(content, r), s) ELSE Row(content, r)
<1> DEFINE p == s.rid.pageId
           q == ReplayOn(content[p], s)
<1>1. Tame(content)
  BY HeapTame
<1>2. s.rid \in Heap!RecordID /\ p \in Heap!Page /\ s.do \in {"insertAt", "deleteAt", "updateAt"}
  BY DEF Step, Heap!RecordID
<1>3. content[p] \in Heap!HeapPage /\ DeadTail(content[p])
  BY <1>1, <1>2 DEF Tame
<1>4. q \in Heap!HeapPage /\ DeadTail(q)
  BY <1>3, ReplayPage
<1>5. content' = [content EXCEPT ![p] = q] /\ p < pageCount'
  BY DEF p
<1> HIDE DEF p, q
<1>6. p \in HP!Page /\ q \in HP!HeapPage /\ HP!DeadTail(q)
  BY <1>2, <1>4, SameHeap
<1>7. HP!IInv'
  BY <1>5, <1>6, HP!ChangeKeeps, RecoveryAssumption
<1>8. /\ \A r \in Heap!RecordID \ {s.rid} :
           (Heap!LiveIn(content', r) <=> Heap!LiveIn(content, r)) /\ Bytes(content', r) = Bytes(content, r)
      /\ s.do = "insertAt" => Heap!LiveIn(content', s.rid) /\ Bytes(content', s.rid) = s.value
      /\ s.do = "deleteAt" => ~Heap!LiveIn(content', s.rid) /\ Bytes(content', s.rid) = Bytes(content, s.rid)
      /\ s.do = "updateAt" =>
           (Heap!LiveIn(content', s.rid) <=> Heap!LiveIn(content, s.rid)) /\ Bytes(content', s.rid) = s.value
  BY <1>1, ReplayEffect
<1>9. ASSUME NEW r \in Heap!RecordID
      PROVE  Row(content', r) = IF r = s.rid THEN RowAfter(Row(content, r), s) ELSE Row(content, r)
  <2>1. CASE r # s.rid
    BY <1>8, <2>1 DEF Row
  <2>2. CASE r = s.rid
    BY <1>2, <1>8, <2>2 DEF Row, RowAfter
  <2> QED
    BY <2>1, <2>2
<1> QED
  BY <1>7, <1>9

StepOf(op, r, v) == [do |-> op, rid |-> r, value |-> v]

LEMMA InsertEffect ==
  ASSUME HP!IInv, NEW r \in Heap!RecordID, NEW v \in Value, Heap!InsertRecord(r, v)
  PROVE  /\ HP!IInv' /\ durable' = durable
         /\ pageCount' >= pageCount /\ r.pageId < pageCount'
         /\ Row(content, r) = {} /\ Row(content', r) = {v}
         /\ \A x \in Heap!RecordID \ {r} : Row(content', x) = Row(content, x)
<1> DEFINE s == StepOf("insertAt", r, v)
<1>1. /\ content' = [content EXCEPT ![r.pageId] = HP!PutSlot(content[r.pageId], r.slotNum, v)]
      /\ durable' = durable
      /\ pageCount' \in 0 .. MaxPages /\ pageCount' >= pageCount /\ r.pageId < pageCount'
      /\ ~HP!Live(r)
  <2>1. HP!InsertRecord(r, v)
    BY DEF Heap!InsertRecord, HP!InsertRecord, Heap!InsertInPage, HP!InsertInPage,
           Heap!InsertInNewPage, HP!InsertInNewPage, Heap!FindsInPage, HP!FindsInPage,
           Heap!FindsNewPage, HP!FindsNewPage, Heap!HasRoom, HP!HasRoom, Heap!Tombstones, HP!Tombstones,
           Heap!TakesSlot, HP!TakesSlot, Heap!Page, HP!Page, Heap!Slot, HP!Slot,
           Heap!ChangeSlot, HP!ChangeSlot, Heap!PutSlot, HP!PutSlot,
           Heap!Pool!Write, HP!Pool!Write
  <2> QED
    BY <2>1, SameHeap, HP!InsertWrites, RecoveryAssumption
<1>2. s \in Step /\ s.do = "insertAt" /\ s.rid = r /\ s.value = v /\ CanReplay(s)
  BY RecoveryAssumption DEF StepOf, Step, Datum, CanReplay
<1> HIDE DEF s
<1>3. content' = [content EXCEPT ![s.rid.pageId] = ReplayOn(@, s)]
  BY <1>1, <1>2, SameHeap DEF ReplayOn
<1>4. /\ HP!IInv'
      /\ \A x \in Heap!RecordID :
           Row(content', x) = IF x = s.rid THEN RowAfter(Row(content, x), s) ELSE Row(content, x)
  BY <1>1, <1>2, <1>3, ChangeEffect
<1>5. Row(content, r) = {}
  BY <1>1 DEF Row, HP!Live, HP!LiveIn, Heap!LiveIn
<1> QED
  BY <1>1, <1>2, <1>4, <1>5 DEF RowAfter

LEMMA UpdateEffect ==
  ASSUME HP!IInv, NEW r \in Heap!RecordID, NEW v \in Value, Heap!UpdateRecord(r, v)
  PROVE  /\ HP!IInv' /\ durable' = durable /\ pageCount' = pageCount /\ r.pageId < pageCount
         /\ Row(content, r) = {Old(r)} /\ Row(content', r) = {v}
         /\ \A x \in Heap!RecordID \ {r} : Row(content', x) = Row(content, x)
<1> DEFINE s == StepOf("updateAt", r, v)
<1>1. /\ content' = [content EXCEPT ![r.pageId] = Heap!WriteSlot(content[r.pageId], r.slotNum, v)]
      /\ durable' = durable /\ pageCount' = pageCount /\ r.pageId < pageCount /\ Heap!LiveIn(content, r)
  BY DEF Heap!UpdateRecord, Heap!ChangeSlot, Heap!Pool!Write, Heap!InFile, Heap!Live
<1>2. s \in Step /\ s.do = "updateAt" /\ s.rid = r /\ s.value = v /\ CanReplay(s)
  BY RecoveryAssumption DEF StepOf, Step, Datum, CanReplay
<1> HIDE DEF s
<1>3. content' = [content EXCEPT ![s.rid.pageId] = ReplayOn(@, s)]
  BY <1>1, <1>2 DEF ReplayOn
<1>4. pageCount' \in 0 .. MaxPages /\ pageCount' >= pageCount /\ s.rid.pageId < pageCount'
  BY <1>1, <1>2, HeapTame, RecoveryAssumption
<1>5. /\ HP!IInv'
      /\ \A x \in Heap!RecordID :
           Row(content', x) = IF x = s.rid THEN RowAfter(Row(content, x), s) ELSE Row(content, x)
  BY <1>1, <1>2, <1>3, <1>4, ChangeEffect
<1>6. Row(content, r) = {Old(r)}
  BY <1>1 DEF Row, Bytes, Old
<1> QED
  BY <1>1, <1>2, <1>5, <1>6 DEF RowAfter

LEMMA DeleteEffect ==
  ASSUME HP!IInv, NEW r \in Heap!RecordID, Heap!DeleteRecord(r)
  PROVE  /\ HP!IInv' /\ durable' = durable /\ pageCount' = pageCount /\ r.pageId < pageCount
         /\ Row(content, r) = {Old(r)} /\ Row(content', r) = {}
         /\ \A x \in Heap!RecordID \ {r} : Row(content', x) = Row(content, x)
<1> DEFINE s == StepOf("deleteAt", r, Zero)
<1>1. /\ content' = [content EXCEPT ![r.pageId] = Heap!KillSlot(content[r.pageId], r.slotNum)]
      /\ durable' = durable /\ pageCount' = pageCount /\ r.pageId < pageCount /\ Heap!LiveIn(content, r)
  BY DEF Heap!DeleteRecord, Heap!ChangeSlot, Heap!Pool!Write, Heap!InFile, Heap!Live
<1>2. s \in Step /\ s.do = "deleteAt" /\ s.rid = r /\ CanReplay(s)
  BY DEF StepOf, Step, Datum, CanReplay
<1> HIDE DEF s
<1>3. content' = [content EXCEPT ![s.rid.pageId] = ReplayOn(@, s)]
  BY <1>1, <1>2 DEF ReplayOn
<1>4. pageCount' \in 0 .. MaxPages /\ pageCount' >= pageCount /\ s.rid.pageId < pageCount'
  BY <1>1, <1>2, HeapTame, RecoveryAssumption
<1>5. /\ HP!IInv'
      /\ \A x \in Heap!RecordID :
           Row(content', x) = IF x = s.rid THEN RowAfter(Row(content, x), s) ELSE Row(content, x)
  BY <1>1, <1>2, <1>3, <1>4, ChangeEffect
<1>6. Row(content, r) = {Old(r)}
  BY <1>1 DEF Row, Bytes, Old
<1> QED
  BY <1>1, <1>2, <1>5, <1>6 DEF RowAfter

LEMMA OldIsDatum ==
  ASSUME HP!IInv, NEW r \in Heap!RecordID
  PROVE  Old(r) \in Value \cup {Zero}
<1>1. content \in [Heap!Page -> Heap!HeapPage] /\ r.pageId \in Heap!Page /\ r.slotNum \in Heap!Slot
  BY HeapTame DEF Tame, Heap!RecordID
<1> QED
  BY <1>1 DEF Old, Heap!HeapPage

LEMMA PersistEffect ==
  ASSUME HP!IInv, NEW P \in SUBSET Heap!Page, Heap!WriteBack(P)
  PROVE  /\ HP!IInv' /\ content' = content /\ pageCount' = pageCount
         /\ \A r \in Heap!RecordID :
              /\ Row(durable', r) = IF r.pageId \in P THEN Row(content, r) ELSE Row(durable, r)
              /\ r.pageId \in P => durable'[r.pageId] = content[r.pageId]
              /\ r.pageId \notin P => durable'[r.pageId] = durable[r.pageId]
<1>1. /\ content' = content /\ pageCount' = pageCount
      /\ durable' = [x \in Heap!Page |-> IF x \in P THEN content[x] ELSE durable[x]]
  BY DEF Heap!WriteBack, Heap!Pool!Persist
<1>2. HP!IInv'
  BY <1>1, SameHeap DEF HP!IInv, HP!TypeOK, HP!TailIsDead, HP!Fresh
<1>3. \A r \in Heap!RecordID : r.pageId \in Heap!Page
  BY DEF Heap!RecordID
<1>4. \A r \in Heap!RecordID :
        durable'[r.pageId] = IF r.pageId \in P THEN content[r.pageId] ELSE durable[r.pageId]
  BY <1>1, <1>3
<1> QED
  BY <1>1, <1>2, <1>4 DEF Row, Bytes, Heap!LiveIn

LEMMA LossEffect ==
  ASSUME HP!IInv, Heap!Crash
  PROVE  HP!IInv' /\ content' = durable /\ durable' = durable /\ pageCount' = pageCount
<1>1. content' = durable /\ durable' = durable /\ pageCount' = pageCount
  BY DEF Heap!Crash, Heap!Pool!Crash
<1> QED
  BY <1>1, SameHeap DEF HP!IInv, HP!TypeOK, HP!TailIsDead, HP!Fresh

LEMMA IdleHeap ==
  ASSUME HP!IInv, UNCHANGED heapVars
  PROVE  HP!IInv' /\ content' = content /\ durable' = durable /\ pageCount' = pageCount
  BY SameHeap DEF heapVars, HP!IInv, HP!TypeOK, HP!TailIsDead, HP!Fresh

-----------------------------------------------------------------------------
(* The buffer of the log is empty whenever no transaction is open: it fills *)
(* up only in a transaction, and every way out of one goes past flush() or  *)
(* loses it.                                                                *)

\* Outside a life, and before one has begun to serve, no transaction is open.
QuietOutside ==
  phase # "serving" => currentTxId_ = 0 /\ ending = "no" /\ nextTxId_ = 1 /\ committed = {}

NothingBuffered == currentTxId_ = 0 => logBuf = <<>>

\* Between flush() and the acknowledgement nothing is logged.
FlushedIsEmpty == ending \in {"COMMIT flushed", "ABORT flushed"} => logBuf = <<>>

\* Only a transaction ends.
EndsOpen == ending # "no" => currentTxId_ # 0

LogInv == NothingBuffered /\ QuietOutside /\ FlushedIsEmpty /\ EndsOpen

LEMMA InitLogInv == Init => LogInv
  BY DEF Init, LogInv, NothingBuffered, QuietOutside, FlushedIsEmpty, EndsOpen

LEMMA StatementKeeps ==
  ASSUME LogInv, NEW rec, Statement(rec)
  PROVE  LogInv'
  BY DEF Statement, Idle, txVars, histVars, LogInv, NothingBuffered, QuietOutside, FlushedIsEmpty, EndsOpen

LEMMA SpillKeeps ==
  ASSUME LogInv, Spill
  PROVE  LogInv'
<1>1. logBuf # <<>> /\ UNCHANGED <<phase, txVars, histVars>>
  BY DEF Spill
<1> QED
  BY <1>1 DEF txVars, histVars, LogInv, NothingBuffered, QuietOutside, FlushedIsEmpty, EndsOpen

LEMMA EndKeeps ==
  ASSUME LogInv, (\E op \in {"COMMIT", "ABORT"} : LogEnd(op)) \/ FlushEnd \/ Acknowledge
  PROVE  LogInv'
<1>1. ASSUME NEW op \in {"COMMIT", "ABORT"}, LogEnd(op)
      PROVE  LogInv'
  BY <1>1 DEF LogEnd, Idle, LogInv, NothingBuffered, QuietOutside, FlushedIsEmpty, EndsOpen
<1>2. CASE FlushEnd
  BY <1>2 DEF FlushEnd, FlushLog, histVars, LogInv, NothingBuffered, QuietOutside, FlushedIsEmpty, EndsOpen
<1>3. CASE Acknowledge
  BY <1>3 DEF Acknowledge, logVars, LogInv, NothingBuffered, QuietOutside, FlushedIsEmpty, EndsOpen
<1> QED
  BY <1>1, <1>2, <1>3

LEMMA GoneKeeps ==
  ASSUME NEW pages, NEW log, NEW mishaps, Gone(pages, log, mishaps)
  PROVE  LogInv'
  BY DEF Gone, LogInv, NothingBuffered, QuietOutside, FlushedIsEmpty, EndsOpen

LEMMA StartKeeps ==
  ASSUME LogInv, Start \/ ReplayStep \/ FinishRecovery
  PROVE  LogInv'
  BY DEF Start, ReplayStep, FinishRecovery, txVars, logVars, histVars,
         LogInv, NothingBuffered, QuietOutside, FlushedIsEmpty, EndsOpen

LEMMA WriteBackKeeps ==
  ASSUME LogInv, NEW p, WriteBack(p)
  PROVE  LogInv'
  BY DEF WriteBack, txVars, logVars, LogInv, NothingBuffered, QuietOutside, FlushedIsEmpty, EndsOpen

LEMMA NextLogInv == LogInv /\ [Next]_vars => LogInv'
<1> SUFFICES ASSUME LogInv, [Next]_vars
             PROVE  LogInv'
  OBVIOUS
<1>1. ASSUME NEW r \in Heap!RecordID, NEW v \in Value, Insert(r, v) \/ Update(r, v)
      PROVE  LogInv'
  BY <1>1, StatementKeeps DEF Insert, Update
<1>2. ASSUME NEW r \in Heap!RecordID, Delete(r) \/ RefusedUpdate(r)
      PROVE  LogInv'
  BY <1>2, StatementKeeps DEF Delete, RefusedUpdate
<1>3. CASE Begin
  BY <1>3 DEF Begin, Idle, logVars, LogInv, NothingBuffered, QuietOutside, FlushedIsEmpty, EndsOpen
<1>4. CASE Crash \/ Shutdown
  BY <1>4, GoneKeeps DEF Crash, Shutdown
<1>5. ASSUME NEW rec, CrashInLine(rec)
      PROVE  LogInv'
  BY <1>5, GoneKeeps DEF CrashInLine
<1>6. CASE UNCHANGED vars
  BY <1>6 DEF vars, txVars, logVars, histVars, LogInv, NothingBuffered, QuietOutside, FlushedIsEmpty, EndsOpen
<1> QED
  BY <1>1, <1>2, <1>3, <1>4, <1>5, <1>6, StartKeeps, EndKeeps, SpillKeeps, WriteBackKeeps DEF Next

-----------------------------------------------------------------------------
(* Types.                                                                   *)

\* A log of records of the file.
LogOK(log, n) ==
  /\ log \in Seq(LogRecord)
  /\ \A i \in 1 .. Len(log) : IsData(log[i]) => log[i].rid.pageId < n

TxOK == currentTxId_ \in 0 .. MaxTx /\ nextTxId_ \in 1 .. MaxTx + 1

VarsOK ==
  /\ phase \in {"down", "recovering", "serving"}
  /\ ending \in {"no", "COMMIT", "COMMIT flushed", "ABORT", "ABORT flushed"}
  /\ logOpen \in BOOLEAN
  /\ replayed \in Nat
  /\ committed \subseteq TxId
  /\ early \in BOOLEAN
  /\ spoilt \subseteq Mishaps

\* What is replayed is of a page of the file, so that the pages behind its end
\* stay zero.
Base ==
  /\ HP!IInv /\ TxOK /\ VarsOK
  /\ LogOK(logFile_, pageCount) /\ LogOK(logBuf, pageCount)
  /\ IsRows(truth)
  /\ LogInv

LEMMA BaseType == Base => TypeOK
  BY HeapTame DEF Base, TxOK, VarsOK, LogOK, TypeOK

LEMMA EmptyLogOK == ASSUME NEW n PROVE LogOK(<<>>, n)
  BY DEF LogOK

LEMMA GrownLogOK ==
  ASSUME NEW log, NEW n \in Nat, LogOK(log, n), NEW m \in Nat, m >= n
  PROVE  LogOK(log, m)
<1> SUFFICES ASSUME NEW i \in 1 .. Len(log), IsData(log[i])
             PROVE  log[i].rid.pageId < m
  BY DEF LogOK
<1>1. log[i] \in DataRecord /\ log[i].rid.pageId < n
  BY ElementOfSeq, DataType DEF LogOK
<1>2. log[i].rid.pageId \in Int
  BY <1>1, RecoveryAssumption DEF DataRecord, Heap!RecordID, Heap!Page
<1> QED
  BY <1>1, <1>2

LEMMA AppendedLogOK ==
  ASSUME NEW log, NEW n, LogOK(log, n), NEW rec \in LogRecord, IsData(rec) => rec.rid.pageId < n
  PROVE  LogOK(Append(log, rec), n)
<1> DEFINE new == Append(log, rec)
<1>1. /\ new \in Seq(LogRecord) /\ Len(new) = Len(log) + 1 /\ Len(log) \in Nat
      /\ \A i \in 1 .. Len(log) : new[i] = log[i]
      /\ new[Len(log) + 1] = rec
  BY AppendLog DEF LogOK
<1> HIDE DEF new
<1>2. \A i \in 1 .. Len(new) : i \in 1 .. Len(log) \/ i = Len(log) + 1
  BY <1>1
<1>3. LogOK(new, n)
  BY <1>1, <1>2 DEF LogOK
<1> QED
  BY <1>3 DEF new

LEMMA JoinedLogOK ==
  ASSUME NEW a, NEW s, NEW n, LogOK(a, n), LogOK(s, n)
  PROVE  LogOK(a \o s, n)
<1> DEFINE new == a \o s
<1>1. /\ new \in Seq(LogRecord)
      /\ Len(new) = Len(a) + Len(s) /\ Len(a) \in Nat /\ Len(s) \in Nat
      /\ \A i \in 1 .. Len(a) : new[i] = a[i]
      /\ \A i \in 1 .. Len(s) : new[Len(a) + i] = s[i]
  BY Joined DEF LogOK
<1> HIDE DEF new
<1>2. ASSUME NEW i \in 1 .. Len(new), IsData(new[i])
      PROVE  new[i].rid.pageId < n
  <2>1. CASE i \in 1 .. Len(a)
    BY <1>1, <1>2, <2>1 DEF LogOK
  <2>2. CASE i \notin 1 .. Len(a)
    <3> DEFINE j == i - Len(a)
    <3>1. j \in 1 .. Len(s) /\ i = Len(a) + j
      BY <1>1, <2>2
    <3> HIDE DEF j
    <3>2. new[i] = s[j]
      BY <1>1, <3>1
    <3> QED
      BY <1>2, <3>1, <3>2 DEF LogOK
  <2> QED
    BY <2>1, <2>2
<1>3. LogOK(new, n)
  BY <1>1, <1>2 DEF LogOK
<1> QED
  BY <1>3 DEF new

LEMMA SpiltLogOK ==
  ASSUME NEW s, NEW n, LogOK(s, n), s # <<>>
  PROVE  /\ LogOK(Tail(s), n)
         /\ Head(s) \in LogRecord /\ (IsData(Head(s)) => Head(s).rid.pageId < n)
<1>1. /\ Head(s) \in LogRecord /\ Tail(s) \in Seq(LogRecord) /\ Len(s) \in Nat \ {0}
      /\ Len(Tail(s)) = Len(s) - 1 /\ Head(s) = s[1]
      /\ \A i \in 1 .. Len(Tail(s)) : Tail(s)[i] = s[i + 1]
  BY HeadTailProperties, EmptySeq DEF LogOK
<1>2. \A i \in 1 .. Len(Tail(s)) : i + 1 \in 1 .. Len(s)
  BY <1>1
<1>3. 1 \in 1 .. Len(s)
  BY <1>1
<1> QED
  BY <1>1, <1>2, <1>3 DEF LogOK

LEMMA BoundType == MaxTx \in Nat
  BY RecoveryAssumption

\* A slot number that is cut is that of another slot.
LEMMA SlotCut ==
  ASSUME NEW rec \in DataRecord, NEW n \in Cut(rec.rid.slotNum) \cup {rec.rid.slotNum}
  PROVE  n \in Heap!Slot
<1>1. rec.rid.slotNum \in 0 .. MaxSlots - 1 /\ MaxSlots \in Nat
  BY RecoveryAssumption DEF DataRecord, Heap!RecordID, Heap!Slot
<1>2. n \in 1 .. rec.rid.slotNum - 1 \/ n = rec.rid.slotNum
  BY DEF Cut
<1> QED
  BY <1>1, <1>2 DEF Heap!Slot

\* What may be left of a line: garbage; a record of the same page, of the same slot
\* unless it is one of those that mislead or cannot be replayed; or a COMMIT or ABORT of
\* an earlier transaction.
LEMMA FragmentType ==
  ASSUME NEW rec \in LogRecord, NEW frag \in Fragments(rec)
  PROVE  /\ frag \in LogRecord
         /\ frag # Garbage => frag.op = rec.op
         /\ frag # Garbage /\ IsData(rec) =>
              frag \in DataRecord /\ frag.tx = rec.tx /\ frag.rid.pageId = rec.rid.pageId
         /\ frag # Garbage /\ rec.op = "INSERT" => frag.old = rec.old
         /\ frag # Garbage /\ rec.op = "UPDATE" => frag.rid = rec.rid /\ frag.old = rec.old
         /\ frag # Garbage /\ ~IsData(rec) => frag.tx \in 1 .. rec.tx - 1 /\ ~IsData(frag)
<1>1. CASE frag = Garbage
  BY <1>1 DEF LogRecord
<1>2. CASE frag # Garbage /\ rec.op = "INSERT"
  <2>1. rec \in DataRecord /\ IsData(rec)
    BY <1>2, DataType DEF IsData
  <2>2. PICK n \in Cut(rec.rid.slotNum) \cup {rec.rid.slotNum} :
          frag = [rec EXCEPT !.new = Zero, !.rid.slotNum = n]
    BY <1>2 DEF Fragments
  <2>3. n \in Heap!Slot
    BY <2>1, <2>2, SlotCut
  <2>4. frag \in DataRecord /\ frag.op = rec.op /\ frag.tx = rec.tx /\ frag.old = rec.old
        /\ frag.rid.pageId = rec.rid.pageId
    BY <2>1, <2>2, <2>3 DEF DataRecord, Datum, Heap!RecordID
  <2> QED
    BY <1>2, <2>1, <2>4 DEF LogRecord
<1>3. CASE frag # Garbage /\ rec.op = "UPDATE"
  <2>1. rec \in DataRecord /\ IsData(rec)
    BY <1>3, DataType DEF IsData
  <2>2. frag = [rec EXCEPT !.new = Zero]
    BY <1>3 DEF Fragments
  <2>3. frag \in DataRecord /\ frag.op = rec.op /\ frag.tx = rec.tx /\ frag.old = rec.old
        /\ frag.rid = rec.rid
    BY <2>1, <2>2 DEF DataRecord, Datum
  <2> QED
    BY <1>3, <2>1, <2>3 DEF LogRecord
<1>4. CASE frag # Garbage /\ rec.op = "DELETE"
  <2>1. rec \in DataRecord /\ IsData(rec)
    BY <1>4, DataType DEF IsData
  <2>2. \/ \E v \in Value \cup {Misfit} : frag = [rec EXCEPT !.old = v]
        \/ \E n \in Cut(rec.rid.slotNum) : frag = [rec EXCEPT !.old = Misfit, !.rid.slotNum = n]
    BY <1>4 DEF Fragments
  <2>3. \A n \in Cut(rec.rid.slotNum) : n \in Heap!Slot
    BY <2>1, SlotCut
  <2>4. ASSUME NEW v \in Value \cup {Misfit}, frag = [rec EXCEPT !.old = v]
        PROVE  frag \in DataRecord /\ frag.op = rec.op /\ frag.tx = rec.tx
               /\ frag.rid.pageId = rec.rid.pageId
    BY <2>1, <2>4 DEF DataRecord, Datum
  <2>5. ASSUME NEW n \in Cut(rec.rid.slotNum), frag = [rec EXCEPT !.old = Misfit, !.rid.slotNum = n]
        PROVE  frag \in DataRecord /\ frag.op = rec.op /\ frag.tx = rec.tx
               /\ frag.rid.pageId = rec.rid.pageId
    <3>1. n \in Heap!Slot
      BY <2>3
    <3> QED
      BY <2>1, <2>5, <3>1 DEF DataRecord, Datum, Heap!RecordID
  <2>6. frag \in DataRecord /\ frag.op = rec.op /\ frag.tx = rec.tx
        /\ frag.rid.pageId = rec.rid.pageId
    BY <2>2, <2>4, <2>5
  <2> QED
    BY <1>4, <2>1, <2>6 DEF LogRecord
<1>5. CASE frag # Garbage /\ rec.op \in {"COMMIT", "ABORT"}
  <2>1. rec \in EndRecord /\ ~IsData(rec)
    BY <1>5 DEF LogRecord, DataRecord, Garbage, IsData
  <2>2. PICK n \in Cut(rec.tx) : frag = [rec EXCEPT !.tx = n]
    BY <1>5 DEF Fragments
  <2>3. rec.tx \in TxId /\ n \in 1 .. rec.tx - 1
    BY <2>1, <2>2 DEF EndRecord, Cut
  <2>4. n \in TxId
    BY <2>3, BoundType DEF TxId
  <2>5. frag \in EndRecord /\ frag.op = rec.op /\ frag.tx = n
    BY <2>1, <2>2, <2>4 DEF EndRecord
  <2> QED
    BY <1>5, <2>1, <2>3, <2>5 DEF LogRecord, IsData
<1>6. CASE frag # Garbage /\ rec = Garbage
  <2>1. rec.tx = 0 /\ rec.op = "garbage"
    BY <1>6 DEF Garbage
  <2>2. PICK n \in Cut(rec.tx) : TRUE
    BY <1>6, <2>1 DEF Fragments
  <2> QED
    BY <2>1, <2>2 DEF Cut
<1>7. rec = Garbage \/ rec.op \in {"INSERT", "UPDATE", "DELETE", "COMMIT", "ABORT"}
  BY DEF LogRecord, DataRecord, EndRecord
<1> QED
  BY ONLY <1>1, <1>2, <1>3, <1>4, <1>5, <1>6, <1>7

LEMMA InitBase == Init => Base
<1> SUFFICES ASSUME Init PROVE Base
  OBVIOUS
<1>1. HP!IInv
  <2>1. HP!Init
    BY SameHeap DEF Init, Heap!Init, HP!Init, Heap!Pool!Init, HP!Pool!Init
  <2> QED
    BY <2>1, HP!InitIInv, RecoveryAssumption
<1>2. VarsOK
  BY DEF Init, VarsOK
<1>3. TxOK
  BY BoundType DEF Init, TxOK
<1>4. LogOK(logFile_, pageCount) /\ LogOK(logBuf, pageCount)
  BY EmptyLogOK DEF Init
<1>5. IsRows(truth)
  BY RowsAreRows DEF Init
<1> QED
  BY <1>1, <1>2, <1>3, <1>4, <1>5, InitLogInv DEF Base

LEMMA ReplayEffects ==
  ASSUME HP!IInv, NEW s \in Step,
         CASE s.do = "insertAt" -> Heap!InsertAt(s.rid, s.value)
           [] s.do = "deleteAt" -> Heap!DeleteAt(s.rid)
           [] s.do = "updateAt" -> Heap!UpdateAt(s.rid, s.value)
  PROVE  /\ content' = [content EXCEPT ![s.rid.pageId] = ReplayOn(@, s)]
         /\ durable' = durable /\ pageCount' = pageCount
<1>1. s.do \in {"insertAt", "deleteAt", "updateAt"}
  BY DEF Step
<1>2. CASE s.do = "insertAt"
  BY <1>2 DEF Heap!InsertAt, Heap!ChangeSlot, Heap!Pool!Write, ReplayOn
<1>3. CASE s.do = "deleteAt"
  BY <1>3 DEF Heap!DeleteAt, Heap!ChangeSlot, Heap!Pool!Write, ReplayOn
<1>4. CASE s.do = "updateAt"
  BY <1>4 DEF Heap!UpdateAt, Heap!ChangeSlot, Heap!Pool!Write, ReplayOn
<1> QED
  BY <1>1, <1>2, <1>3, <1>4

LEMMA ReplayBase ==
  ASSUME Base, ReplayStep
  PROVE  HP!IInv' /\ TxOK' /\ VarsOK' /\ durable' = durable /\ pageCount' = pageCount
<1>1. PICK j \in Visits(logFile_) :
        /\ CanReplay(StepAt(logFile_, j))
        /\ LET s == StepAt(logFile_, j) IN
             CASE s.do = "insertAt" -> Heap!InsertAt(s.rid, s.value)
               [] s.do = "deleteAt" -> Heap!DeleteAt(s.rid)
               [] s.do = "updateAt" -> Heap!UpdateAt(s.rid, s.value)
        /\ replayed' = j
  BY DEF ReplayStep
<1> DEFINE s == StepAt(logFile_, j)
<1>2. HP!IInv /\ logFile_ \in Seq(LogRecord) /\ pageCount \in 0 .. MaxPages
  BY HeapTame DEF Base, LogOK
<1>3. s \in Step /\ j \in Nat /\ s.rid.pageId < pageCount
  <2>1. j \in 1 .. 2 * Len(logFile_) /\ Len(logFile_) \in Nat /\ s \in Step
        /\ s.rid = Visited(logFile_, j).rid
    BY <1>2, VisitsType
  <2>2. PICK i \in 1 .. Len(logFile_) : Visited(logFile_, j) = AsRead(logFile_[i])
    <3>1. CASE j <= Len(logFile_)
      BY <2>1, <3>1 DEF Visited
    <3>2. CASE ~(j <= Len(logFile_))
      <4>1. 2 * Len(logFile_) + 1 - j \in 1 .. Len(logFile_)
        BY <2>1, <3>2
      <4> QED
        BY <3>2, <4>1 DEF Visited
    <3> QED
      BY <3>1, <3>2
  <2>3. logFile_[i] \in LogRecord /\ IsData(AsRead(logFile_[i]))
    BY <1>2, <2>2, ElementOfSeq DEF Visits, Replays
  <2>4. IsData(logFile_[i]) /\ AsRead(logFile_[i]).rid = logFile_[i].rid
    BY <2>3, AsReadType
  <2> QED
    BY <2>1, <2>2, <2>4 DEF Base, LogOK
<1> HIDE DEF s
<1>4. /\ content' = [content EXCEPT ![s.rid.pageId] = ReplayOn(@, s)]
      /\ durable' = durable /\ pageCount' = pageCount
  BY <1>1, <1>2, <1>3, ReplayEffects DEF s
<1>5. pageCount' \in 0 .. MaxPages /\ pageCount' >= pageCount /\ s.rid.pageId < pageCount'
  BY <1>2, <1>3, <1>4, RecoveryAssumption
<1>6. HP!IInv'
  BY <1>1, <1>2, <1>3, <1>4, <1>5, ChangeEffect DEF s
<1>7. VarsOK'
  BY <1>1, <1>3 DEF ReplayStep, txVars, logVars, histVars, Base, VarsOK
<1>8. TxOK'
  BY DEF ReplayStep, txVars, Base, TxOK
<1> QED
  BY <1>4, <1>6, <1>7, <1>8

LEMMA StatementBase ==
  ASSUME Base, NEW rec \in DataRecord, Statement(rec), HP!IInv',
         pageCount' >= pageCount, rec.rid.pageId < pageCount'
  PROVE  Base'
<1>1. pageCount \in Nat /\ pageCount' \in Nat
  <2>1. pageCount \in 0 .. MaxPages
    BY HeapTame DEF Base
  <2>2. pageCount' \in 0 .. MaxPages
    BY DEF HP!IInv, HP!TypeOK
  <2> QED
    BY <2>1, <2>2
<1>2. rec \in LogRecord
  BY DEF LogRecord
<1>3. logFile_' = logFile_ /\ (logBuf' = logBuf \/ logBuf' = Append(logBuf, rec))
  <2>1. logBuf' = IF logOpen THEN logBuf \o <<rec>> ELSE logBuf
    BY DEF Statement, Log, Append1
  <2>2. Append(logBuf, rec) = logBuf \o <<rec>>
    BY <1>2, AppendIsConcat DEF Base, LogOK
  <2> QED
    BY <2>1, <2>2 DEF Statement, Log
<1>4. LogOK(logFile_, pageCount') /\ LogOK(logBuf, pageCount')
  BY <1>1, GrownLogOK DEF Base
<1>5. LogOK(Append(logBuf, rec), pageCount')
  BY <1>2, <1>4, AppendedLogOK
<1>6. LogOK(logFile_, pageCount)' /\ LogOK(logBuf, pageCount)'
  BY <1>3, <1>4, <1>5
<1>7. VarsOK' /\ IsRows(truth)'
  BY DEF Statement, Log, txVars, histVars, Base, VarsOK
<1>8. LogInv'
  BY StatementKeeps DEF Base
<1>9. TxOK'
  BY DEF Statement, txVars, Base, TxOK
<1> QED
  BY <1>6, <1>7, <1>8, <1>9 DEF Base

LEMMA LoggedType ==
  ASSUME Base, NEW r \in Heap!RecordID, NEW op \in {"INSERT", "DELETE", "UPDATE"},
         NEW old \in Datum, NEW new \in Datum, currentTxId_ # 0
  PROVE  LET rec == Logged(op, r, old, new) IN
         /\ rec \in DataRecord /\ IsData(rec) /\ rec.rid = r /\ rec.tx = currentTxId_
         /\ rec.op = op /\ rec.old = old /\ rec.new = new
<1>1. currentTxId_ \in TxId
  BY BoundType DEF Base, TxOK, TxId
<1> QED
  BY <1>1 DEF Logged, DataRecord, IsData

LEMMA ChangeBase ==
  ASSUME Base, NEW r \in Heap!RecordID,
         \/ \E v \in Value : Insert(r, v) \/ Update(r, v)
         \/ Delete(r) \/ RefusedUpdate(r)
  PROVE  Base'
<1>1. HP!IInv /\ Value \subseteq Datum /\ Zero \in Datum /\ Misfit \in Datum /\ Old(r) \in Datum
  BY OldIsDatum DEF Base, Datum
<1>2. currentTxId_ # 0
  BY DEF Insert, Update, Delete, RefusedUpdate, Statement
<1>3. pageCount \in 0 .. MaxPages
  BY <1>1, HeapTame
<1>4. ASSUME NEW v \in Value, Insert(r, v) PROVE Base'
  <2>1. HP!IInv' /\ pageCount' >= pageCount /\ r.pageId < pageCount'
    BY <1>1, <1>4, InsertEffect DEF Insert
  <2> QED
    BY <1>1, <1>2, <1>4, <2>1, LoggedType, StatementBase DEF Insert
<1>5. ASSUME NEW v \in Value, Update(r, v) PROVE Base'
  <2>1. HP!IInv' /\ pageCount' = pageCount /\ r.pageId < pageCount
    BY <1>1, <1>5, UpdateEffect DEF Update
  <2>2. pageCount' >= pageCount
    BY <1>3, <2>1
  <2> QED
    BY <1>1, <1>2, <1>5, <2>1, <2>2, LoggedType, StatementBase DEF Update
<1>6. CASE Delete(r)
  <2>1. HP!IInv' /\ pageCount' = pageCount /\ r.pageId < pageCount
    BY <1>1, <1>6, DeleteEffect DEF Delete
  <2>2. pageCount' >= pageCount
    BY <1>3, <2>1
  <2> QED
    BY <1>1, <1>2, <1>6, <2>1, <2>2, LoggedType, StatementBase DEF Delete
<1>7. CASE RefusedUpdate(r)
  <2>1. HP!IInv' /\ pageCount' = pageCount
    BY <1>1, <1>7, IdleHeap DEF RefusedUpdate
  <2>2. r.pageId < pageCount /\ pageCount' >= pageCount
    BY <1>3, <1>7, <2>1 DEF RefusedUpdate, Heap!InFile
  <2> QED
    BY <1>1, <1>2, <1>7, <2>1, <2>2, LoggedType, StatementBase DEF RefusedUpdate
<1> QED
  BY <1>4, <1>5, <1>6, <1>7

LEMMA GoneBase ==
  ASSUME Base, NEW pages, NEW log, NEW mishaps \in SUBSET Mishaps, Gone(pages, log, mishaps),
         HP!IInv', pageCount' = pageCount, LogOK(log, pageCount)
  PROVE  Base'
<1>1. LogOK(logFile_, pageCount)' /\ LogOK(logBuf, pageCount)'
  BY EmptyLogOK DEF Gone
<1>2. IsRows(truth)'
  BY RowsAreRows DEF Gone, Base
<1>3. spoilt' \subseteq Mishaps
  BY DEF Gone, Base, VarsOK, Mishaps
<1>4. VarsOK'
  BY <1>3 DEF Gone, VarsOK
<1>5. TxOK'
  <2>1. currentTxId_' = 0 /\ nextTxId_' = 1
    BY DEF Gone
  <2> QED
    BY <2>1, BoundType DEF TxOK
<1>6. LogInv'
  BY GoneKeeps
<1> QED
  BY <1>1, <1>2, <1>4, <1>5, <1>6 DEF Base

LEMMA NextBase == Base /\ [Next]_vars => Base'
<1> SUFFICES ASSUME Base, [Next]_vars
             PROVE  Base'
  OBVIOUS
<1>1. /\ HP!IInv /\ LogOK(logFile_, pageCount) /\ LogOK(logBuf, pageCount) /\ pageCount \in 0 .. MaxPages
      /\ VarsOK /\ TxOK /\ IsRows(truth) /\ LogInv
  BY HeapTame DEF Base
<1>2. LogInv'
  BY <1>1, NextLogInv
<1>3. CASE Start
  <2>1. HP!IInv' /\ pageCount' = pageCount
    BY <1>1, <1>3, IdleHeap DEF Start, heapVars
  <2>2. VarsOK' /\ logFile_' = logFile_ /\ logBuf' = logBuf /\ truth' = truth
    BY <1>1, <1>3 DEF Start, txVars, histVars, VarsOK
  <2>3. TxOK'
    BY <1>1, <1>3 DEF Start, txVars, TxOK
  <2> QED
    BY <1>1, <1>2, <2>1, <2>3, <2>2 DEF Base
<1>4. CASE ReplayStep
  <2>1. HP!IInv' /\ TxOK' /\ VarsOK' /\ pageCount' = pageCount
    BY <1>4, ReplayBase
  <2>2. logFile_' = logFile_ /\ logBuf' = logBuf /\ truth' = truth
    BY <1>4 DEF ReplayStep, logVars, histVars
  <2> QED
    BY <1>1, <1>2, <2>1, <2>2 DEF Base
<1>5. CASE FinishRecovery
  <2>1. HP!IInv' /\ pageCount' = pageCount
    BY <1>1, <1>5, IdleHeap DEF FinishRecovery, heapVars
  <2>2. VarsOK' /\ logFile_' = <<>> /\ logBuf' = logBuf /\ truth' = truth
    BY <1>1, <1>5 DEF FinishRecovery, txVars, VarsOK, Mishaps
  <2>3. TxOK'
    BY <1>1, <1>5 DEF FinishRecovery, txVars, TxOK
  <2> QED
    BY <1>1, <1>2, <2>1, <2>3, <2>2, EmptyLogOK DEF Base
<1>6. CASE Begin
  <2>1. HP!IInv' /\ pageCount' = pageCount
    BY <1>1, <1>6, IdleHeap DEF Begin, heapVars
  <2>2. VarsOK'
    BY <1>1, <1>6 DEF Begin, logVars, VarsOK
  <2>3. logFile_' = logFile_ /\ logBuf' = logBuf /\ truth' = truth
    BY <1>6 DEF Begin, logVars
  <2>4. TxOK'
    BY <1>1, <1>6, BoundType DEF Begin, Idle, TxOK
  <2> QED
    BY <1>1, <1>2, <2>1, <2>4, <2>2, <2>3 DEF Base
<1>7. ASSUME NEW op \in {"COMMIT", "ABORT"}, LogEnd(op) PROVE Base'
  <2> DEFINE rec == [op |-> op, tx |-> currentTxId_]
  <2>1. HP!IInv' /\ pageCount' = pageCount
    BY <1>1, <1>7, IdleHeap DEF LogEnd, heapVars
  <2>2. VarsOK'
    BY <1>1, <1>7 DEF LogEnd, Log, VarsOK, Mishaps
  <2>3. rec \in LogRecord /\ ~IsData(rec)
    <3>1. currentTxId_ \in TxId
      BY <1>1, <1>7, BoundType DEF LogEnd, TxOK, TxId
    <3> QED
      BY <3>1 DEF LogRecord, EndRecord, IsData
  <2>4. logFile_' = logFile_ /\ truth' = truth
    BY <1>7 DEF LogEnd, Log
  <2>5. logBuf' = IF logOpen THEN logBuf \o <<rec>> ELSE logBuf
    BY <1>7 DEF LogEnd, Log, Append1
  <2> HIDE DEF rec
  <2>6. Append(logBuf, rec) = logBuf \o <<rec>>
    BY <1>1, <2>3, AppendIsConcat DEF LogOK
  <2>7. LogOK(Append(logBuf, rec), pageCount)
    BY <1>1, <2>3, AppendedLogOK
  <2>8. LogOK(logBuf, pageCount)'
    BY <1>1, <2>1, <2>5, <2>6, <2>7
  <2>9. TxOK'
    BY <1>1, <1>7 DEF LogEnd, TxOK
  <2> QED
    BY <1>1, <1>2, <2>1, <2>9, <2>2, <2>4, <2>8 DEF Base
<1>8. CASE FlushEnd
  <2>1. HP!IInv' /\ pageCount' = pageCount
    BY <1>1, <1>8, IdleHeap DEF FlushEnd, heapVars
  <2>2. VarsOK' /\ truth' = truth
    BY <1>1, <1>8 DEF FlushEnd, FlushLog, histVars, VarsOK
  <2>3. logFile_' = logFile_ \o logBuf /\ logBuf' = <<>>
    BY <1>8 DEF FlushEnd, FlushLog
  <2>4. TxOK'
    BY <1>1, <1>8 DEF FlushEnd, TxOK
  <2> QED
    BY <1>1, <1>2, <2>1, <2>4, <2>2, <2>3, EmptyLogOK, JoinedLogOK DEF Base
<1>9. CASE Acknowledge
  <2>1. HP!IInv' /\ pageCount' = pageCount
    BY <1>1, <1>9, IdleHeap DEF Acknowledge, heapVars
  <2>2. VarsOK'
    <3>1. currentTxId_ # 0
      BY <1>1, <1>9 DEF Acknowledge, LogInv, EndsOpen
    <3>2. currentTxId_ \in TxId
      BY <1>1, <3>1, BoundType DEF TxOK, TxId
    <3>3. committed' \subseteq TxId
      BY <1>1, <1>9, <3>2 DEF Acknowledge, VarsOK
    <3> QED
      BY <1>1, <1>9, <3>3 DEF Acknowledge, logVars, VarsOK
  <2>3. logFile_' = logFile_ /\ logBuf' = logBuf
    BY <1>9 DEF Acknowledge, logVars
  <2>4. IsRows(truth)'
    BY <1>1, <1>9, RowsAreRows DEF Acknowledge
  <2>5. TxOK'
    <3>1. currentTxId_' = 0 /\ nextTxId_' = nextTxId_
      BY <1>9 DEF Acknowledge
    <3> QED
      BY <1>1, <3>1, BoundType DEF TxOK
  <2> QED
    BY <1>1, <1>2, <2>1, <2>5, <2>2, <2>3, <2>4 DEF Base
<1>10. CASE Spill
  <2>1. HP!IInv' /\ pageCount' = pageCount
    BY <1>1, <1>10, IdleHeap DEF Spill, heapVars
  <2>2. VarsOK' /\ truth' = truth
    BY <1>1, <1>10 DEF Spill, txVars, histVars, VarsOK
  <2>3. logBuf # <<>> /\ logFile_' = Append(logFile_, Head(logBuf)) /\ logBuf' = Tail(logBuf)
    BY <1>10 DEF Spill
  <2>4. TxOK'
    BY <1>1, <1>10 DEF Spill, txVars, TxOK
  <2> QED
    BY <1>1, <1>2, <2>1, <2>4, <2>2, <2>3, SpiltLogOK, AppendedLogOK DEF Base
<1>11. ASSUME NEW p \in Heap!Page, WriteBack(p) PROVE Base'
  <2>1. HP!IInv' /\ pageCount' = pageCount
    BY <1>1, <1>11, PersistEffect DEF WriteBack
  <2>2. VarsOK'
    BY <1>1, <1>11 DEF WriteBack, txVars, logVars, VarsOK, Mishaps
  <2>3. logFile_' = logFile_ /\ logBuf' = logBuf /\ truth' = truth
    BY <1>11 DEF WriteBack, logVars
  <2>4. TxOK'
    BY <1>1, <1>11 DEF WriteBack, txVars, TxOK
  <2> QED
    BY <1>1, <1>2, <2>1, <2>4, <2>2, <2>3 DEF Base
<1>12. CASE Crash
  BY <1>1, <1>12, LossEffect, GoneBase DEF Crash
<1>13. CASE Shutdown
  <2>1. HP!IInv' /\ pageCount' = pageCount
    BY <1>1, <1>13, PersistEffect DEF Shutdown
  <2>2. LogOK(logFile_ \o logBuf, pageCount)
    BY <1>1, JoinedLogOK
  <2> QED
    BY <1>13, <2>1, <2>2, GoneBase DEF Shutdown
<1>14. ASSUME NEW rec, CrashInLine(rec) PROVE Base'
  <2>1. HP!IInv' /\ pageCount' = pageCount
    BY <1>1, <1>14, LossEffect DEF CrashInLine
  <2>2. Head(logBuf) \in LogRecord /\ (IsData(Head(logBuf)) => Head(logBuf).rid.pageId < pageCount)
    BY <1>1, <1>14, SpiltLogOK DEF CrashInLine
  <2>3. rec \in LogRecord /\ (IsData(rec) => rec.rid.pageId < pageCount)
    <3>1. /\ rec \in LogRecord
          /\ rec # Garbage => rec.op = Head(logBuf).op
          /\ rec # Garbage /\ IsData(Head(logBuf)) => rec.rid.pageId = Head(logBuf).rid.pageId
      BY <1>14, <2>2, FragmentType DEF CrashInLine
    <3> QED
      BY <2>2, <3>1 DEF Garbage, IsData
  <2>4. LogOK(Append(logFile_, rec), pageCount)
    BY <1>1, <2>3, AppendedLogOK
  <2>5. (IF Misleads(rec, Head(logBuf)) THEN {"cut"} ELSE {}) \in SUBSET Mishaps
    BY DEF Mishaps
  <2> QED
    BY <1>14, <2>1, <2>4, <2>5, GoneBase DEF CrashInLine
<1>15. CASE UNCHANGED vars
  <2>1. UNCHANGED heapVars
    BY <1>15 DEF vars
  <2>2. HP!IInv' /\ pageCount' = pageCount
    BY <1>1, <2>1, IdleHeap
  <2>3. VarsOK' /\ TxOK' /\ logFile_' = logFile_ /\ logBuf' = logBuf /\ truth' = truth
    BY <1>1, <1>15 DEF vars, txVars, logVars, histVars, VarsOK, TxOK
  <2> QED
    BY <1>1, <1>2, <2>2, <2>3 DEF Base
<1> QED
  BY <1>3, <1>4, <1>5, <1>6, <1>7, <1>8, <1>9, <1>10, <1>11, <1>12, <1>13, <1>14, <1>15,
     ChangeBase DEF Next

\* TypeOK: log file and stream buffer hold only records of slots the heap has, and
\* the pages stay pages, whatever logAppend, recover() and the crashes do.
THEOREM TypeCorrect == Spec => []TypeOK
<1> QED
  BY InitBase, NextBase, BaseType, PTL DEF Spec

-----------------------------------------------------------------------------
(* What is acknowledged is in the log file.                                 *)

Flushed(op) == CASE op = "COMMIT" -> "COMMIT flushed" [] op = "ABORT" -> "ABORT flushed"

\* The transaction that ends has its last record in the log, and in the file once that
\* has been flushed.
EndLogged ==
  phase = "serving" /\ logOpen =>
    \A op \in {"COMMIT", "ABORT"} :
      /\ ending = op => currentTxId_ \in Ended(logFile_, op) \cup Ended(logBuf, op)
      /\ ending = Flushed(op) => currentTxId_ \in Ended(logFile_, op)

AckInv == AcknowledgedIsLogged /\ EndLogged

LEMMA RecordOps ==
  ASSUME NEW rec \in LogRecord
  PROVE  rec.op \notin {"no", "COMMIT flushed", "ABORT flushed"}
<1>1. rec.op \in {"INSERT", "DELETE", "UPDATE", "COMMIT", "ABORT", "garbage"}
  BY DEF LogRecord, DataRecord, EndRecord, Garbage
<1> QED
  BY <1>1

LEMMA NoEntries == DOMAIN <<>> = {}
<1>1. <<>> \in Seq({}) /\ Len(<<>>) = 0
  OBVIOUS
<1>2. DOMAIN <<>> = 1 .. 0
  BY <1>1
<1> QED
  BY <1>2

LEMMA JoinedEnded ==
  ASSUME NEW a \in Seq(LogRecord), NEW s \in Seq(LogRecord), NEW op
  PROVE  Ended(a \o s, op) = Ended(a, op) \cup Ended(s, op)
<1> DEFINE new == a \o s
<1>1. /\ new \in Seq(LogRecord)
      /\ Len(new) = Len(a) + Len(s) /\ Len(a) \in Nat /\ Len(s) \in Nat
      /\ \A i \in 1 .. Len(a) : new[i] = a[i]
      /\ \A i \in 1 .. Len(s) : new[Len(a) + i] = s[i]
  BY Joined
<1> HIDE DEF new
<1>2. ASSUME NEW x, x \in Ended(new, op)
      PROVE  x \in Ended(a, op) \/ x \in Ended(s, op)
  <2>1. PICK i \in 1 .. Len(new) : new[i].op = op /\ new[i].tx = x
    BY <1>1, <1>2 DEF Ended
  <2>2. CASE i \in 1 .. Len(a)
    BY <1>1, <2>1, <2>2, EndedOf
  <2>3. CASE i \notin 1 .. Len(a)
    <3> DEFINE k == i - Len(a)
    <3>1. k \in 1 .. Len(s) /\ Len(a) + k = i
      BY <1>1, <2>3
    <3> HIDE DEF k
    <3>2. new[i] = s[k]
      BY <1>1, <3>1
    <3> QED
      BY <2>1, <3>1, <3>2, EndedOf
  <2> QED
    BY <2>2, <2>3
<1>3. ASSUME NEW x, x \in Ended(a, op) \/ x \in Ended(s, op)
      PROVE  x \in Ended(new, op)
  <2>1. CASE x \in Ended(a, op)
    <3>1. PICK i \in 1 .. Len(a) : a[i].op = op /\ a[i].tx = x
      BY <2>1, EndedOf
    <3>2. i \in 1 .. Len(new) /\ new[i] = a[i]
      BY <1>1
    <3> QED
      BY <1>1, <3>1, <3>2, EndedOf
  <2>2. CASE x \in Ended(s, op)
    <3>1. PICK i \in 1 .. Len(s) : s[i].op = op /\ s[i].tx = x
      BY <2>2, EndedOf
    <3>2. Len(a) + i \in 1 .. Len(new) /\ new[Len(a) + i] = s[i]
      BY <1>1
    <3> QED
      BY <1>1, <3>1, <3>2, EndedOf
  <2> QED
    BY <1>3, <2>1, <2>2
<1>4. Ended(new, op) = Ended(a, op) \cup Ended(s, op)
  BY <1>2, <1>3
<1> QED
  BY <1>4 DEF new

LEMMA SpiltEnded ==
  ASSUME NEW a \in Seq(LogRecord), NEW s \in Seq(LogRecord), s # <<>>, NEW op
  PROVE  /\ Ended(Append(a, Head(s)), op) \cup Ended(Tail(s), op) = Ended(a, op) \cup Ended(s, op)
         /\ Ended(a, op) \subseteq Ended(Append(a, Head(s)), op)
<1>1. PICK one, tl :
        /\ one = Append(a, Head(s)) /\ tl = Tail(s)
        /\ one \o tl = a \o s
        /\ one \in Seq(LogRecord) /\ tl \in Seq(LogRecord)
  BY JoinedSpill
<1>2. Ended(a, op) \subseteq Ended(one, op)
  <2>1. Head(s) \in LogRecord
    OBVIOUS
  <2> QED
    BY <1>1, <2>1, AppendLog
<1>3. Ended(one \o tl, op) = Ended(one, op) \cup Ended(tl, op)
  <2>1. one \in Seq(LogRecord) /\ tl \in Seq(LogRecord)
    BY <1>1
  <2> QED
    BY ONLY <2>1, JoinedEnded
<1>4. Ended(a \o s, op) = Ended(a, op) \cup Ended(s, op)
  BY JoinedEnded
<1>5. Ended(one, op) \cup Ended(tl, op) = Ended(a, op) \cup Ended(s, op)
  BY <1>1, <1>3, <1>4
<1> QED
  BY <1>1, <1>2, <1>5

\* Steps that end no transaction and leave the log alone.
LEMMA AckStays ==
  ASSUME AckInv, UNCHANGED <<phase, txVars, logVars, committed>>
  PROVE  AckInv'
  BY DEF AckInv, AcknowledgedIsLogged, EndLogged, txVars, logVars

\* A record of the open transaction is logged.
LEMMA AckAppend ==
  ASSUME Base, AckInv, NEW rec \in LogRecord, rec.tx = currentTxId_,
         logBuf' = IF logOpen THEN logBuf \o <<rec>> ELSE logBuf,
         UNCHANGED <<phase, currentTxId_, nextTxId_, logFile_, logOpen, committed>>,
         ending = "no", ending' \in {"no", rec.op}
  PROVE  AckInv'
<1> SUFFICES ASSUME phase = "serving", logOpen PROVE AckInv'
  BY DEF AckInv, AcknowledgedIsLogged, EndLogged
<1>1. logBuf \in Seq(LogRecord)
  BY DEF Base, LogOK
<1> DEFINE new == Append(logBuf, rec)
<1>2. logBuf' = new
  BY <1>1, AppendIsConcat
<1>3. /\ Len(new) = Len(logBuf) + 1 /\ Len(logBuf) \in Nat /\ new \in Seq(LogRecord)
      /\ \A i \in 1 .. Len(logBuf) : new[i] = logBuf[i]
      /\ new[Len(logBuf) + 1] = rec
      /\ \A op : Ended(new, op) = Ended(logBuf, op) \cup IF rec.op = op THEN {rec.tx} ELSE {}
  BY <1>1, AppendLog
<1> HIDE DEF new
<1>4. \A i \in DOMAIN new : new[i].tx = currentTxId_
  <2> SUFFICES ASSUME NEW i \in 1 .. Len(logBuf) + 1 PROVE new[i].tx = currentTxId_
    BY <1>3
  <2>1. i \in 1 .. Len(logBuf) \/ i = Len(logBuf) + 1
    BY <1>3
  <2>2. \A k \in 1 .. Len(logBuf) : logBuf[k].tx = currentTxId_
    BY <1>1 DEF AckInv, AcknowledgedIsLogged
  <2> QED
    BY <1>3, <2>1, <2>2
<1>5. AcknowledgedIsLogged'
  BY <1>2, <1>4 DEF AckInv, AcknowledgedIsLogged
<1>6. EndLogged'
  <2> SUFFICES ASSUME NEW op \in {"COMMIT", "ABORT"}
               PROVE  /\ ending' = op => currentTxId_ \in Ended(logFile_, op) \cup Ended(new, op)
                      /\ ending' # Flushed(op)
    BY <1>2 DEF EndLogged
  <2>1. ending' # Flushed(op)
    BY RecordOps DEF Flushed
  <2>2. ending' = op => rec.op = op
    OBVIOUS
  <2>3. rec.op = op => currentTxId_ \in Ended(new, op)
    BY <1>3
  <2> QED
    BY <2>1, <2>2, <2>3
<1> QED
  BY <1>5, <1>6 DEF AckInv

LEMMA AckBegin ==
  ASSUME Base, AckInv, Begin
  PROVE  AckInv'
<1>1. /\ ending = "no" /\ ending' = "no" /\ currentTxId_ = 0
      /\ currentTxId_' = nextTxId_ /\ nextTxId_' = nextTxId_ + 1
      /\ UNCHANGED <<phase, logFile_, logBuf, logOpen, committed>>
  BY DEF Begin, Idle, logVars
<1>2. logBuf = <<>> /\ nextTxId_ \in Int
  BY <1>1, BoundType DEF Base, LogInv, NothingBuffered, TxOK
<1>3. DOMAIN logBuf' = {}
  BY <1>1, <1>2, NoEntries
<1>4. (1 .. nextTxId_' - 1) \ {nextTxId_} \subseteq (1 .. nextTxId_ - 1) \ {0}
  BY <1>1, <1>2
<1>5. AcknowledgedIsLogged'
  BY <1>1, <1>3, <1>4 DEF AckInv, AcknowledgedIsLogged
<1>6. EndLogged'
  BY <1>1 DEF EndLogged, Flushed
<1> QED
  BY <1>5, <1>6 DEF AckInv

LEMMA AckFlush ==
  ASSUME Base, AckInv, FlushEnd
  PROVE  AckInv'
<1>1. /\ \/ ending = "COMMIT" /\ ending' = "COMMIT flushed"
         \/ ending = "ABORT"  /\ ending' = "ABORT flushed"
      /\ logFile_' = logFile_ \o logBuf /\ logBuf' = <<>>
      /\ UNCHANGED <<phase, currentTxId_, nextTxId_, logOpen, committed>>
  BY DEF FlushEnd, FlushLog, histVars
<1>2. \A op : Ended(logFile_', op) = Ended(logFile_, op) \cup Ended(logBuf, op)
  BY <1>1, JoinedEnded DEF Base, LogOK
<1>3. DOMAIN logBuf' = {}
  BY <1>1, NoEntries
<1>4. AcknowledgedIsLogged'
  BY <1>1, <1>2, <1>3 DEF AckInv, AcknowledgedIsLogged
<1>5. EndLogged'
  BY <1>1, <1>2 DEF AckInv, EndLogged, Flushed
<1> QED
  BY <1>4, <1>5 DEF AckInv

LEMMA AckAcknowledge ==
  ASSUME Base, AckInv, Acknowledge
  PROVE  AckInv'
<1>1. /\ ending \in {"COMMIT flushed", "ABORT flushed"}
      /\ committed' = IF ending = "COMMIT flushed" THEN committed \cup {currentTxId_} ELSE committed
      /\ currentTxId_' = 0 /\ ending' = "no"
      /\ UNCHANGED <<phase, nextTxId_, logFile_, logBuf, logOpen>>
  BY DEF Acknowledge, logVars
<1>2. logBuf = <<>>
  BY <1>1 DEF Base, LogInv, FlushedIsEmpty
<1>3. DOMAIN logBuf' = {}
  BY <1>1, <1>2, NoEntries
<1>4. ASSUME phase = "serving", logOpen
      PROVE  /\ committed' \subseteq Ended(logFile_, "COMMIT")
             /\ (1 .. nextTxId_ - 1) \ committed' \subseteq Ended(logFile_, "ABORT")
  <2>1. /\ committed \subseteq Ended(logFile_, "COMMIT")
        /\ (1 .. nextTxId_ - 1) \ (committed \cup {currentTxId_}) \subseteq Ended(logFile_, "ABORT")
    BY <1>4 DEF AckInv, AcknowledgedIsLogged
  <2>2. CASE ending = "COMMIT flushed"
    BY <1>1, <1>4, <2>1, <2>2 DEF AckInv, EndLogged, Flushed
  <2>3. CASE ending = "ABORT flushed"
    BY <1>1, <1>4, <2>1, <2>3 DEF AckInv, EndLogged, Flushed
  <2> QED
    BY <1>1, <2>2, <2>3
<1>5. AcknowledgedIsLogged'
  BY <1>1, <1>3, <1>4 DEF AcknowledgedIsLogged
<1>6. EndLogged'
  BY <1>1 DEF EndLogged, Flushed
<1> QED
  BY <1>5, <1>6 DEF AckInv

LEMMA AckSpill ==
  ASSUME Base, AckInv, Spill
  PROVE  AckInv'
<1>1. /\ logBuf # <<>> /\ logFile_' = Append(logFile_, Head(logBuf)) /\ logBuf' = Tail(logBuf)
      /\ UNCHANGED <<phase, ending, currentTxId_, nextTxId_, logOpen, committed>>
  BY DEF Spill, txVars, histVars
<1>2. logFile_ \in Seq(LogRecord) /\ logBuf \in Seq(LogRecord)
  BY DEF Base, LogOK
<1>3. logFile_' \o logBuf' = logFile_ \o logBuf
      /\ logFile_' \in Seq(LogRecord) /\ logBuf' \in Seq(LogRecord) /\ Head(logBuf) \in LogRecord
  BY <1>1, <1>2, JoinedSpill
<1>4. \A op : Ended(logFile_', op) \cup Ended(logBuf', op) = Ended(logFile_, op) \cup Ended(logBuf, op)
  BY <1>1, <1>2, SpiltEnded
<1>5. \A op : Ended(logFile_, op) \subseteq Ended(logFile_', op)
  BY <1>1, <1>2, SpiltEnded
<1>6. \A i \in DOMAIN logBuf' : i + 1 \in DOMAIN logBuf /\ logBuf'[i] = logBuf[i + 1]
  <2>1. /\ Len(logBuf) \in Nat \ {0} /\ Len(logBuf') = Len(logBuf) - 1
        /\ \A i \in 1 .. Len(logBuf') : logBuf'[i] = logBuf[i + 1]
    BY <1>1, <1>2, HeadTailProperties, EmptySeq
  <2> QED
    BY <1>2, <1>3, <2>1
<1>7. AcknowledgedIsLogged'
  BY <1>1, <1>5, <1>6 DEF AckInv, AcknowledgedIsLogged
<1>8. EndLogged'
  BY <1>1, <1>4, <1>5 DEF AckInv, EndLogged
<1> QED
  BY <1>7, <1>8 DEF AckInv

LEMMA AckStart ==
  ASSUME Base, AckInv, Start \/ ReplayStep \/ FinishRecovery
  PROVE  AckInv'
<1>1. CASE Start
  <2>1. /\ logBuf' = logBuf /\ logBuf = <<>> /\ nextTxId_' = 1 /\ committed' = {} /\ ending' = "no"
    BY <1>1 DEF Start, txVars, histVars, Base, LogInv, QuietOutside, NothingBuffered
  <2>2. DOMAIN logBuf' = {} /\ 1 .. nextTxId_' - 1 = {}
    BY <2>1, NoEntries
  <2> QED
    BY <2>1, <2>2 DEF AckInv, AcknowledgedIsLogged, EndLogged, Flushed
<1>2. CASE ReplayStep
  BY <1>2, AckStays DEF ReplayStep, histVars
<1>3. CASE FinishRecovery
  BY <1>3 DEF FinishRecovery, AckInv, AcknowledgedIsLogged, EndLogged
<1> QED
  BY <1>1, <1>2, <1>3

LEMMA AckStatement ==
  ASSUME Base, AckInv, NEW r \in Heap!RecordID,
         \/ \E v \in Value : Insert(r, v) \/ Update(r, v)
         \/ Delete(r) \/ RefusedUpdate(r)
  PROVE  AckInv'
<1>1. HP!IInv /\ Value \subseteq Datum /\ Zero \in Datum /\ Misfit \in Datum /\ Old(r) \in Datum
  BY OldIsDatum DEF Base, Datum
<1>2. PICK op \in {"INSERT", "DELETE", "UPDATE"}, old \in Datum, new \in Datum :
        Statement(Logged(op, r, old, new))
  BY <1>1 DEF Insert, Update, Delete, RefusedUpdate
<1> DEFINE rec == Logged(op, r, old, new)
<1>3. currentTxId_ # 0
  BY <1>2 DEF Statement
<1>4. rec \in LogRecord /\ rec.tx = currentTxId_
  BY <1>3, LoggedType DEF LogRecord
<1> HIDE DEF rec
<1>5. /\ logBuf' = IF logOpen THEN logBuf \o <<rec>> ELSE logBuf
      /\ UNCHANGED <<phase, currentTxId_, nextTxId_, logFile_, logOpen, committed>>
      /\ ending = "no" /\ ending' = "no"
  BY <1>2 DEF rec, Statement, Idle, Log, Append1, txVars, histVars
<1> QED
  BY <1>4, <1>5, AckAppend

LEMMA AckEnd ==
  ASSUME Base, AckInv, NEW op \in {"COMMIT", "ABORT"}, LogEnd(op)
  PROVE  AckInv'
<1> DEFINE rec == [op |-> op, tx |-> currentTxId_]
<1>1. currentTxId_ \in TxId
  BY BoundType DEF LogEnd, Base, TxOK, TxId
<1>2. rec \in LogRecord /\ rec.tx = currentTxId_ /\ rec.op = op
  BY <1>1 DEF LogRecord, EndRecord
<1>3. /\ logBuf' = IF logOpen THEN logBuf \o <<rec>> ELSE logBuf
      /\ UNCHANGED <<phase, currentTxId_, nextTxId_, logFile_, logOpen, committed>>
      /\ ending = "no" /\ ending' = op
  BY DEF LogEnd, Idle, Log, Append1
<1> HIDE DEF rec
<1> QED
  BY <1>2, <1>3, AckAppend

LEMMA NextAckInv == Base /\ AckInv /\ [Next]_vars => AckInv'
<1> SUFFICES ASSUME Base, AckInv, [Next]_vars
             PROVE  AckInv'
  OBVIOUS
<1>1. CASE Crash \/ Shutdown \/ \E rec : CrashInLine(rec)
  BY <1>1 DEF Crash, Shutdown, CrashInLine, Gone, AckInv, AcknowledgedIsLogged, EndLogged
<1>2. ASSUME NEW p \in Heap!Page, WriteBack(p)
      PROVE  AckInv'
  BY <1>2, AckStays DEF WriteBack
<1>3. CASE UNCHANGED vars
  BY <1>3, AckStays DEF vars, histVars
<1>4. ASSUME NEW r \in Heap!RecordID,
             \/ \E v \in Value : Insert(r, v) \/ Update(r, v)
             \/ Delete(r) \/ RefusedUpdate(r)
      PROVE  AckInv'
  BY <1>4, AckStatement
<1>5. CASE \E op \in {"COMMIT", "ABORT"} : LogEnd(op)
  BY <1>5, AckEnd
<1>6. CASE Start \/ ReplayStep \/ FinishRecovery \/ Begin \/ FlushEnd \/ Acknowledge \/ Spill
  BY <1>6, AckStart, AckBegin, AckFlush, AckAcknowledge, AckSpill
<1> QED
  BY <1>1, <1>2, <1>3, <1>4, <1>5, <1>6 DEF Next

LEMMA InitAckInv == Init => AckInv
  BY DEF Init, AckInv, AcknowledgedIsLogged, EndLogged

\* AcknowledgedIsLogged, of COMMIT and ROLLBACK in QueryEngine.cpp:78-97: in a life that
\* logs, the COMMIT record of every transaction that has been acknowledged as committed
\* is in the log file, the ABORT record of every other that has ended too, and the
\* stream's buffer holds nothing but records of the open transaction.
THEOREM AcknowledgedCommitsAreLogged == Spec => []AcknowledgedIsLogged
<1>1. AckInv => AcknowledgedIsLogged
  BY DEF AckInv
<1> QED
  BY <1>1, InitBase, NextBase, InitAckInv, NextAckInv, PTL DEF Spec

-----------------------------------------------------------------------------
(* The invariant.                                                           *)

\* The log as its writer sees it.
All == logFile_ \o logBuf

\* A life that logs, since its database came up with an empty log: h is the history
\* of every slot, and record b the last before the open transaction.
Life(b, h) ==
  /\ b <= Len(logFile_)
  /\ Shape(All, currentTxId_, nextTxId_, b)
  /\ History(All, currentTxId_, h, content, durable, Len(logFile_), truth, b, early)
  /\ ending = "no" => currentTxId_ \notin Ended(All, "COMMIT") \cup Ended(All, "ABORT")
  /\ ending \in {"COMMIT", "COMMIT flushed"} => currentTxId_ \in Ended(All, "COMMIT")
  /\ ending \in {"ABORT", "ABORT flushed"} =>
       /\ currentTxId_ \in Ended(All, "ABORT")
       /\ ~early
       /\ Heap!RowsOf(content) = truth

\* No process, or one that is recovering: log and pages determine the committed rows,
\* and what has been replayed so far is in the pool.
Outside ==
  /\ logBuf = <<>> /\ currentTxId_ = 0 /\ ending = "no" /\ ~early /\ nextTxId_ = 1
  /\ phase = "down" => content = durable /\ replayed = 0
  /\ \A j \in Visits(logFile_) : j <= replayed => CanReplay(StepAt(logFile_, j))
  /\ Restorable(logFile_) =>
       /\ Determines(logFile_, truth)
       /\ Fits(logFile_, durable, truth)
       /\ Fits(logFile_, content, truth)
       /\ Reached(logFile_, content, replayed)

\* A life after a recovery does not log.
Unlogged == logFile_ = <<>> /\ logBuf = <<>>

Sane ==
  /\ phase # "serving" => Outside
  /\ phase = "serving" /\ logOpen => \E b, h : Life(b, h)
  /\ phase = "serving" /\ ~logOpen => Unlogged

LEMMA AllType ==
  ASSUME Base
  PROVE  /\ logFile_ \in Seq(LogRecord) /\ logBuf \in Seq(LogRecord) /\ All \in Seq(LogRecord)
         /\ Len(All) = Len(logFile_) + Len(logBuf) /\ Len(logFile_) \in Nat /\ Len(logBuf) \in Nat
         /\ \A i \in 1 .. Len(logFile_) : All[i] = logFile_[i]
         /\ \A i \in 1 .. Len(logFile_) : i \in 1 .. Len(All)
<1>1. logFile_ \in Seq(LogRecord) /\ logBuf \in Seq(LogRecord)
  BY DEF Base, LogOK
<1>2. /\ All \in Seq(LogRecord)
      /\ Len(All) = Len(logFile_) + Len(logBuf) /\ Len(logFile_) \in Nat /\ Len(logBuf) \in Nat
      /\ \A i \in 1 .. Len(logFile_) : All[i] = logFile_[i]
  BY <1>1, Joined DEF All
<1> QED
  BY <1>1, <1>2

LEMMA FilePart ==
  ASSUME Base, NEW b, NEW h, Life(b, h)
  PROVE  Part(logFile_, All, b) /\ Part(All, All, b)
<1>1. b \in 0 .. Len(All) /\ b <= Len(logFile_)
  BY DEF Life, Shape
<1>2. b \in Nat /\ b <= Len(logFile_) /\ b <= Len(All)
  BY <1>1, AllType
<1>3. \A i \in 1 .. b : i \in 1 .. Len(logFile_)
  BY <1>2, AllType
<1>4. Len(logFile_) <= Len(All) /\ Len(All) <= Len(All)
  BY AllType
<1> QED
  BY <1>2, <1>3, <1>4, AllType DEF Part

\* The record that ends the open transaction is in the file only when all are.
LEMMA EndIsLast ==
  ASSUME Base, NEW b, NEW h, Life(b, h), NEW op \in {"COMMIT", "ABORT"},
         currentTxId_ \in Ended(logFile_, op)
  PROVE  All = logFile_
<1>1. PICK i \in 1 .. Len(logFile_) : logFile_[i].op = op /\ logFile_[i].tx = currentTxId_
  BY AllType, EndedOf
<1>2. i \in 1 .. Len(All) /\ All[i] = logFile_[i]
  BY AllType
<1>3. b \in 0 .. Len(All)
  BY DEF Life, Shape
<1>4. b \in Nat /\ (i \in 1 .. b \/ i \in b + 1 .. Len(All))
  BY <1>3, <1>2, AllType
<1>5. i \in b + 1 .. Len(All)
  BY <1>1, <1>2, <1>4 DEF Life, Shape
<1>6. ~IsData(All[i])
  BY <1>1, <1>2 DEF IsData
<1>7. i = Len(All)
  BY <1>5, <1>6 DEF Life, Shape
<1>8. Len(All) = Len(logFile_)
  BY <1>7, AllType
<1> QED
  BY <1>8, AllType, JoinedEmpty DEF All

\* The rows that recovery owes: the acknowledged ones, or those of the commit whose
\* record is in the log.
Owed(log) ==
  IF ending \in {"COMMIT", "COMMIT flushed"} /\ currentTxId_ \in Ended(log, "COMMIT")
  THEN Heap!RowsOf(content) ELSE truth

LEMMA LifeFound ==
  ASSUME Base, NEW b, NEW h, Life(b, h), VarsOK, Restorable(logFile_)
  PROVE  Determines(logFile_, Owed(logFile_)) /\ Fits(logFile_, durable, Owed(logFile_))
<1>1. /\ Shape(All, currentTxId_, nextTxId_, b)
      /\ History(All, currentTxId_, h, content, durable, Len(logFile_), truth, b, early)
  BY DEF Life
<1>2. \A op \in {"COMMIT", "ABORT"} :
        currentTxId_ \in Ended(logFile_, op) => All = logFile_ /\ currentTxId_ \in Ended(All, op)
  BY EndIsLast
<1>3. ending \in {"no", "COMMIT", "COMMIT flushed", "ABORT", "ABORT flushed"}
  BY DEF VarsOK
<1>4. CASE currentTxId_ \in Ended(logFile_, "COMMIT")
  <2>1. All = logFile_ /\ currentTxId_ \in Ended(All, "COMMIT")
    BY <1>2, <1>4
  <2>2. currentTxId_ \notin Ended(All, "ABORT")
    BY <1>1, <2>1 DEF Shape
  <2>3. ending \in {"COMMIT", "COMMIT flushed"}
    BY <1>3, <2>1, <2>2 DEF Life
  <2>4. Owed(logFile_) = Heap!RowsOf(content)
    BY <1>4, <2>3 DEF Owed
  <2>5. All \in Seq(LogRecord) /\ Restorable(All)
    BY <2>1, AllType
  <2>6. Determines(All, Heap!RowsOf(content)) /\ Fits(All, durable, Heap!RowsOf(content))
    BY <1>1, <2>1, <2>5, CommittedFound
  <2> QED
    BY <2>1, <2>4, <2>6
<1>5. CASE currentTxId_ \in Ended(logFile_, "ABORT")
  <2>1. All = logFile_ /\ currentTxId_ \in Ended(All, "ABORT")
    BY <1>2, <1>5
  <2>2. currentTxId_ \notin Ended(All, "COMMIT")
    BY <1>1, <2>1 DEF Shape
  <2>3. ending \in {"ABORT", "ABORT flushed"}
    BY <1>3, <2>1, <2>2 DEF Life
  <2>4. Owed(logFile_) = truth
    BY <2>3 DEF Owed
  <2>5. All \in Seq(LogRecord) /\ Restorable(All)
    BY <2>1, AllType
  <2>6. History(All, currentTxId_, h, content, durable, Len(All), truth, b, FALSE)
    <3>1. ~early
      BY <2>3 DEF Life
    <3> QED
      BY <1>1, <2>1, <3>1 DEF History
  <2>7. Determines(All, truth) /\ Fits(All, durable, truth)
    BY <1>1, <2>1, <2>5, <2>6, AbortedFound
  <2> QED
    BY <2>1, <2>4, <2>7
<1>6. CASE currentTxId_ \notin Ended(logFile_, "COMMIT") /\ currentTxId_ \notin Ended(logFile_, "ABORT")
  <2>1. Owed(logFile_) = truth
    BY <1>6 DEF Owed
  <2>2. Len(logFile_) <= Len(logFile_)
    BY AllType
  <2>3. Determines(logFile_, truth) /\ Fits(logFile_, durable, truth)
    BY <1>1, <1>6, <2>2, AllType, FilePart, UnfinishedFound
  <2> QED
    BY <2>1, <2>3
<1> QED
  BY <1>4, <1>5, <1>6

\* At every moment recovery would bring back what is owed.
LEMMA OutsideRecovers ==
  ASSUME Base, Outside, Restorable(logFile_)
  PROVE  Heap!RowsOf(ReplayAll(durable, logFile_)) = truth
<1>1. /\ logFile_ \in Seq(LogRecord) /\ Tame(durable) /\ IsRows(truth)
      /\ Determines(logFile_, truth) /\ Fits(logFile_, durable, truth)
  BY AllType, HeapTame DEF Base, Outside
<1> QED
  BY <1>1, ReplayAllRows DEF Restorable

LEMMA LifeRecovers ==
  ASSUME Base, NEW b, NEW h, Life(b, h), Restorable(logFile_)
  PROVE  Heap!RowsOf(ReplayAll(durable, logFile_)) = Owed(logFile_)
<1>1. logFile_ \in Seq(LogRecord) /\ Tame(durable) /\ IsRows(Owed(logFile_)) /\ VarsOK
  BY AllType, HeapTame, RowsAreRows DEF Base, Owed
<1>2. Determines(logFile_, Owed(logFile_)) /\ Fits(logFile_, durable, Owed(logFile_))
  BY <1>1, LifeFound
<1> QED
  BY <1>1, <1>2, ReplayAllRows DEF Restorable

LEMMA Recovers ==
  ASSUME Base, Sound => Sane
  PROVE  RecoverableNow
<1> SUFFICES ASSUME Sound, phase = "serving" => logOpen, Restorable(logFile_)
             PROVE  LET found == Heap!RowsOf(ReplayAll(durable, logFile_))
                    IN  \/ found = truth
                        \/ /\ ending \in {"COMMIT", "COMMIT flushed"}
                           /\ currentTxId_ \in Ended(logFile_, "COMMIT")
                           /\ found = Heap!RowsOf(content)
  BY DEF RecoverableNow, Restorable
<1>1. CASE phase # "serving"
  BY <1>1, OutsideRecovers DEF Sane
<1>2. CASE phase = "serving"
  <2>1. PICK b, h : Life(b, h)
    BY <1>2 DEF Sane
  <2>2. Heap!RowsOf(ReplayAll(durable, logFile_)) = Owed(logFile_)
    BY <2>1, LifeRecovers
  <2> QED
    BY <2>2 DEF Owed
<1> QED
  BY <1>1, <1>2

-----------------------------------------------------------------------------
(* The steps of recovery.                                                   *)

LEMMA LifeStays ==
  ASSUME phase' = "serving", logOpen' = TRUE, NEW b, NEW h, Life(b, h)'
  PROVE  Sane'
  BY DEF Sane

LEMMA UnloggedStays ==
  ASSUME Sane, phase = "serving", ~logOpen, phase' = "serving", ~logOpen',
         UNCHANGED <<logFile_, logBuf>>
  PROVE  Sane'
  BY DEF Sane, Unlogged

\* A database without a log in which the pages hold the committed rows.
LEMMA FreshLife ==
  ASSUME Base, Outside, phase = "down", logFile_ = <<>>
  PROVE  \E h : Life(0, h)
<1> DEFINE h == [r \in Heap!RecordID |-> [k \in 0 .. 0 |-> Row(content, r)]]
<1>1. \A r \in Heap!RecordID : h[r][0] = Row(content, r)
  OBVIOUS
<1> HIDE DEF h
<1>2. /\ All = <<>> /\ Len(All) = 0 /\ currentTxId_ = 0 /\ nextTxId_ = 1 /\ ending = "no"
      /\ ~early /\ content = durable
  BY DEF Outside, All
<1>3. \A op : Ended(All, op) = {}
  BY <1>2 DEF Ended
<1>4. Shape(All, 0, 1, 0)
  BY <1>2, <1>3 DEF Shape
<1>5. Visits(logFile_) = {}
  BY DEF Visits
<1>6. Fits(logFile_, content, truth)
  BY <1>5 DEF Outside, Restorable, Replayable, ReadsBack, CanRead
<1>7. \A r \in Heap!RecordID : Row(content, r) = RowIn(truth, r)
  BY <1>5, <1>6 DEF Fits, Marks, Writes, Row, RowIn
<1>8. Chain(All, 0, h)
  BY <1>2 DEF Chain
<1>9. History(All, 0, h, content, durable, 0, truth, 0, early)
  BY <1>1, <1>2, <1>7, <1>8 DEF History
<1>10. Life(0, h)
  BY <1>2, <1>3, <1>4, <1>9 DEF Life
<1> QED
  BY <1>10

LEMMA StartSane ==
  ASSUME Base, Sane, Start
  PROVE  Sane'
<1>1. /\ phase = "down" /\ Outside /\ logOpen' = TRUE /\ replayed' = 0 /\ replayed = 0
      /\ phase' \in {"recovering", "serving"}
      /\ phase' = "serving" => logFile_ = <<>>
      /\ UNCHANGED <<heapVars, txVars, logFile_, logBuf, histVars>>
  BY DEF Start, Sane, Outside
<1>2. CASE phase' = "recovering"
  <2>1. Outside'
    BY <1>1, <1>2 DEF Outside, heapVars, txVars, histVars
  <2> QED
    BY <1>2, <2>1 DEF Sane
<1>3. CASE phase' = "serving"
  <2>1. PICK h : Life(0, h)
    BY <1>1, <1>3, FreshLife
  <2>2. Life(0, h)'
    BY <1>1, <2>1 DEF Life, All, heapVars, txVars, histVars
  <2> QED
    BY <1>1, <1>3, <2>2, LifeStays
<1> QED
  BY <1>1, <1>2, <1>3

LEMMA ReplaySane ==
  ASSUME Base, Sane, ReplayStep
  PROVE  Sane'
<1>1. /\ phase = "recovering" /\ Outside
      /\ UNCHANGED <<phase, txVars, logVars, histVars>>
  BY DEF ReplayStep, Sane
<1>2. PICK j \in Visits(logFile_) :
        /\ j > replayed
        /\ \A i \in Visits(logFile_) : i > replayed => j <= i
        /\ CanReplay(StepAt(logFile_, j))
        /\ LET s == StepAt(logFile_, j) IN
             CASE s.do = "insertAt" -> Heap!InsertAt(s.rid, s.value)
               [] s.do = "deleteAt" -> Heap!DeleteAt(s.rid)
               [] s.do = "updateAt" -> Heap!UpdateAt(s.rid, s.value)
        /\ replayed' = j
  BY DEF ReplayStep
<1>3. logFile_ \in Seq(LogRecord) /\ Tame(content) /\ HP!IInv
  BY AllType, HeapTame DEF Base
<1>4. StepAt(logFile_, j) \in Step /\ j \in Nat /\ replayed \in Nat
  <2>1. StepAt(logFile_, j) \in Step /\ j \in 1 .. 2 * Len(logFile_) /\ Len(logFile_) \in Nat
    BY <1>3, VisitsType
  <2>2. replayed \in Nat
    BY DEF Base, VarsOK
  <2> QED
    BY <2>1, <2>2
<1> DEFINE s == StepAt(logFile_, j)
<1>5. content' = [content EXCEPT ![s.rid.pageId] = ReplayOn(@, s)] /\ durable' = durable
  BY <1>2, <1>3, <1>4, ReplayEffects
<1>6. ASSUME NEW i \in Visits(logFile_), i <= j
      PROVE  CanReplay(StepAt(logFile_, i))
  <2>1. i \in Nat
    BY <1>3, VisitsType
  <2>2. i <= replayed \/ i = j
    BY <1>2, <1>4, <1>6, <2>1
  <2> QED
    BY <1>1, <1>2, <2>2 DEF Outside
<1>7. ASSUME Restorable(logFile_)
      PROVE  Fits(logFile_, content', truth) /\ Reached(logFile_, content', j)
  <2>1. Fits(logFile_, content, truth) /\ Reached(logFile_, content, replayed)
    BY <1>1, <1>7 DEF Outside
  <2> QED
    BY <1>2, <1>3, <1>4, <1>5, <2>1, OneReplay
<1>8. Outside'
  BY <1>1, <1>2, <1>5, <1>6, <1>7 DEF Outside, txVars, logVars, histVars
<1> QED
  BY <1>1, <1>8 DEF Sane

\* recover() ends when it has read every line and made every visit.
LEMMA FinishExact ==
  ASSUME Base, Sane, FinishRecovery, Sound'
  PROVE  Heap!RowsOf(content) = truth /\ Sane'
<1>1. /\ phase = "recovering" /\ Outside /\ CanRead(logFile_)
      /\ \A j \in Visits(logFile_) : j <= replayed
      /\ logFile_' = <<>> /\ logBuf' = logBuf /\ logOpen' = FALSE /\ phase' = "serving"
  BY DEF FinishRecovery, Sane
<1>2. Restorable(logFile_)
  <2>1. ReadsBack(logFile_)
    BY DEF FinishRecovery, Sound
  <2> QED
    BY <1>1, <2>1 DEF Outside, Restorable, Replayable
<1>3. logFile_ \in Seq(LogRecord) /\ IsRows(truth) /\ replayed \in Nat
  BY AllType DEF Base, VarsOK
<1>4. Heap!RowsOf(content) = truth
  BY <1>1, <1>2, <1>3, ReplayedRows DEF Outside
<1>5. Sane'
  BY <1>1 DEF Sane, Outside, Unlogged
<1> QED
  BY <1>4, <1>5

-----------------------------------------------------------------------------
(* The steps of a transaction.                                              *)

LEMMA LifeType ==
  ASSUME Base, NEW b, NEW h, Life(b, h)
  PROVE  /\ b \in 0 .. Len(All) /\ b <= Len(logFile_)
         /\ Shape(All, currentTxId_, nextTxId_, b)
         /\ History(All, currentTxId_, h, content, durable, Len(logFile_), truth, b, early)
         /\ nextTxId_ \in Int /\ currentTxId_ \in Int /\ 0 < nextTxId_
         /\ Len(logFile_) <= Len(All)
<1>1. /\ b \in 0 .. Len(All) /\ b <= Len(logFile_)
      /\ Shape(All, currentTxId_, nextTxId_, b)
      /\ History(All, currentTxId_, h, content, durable, Len(logFile_), truth, b, early)
  BY DEF Life, Shape
<1>2. nextTxId_ \in Int /\ currentTxId_ \in Int /\ 0 < nextTxId_
  BY BoundType DEF Base, TxOK
<1>3. Len(logFile_) <= Len(All)
  BY AllType
<1> QED
  BY <1>1, <1>2, <1>3

LEMMA BeginSane ==
  ASSUME Base, Base', Sane, Begin
  PROVE  Sane'
<1>1. /\ phase = "serving" /\ ending = "no" /\ currentTxId_ = 0
      /\ currentTxId_' = nextTxId_ /\ nextTxId_' = nextTxId_ + 1 /\ early' = FALSE
      /\ UNCHANGED <<heapVars, phase, ending, logVars, replayed, truth, spoilt>>
  BY DEF Begin, Idle
<1>2. CASE ~logOpen
  BY <1>1, <1>2, UnloggedStays DEF logVars
<1>3. CASE logOpen
  <2>1. PICK b, h : Life(b, h)
    BY <1>1, <1>3 DEF Sane
  <2>2. All \in Seq(LogRecord) /\ Len(logFile_) \in Nat
    BY AllType
  <2>3. /\ Shape(All, 0, nextTxId_, b)
        /\ History(All, 0, h, content, durable, Len(logFile_), truth, b, early)
        /\ nextTxId_ \in Int /\ Len(logFile_) <= Len(All) /\ b <= Len(logFile_)
    BY <1>1, <2>1, LifeType
  <2>4. Shape(All, nextTxId_, nextTxId_ + 1, b)
    BY <2>2, <2>3, ShapeBegin
  <2>5. History(All, nextTxId_, h, content, durable, Len(logFile_), truth, b, FALSE)
    BY <2>2, <2>3, HistoryBegin
  <2>6. \A op : nextTxId_ \notin Ended(All, op)
    <3> SUFFICES ASSUME NEW op, nextTxId_ \in Ended(All, op) PROVE FALSE
      OBVIOUS
    <3>1. PICK i \in 1 .. Len(All) : All[i].tx = nextTxId_
      BY <2>2, EndedOf
    <3>2. All[i].tx < nextTxId_
      BY <2>3 DEF Shape
    <3> QED
      BY <2>3, <3>1, <3>2
  <2>7. All' = All
    BY <1>1 DEF All, logVars
  <2>8. Life(b, h)'
    BY <1>1, <2>3, <2>4, <2>5, <2>6, <2>7 DEF Life, heapVars, logVars
  <2> QED
    BY <1>1, <1>3, <2>8, LifeStays DEF logVars
<1> QED
  BY <1>2, <1>3

\* A record is appended, and the heap changed as it says.
LEMMA AppendLife ==
  ASSUME Base, NEW b, NEW h, Life(b, h), ending = "no", phase = "serving", logOpen,
         NEW rec \in Whole, rec.tx = currentTxId_,
         logBuf' = Append(logBuf, rec),
         durable' = durable,
         UNCHANGED <<phase, currentTxId_, nextTxId_, logFile_, logOpen, truth, early>>,
         \A r \in Heap!RecordID :
           IF IsData(rec) /\ rec.rid = r
           THEN Row(content, r) = Pre(rec) /\ Row(content', r) = Post(rec)
           ELSE Row(content', r) = Row(content, r),
         IF IsData(rec) THEN ending' = "no" ELSE ending' = rec.op,
         ending' = "ABORT" => ~early /\ Heap!RowsOf(content') = truth
  PROVE  Sane'
<1>1. /\ All \in Seq(LogRecord) /\ logFile_ \in Seq(LogRecord) /\ logBuf \in Seq(LogRecord)
      /\ Len(logFile_) \in Nat
  BY AllType
<1>2. /\ Shape(All, currentTxId_, nextTxId_, b)
      /\ History(All, currentTxId_, h, content, durable, Len(logFile_), truth, b, early)
      /\ Len(logFile_) <= Len(All) /\ b <= Len(logFile_)
  BY LifeType
<1>3. currentTxId_ \notin Ended(All, "COMMIT") \cup Ended(All, "ABORT")
  BY DEF Life
<1>4. rec \in LogRecord /\ (~IsData(rec) => rec.op \in {"COMMIT", "ABORT"})
      /\ (IsData(rec) => rec.op \notin {"COMMIT", "ABORT"})
  BY WholeRecord
<1>5. All' = Append(All, rec)
  BY <1>1, <1>4, JoinedAppend DEF All
<1>6. \A op : Ended(All', op) = Ended(All, op) \cup IF rec.op = op THEN {rec.tx} ELSE {}
  BY <1>1, <1>4, <1>5, AppendLog
<1>7. Shape(All', currentTxId_, nextTxId_, b)
  BY <1>1, <1>2, <1>3, <1>5, ShapeAppend
<1>8. PICK g : History(All', currentTxId_, g, content', durable, Len(logFile_), truth, b, early)
  BY <1>1, <1>2, <1>5, HistoryAppend
<1>9. /\ ending' = "no" => currentTxId_ \notin Ended(All', "COMMIT") \cup Ended(All', "ABORT")
      /\ ending' \in {"COMMIT", "COMMIT flushed"} => currentTxId_ \in Ended(All', "COMMIT")
      /\ ending' \in {"ABORT", "ABORT flushed"} => currentTxId_ \in Ended(All', "ABORT")
      /\ ending' \in {"ABORT", "ABORT flushed"} => ending' = "ABORT"
  <2>1. CASE IsData(rec)
    BY <1>3, <1>4, <1>6, <2>1
  <2>2. CASE ~IsData(rec)
    BY <1>4, <1>6, <2>2
  <2> QED
    BY <2>1, <2>2
<1>10. Life(b, g)'
  BY <1>2, <1>7, <1>8, <1>9 DEF Life
<1> QED
  BY <1>10, LifeStays

LEMMA StatementSane ==
  ASSUME Base, Sane, NEW r \in Heap!RecordID, NEW op \in {"INSERT", "DELETE", "UPDATE"},
         NEW old \in Datum, NEW new \in Datum, Statement(Logged(op, r, old, new)),
         durable' = durable, NEW before, NEW after,
         before = Pre(Logged(op, r, old, new)), after = Post(Logged(op, r, old, new)),
         Row(content, r) = before, Row(content', r) = after,
         \A x \in Heap!RecordID \ {r} : Row(content', x) = Row(content, x)
  PROVE  Sane'
<1> DEFINE rec == Logged(op, r, old, new)
<1>1. /\ phase = "serving" /\ ending = "no" /\ currentTxId_ # 0
      /\ logBuf' = IF logOpen THEN logBuf \o <<rec>> ELSE logBuf
      /\ UNCHANGED <<logFile_, logOpen, phase, txVars, replayed, histVars>>
  BY DEF Statement, Idle, Log, Append1
<1>2. CASE ~logOpen
  BY <1>1, <1>2, UnloggedStays
<1>3. CASE logOpen
  <2>1. PICK b, h : Life(b, h)
    BY <1>1, <1>3 DEF Sane
  <2>2. /\ rec \in DataRecord /\ IsData(rec) /\ rec.rid = r /\ rec.tx = currentTxId_
    BY <1>1, LoggedType
  <2>3. \A x \in Heap!RecordID :
          IF IsData(rec) /\ rec.rid = x
          THEN Row(content, x) = Pre(rec) /\ Row(content', x) = Post(rec)
          ELSE Row(content', x) = Row(content, x)
    BY <2>2
  <2> HIDE DEF rec
  <2>4. logBuf' = Append(logBuf, rec)
    BY <1>1, <1>3, AllType
  <2>5. rec \in Whole /\ ending' = "no"
    BY <1>1, <2>2 DEF Whole, txVars
  <2>6. UNCHANGED <<phase, currentTxId_, nextTxId_, logFile_, logOpen, truth, early>>
    BY <1>1 DEF txVars, histVars
  <2> QED
    BY <1>1, <1>3, <2>1, <2>2, <2>3, <2>4, <2>5, <2>6, AppendLife
<1> QED
  BY <1>2, <1>3

LEMMA ChangeSane ==
  ASSUME Base, Sane, NEW r \in Heap!RecordID,
         \/ \E v \in Value : Insert(r, v) \/ Update(r, v)
         \/ Delete(r) \/ RefusedUpdate(r)
  PROVE  Sane'
<1>1. HP!IInv /\ Misfit \in Datum /\ Zero \in Datum /\ Value \subseteq Datum /\ Misfit \notin Value
  BY RecoveryAssumption DEF Base, Datum
<1>2. Old(r) \in Datum
  BY <1>1, OldIsDatum DEF Datum
<1>3. ASSUME NEW v \in Value, Insert(r, v)
      PROVE  Sane'
  <2>1. Heap!InsertRecord(r, v) /\ Statement(Logged("INSERT", r, Zero, v))
    BY <1>3 DEF Insert
  <2>2. /\ durable' = durable /\ Row(content, r) = {} /\ Row(content', r) = {v}
        /\ \A x \in Heap!RecordID \ {r} : Row(content', x) = Row(content, x)
    BY <1>1, <2>1, InsertEffect
  <2>3. Pre(Logged("INSERT", r, Zero, v)) = {} /\ Post(Logged("INSERT", r, Zero, v)) = {v}
    BY <1>1 DEF Pre, Post, Logged
  <2> QED
    BY <1>1, <2>1, <2>2, <2>3, StatementSane
<1>4. ASSUME NEW v \in Value, Update(r, v)
      PROVE  Sane'
  <2>1. Heap!UpdateRecord(r, v) /\ Statement(Logged("UPDATE", r, Old(r), v))
    BY <1>4 DEF Update
  <2>2. /\ durable' = durable /\ Row(content, r) = {Old(r)} /\ Row(content', r) = {v}
        /\ \A x \in Heap!RecordID \ {r} : Row(content', x) = Row(content, x)
    BY <1>1, <2>1, UpdateEffect
  <2>3. Pre(Logged("UPDATE", r, Old(r), v)) = {Old(r)} /\ Post(Logged("UPDATE", r, Old(r), v)) = {v}
    BY <1>1 DEF Pre, Post, Logged
  <2> QED
    BY <1>1, <1>2, <2>1, <2>2, <2>3, StatementSane
<1>5. CASE Delete(r)
  <2>1. Heap!DeleteRecord(r) /\ Statement(Logged("DELETE", r, Old(r), Zero))
    BY <1>5 DEF Delete
  <2>2. /\ durable' = durable /\ Row(content, r) = {Old(r)} /\ Row(content', r) = {}
        /\ \A x \in Heap!RecordID \ {r} : Row(content', x) = Row(content, x)
    BY <1>1, <2>1, DeleteEffect
  <2>3. Pre(Logged("DELETE", r, Old(r), Zero)) = {Old(r)} /\ Post(Logged("DELETE", r, Old(r), Zero)) = {}
    BY DEF Pre, Post, Logged
  <2> QED
    BY <1>1, <1>2, <2>1, <2>2, <2>3, StatementSane
<1>6. CASE RefusedUpdate(r)
  <2>1. Heap!Live(r) /\ Statement(Logged("UPDATE", r, Old(r), Misfit)) /\ UNCHANGED heapVars
    BY <1>6 DEF RefusedUpdate
  <2>2. /\ durable' = durable /\ Row(content, r) = {Old(r)} /\ Row(content', r) = {Old(r)}
        /\ \A x \in Heap!RecordID \ {r} : Row(content', x) = Row(content, x)
    BY <2>1 DEF heapVars, Row, Old, Bytes, Heap!Live
  <2>3. /\ Pre(Logged("UPDATE", r, Old(r), Misfit)) = {Old(r)}
        /\ Post(Logged("UPDATE", r, Old(r), Misfit)) = {Old(r)}
    BY DEF Pre, Post, Logged
  <2> QED
    BY <1>1, <1>2, <2>1, <2>2, <2>3, StatementSane
<1> QED
  BY <1>3, <1>4, <1>5, <1>6

-----------------------------------------------------------------------------
(* The end of a transaction, and the pool.                                  *)

LEMMA LogEndSane ==
  ASSUME Base, Sane, NEW op \in {"COMMIT", "ABORT"}, LogEnd(op), Sound'
  PROVE  Sane'
<1> DEFINE rec == [op |-> op, tx |-> currentTxId_]
<1>1. /\ phase = "serving" /\ ending = "no" /\ currentTxId_ # 0 /\ ending' = op
      /\ logBuf' = IF logOpen THEN logBuf \o <<rec>> ELSE logBuf
      /\ UNCHANGED <<logFile_, logOpen, heapVars, phase, currentTxId_, nextTxId_, truth, early>>
  BY DEF LogEnd, Idle, Log, Append1
<1>2. CASE ~logOpen
  BY <1>1, <1>2, UnloggedStays
<1>3. CASE logOpen
  <2>1. PICK b, h : Life(b, h)
    BY <1>1, <1>3 DEF Sane
  <2>2. op = "ABORT" => ~early /\ Heap!RowsOf(content) = truth
    BY DEF LogEnd, Sound
  <2>3. currentTxId_ \in TxId
    BY <1>1, BoundType DEF Base, TxOK, TxId
  <2>4. rec \in Whole /\ ~IsData(rec) /\ rec.tx = currentTxId_ /\ rec.op = op
    BY <2>3 DEF Whole, EndRecord, IsData
  <2> HIDE DEF rec
  <2>5. logBuf' = Append(logBuf, rec)
    BY <1>1, <1>3, AllType
  <2>6. content' = content /\ durable' = durable
    BY <1>1 DEF heapVars
  <2>7. ending' = "ABORT" => ~early /\ Heap!RowsOf(content') = truth
    BY <1>1, <2>2, <2>6
  <2>8. \A r \in Heap!RecordID :
          IF IsData(rec) /\ rec.rid = r
          THEN Row(content, r) = Pre(rec) /\ Row(content', r) = Post(rec)
          ELSE Row(content', r) = Row(content, r)
    BY <2>4, <2>6
  <2>9. IF IsData(rec) THEN ending' = "no" ELSE ending' = rec.op
    BY <1>1, <2>4
  <2> QED
    BY <1>1, <1>3, <2>1, <2>4, <2>5, <2>6, <2>7, <2>8, <2>9, AppendLife
<1> QED
  BY <1>2, <1>3

LEMMA Serving ==
  ASSUME Base, ending # "no" \/ currentTxId_ # 0
  PROVE  phase = "serving"
  BY DEF Base, LogInv, QuietOutside

LEMMA FlushEndSane ==
  ASSUME Base, Sane, FlushEnd
  PROVE  Sane'
<1>1. /\ \/ ending = "COMMIT" /\ ending' = "COMMIT flushed"
         \/ ending = "ABORT"  /\ ending' = "ABORT flushed"
      /\ logFile_' = All /\ logBuf' = <<>>
      /\ UNCHANGED <<logOpen, heapVars, phase, currentTxId_, nextTxId_, replayed, histVars>>
  BY DEF FlushEnd, FlushLog, All
<1>2. phase = "serving"
  BY <1>1, Serving
<1>3. CASE ~logOpen
  <2>1. logFile_ = <<>> /\ logBuf = <<>>
    BY <1>2, <1>3 DEF Sane, Unlogged
  <2>2. logFile_' = <<>>
    BY <1>1, <2>1, AllType, JoinedEmpty DEF All
  <2> QED
    BY <1>1, <1>2, <1>3, <2>1, <2>2, UnloggedStays
<1>4. CASE logOpen
  <2>1. PICK b, h : Life(b, h)
    BY <1>2, <1>4 DEF Sane
  <2>2. All \in Seq(LogRecord) /\ <<>> \in Seq(LogRecord) /\ Len(All) \in Nat /\ Len(logFile_) \in Nat
    BY AllType
  <2>3. All' = All
    BY <1>1, <2>2, JoinedEmpty DEF All
  <2>4. b \in 0 .. Len(All) /\ Len(logFile_) <= Len(All)
    BY <2>1, LifeType
  <2>5. History(All, currentTxId_, h, content, durable, Len(All), truth, b, early)
    <3>1. History(All, currentTxId_, h, content, durable, Len(logFile_), truth, b, early)
      BY <2>1 DEF Life
    <3>2. 0 .. Len(logFile_) \subseteq 0 .. Len(All)
      BY <2>2, <2>4
    <3> QED
      BY <3>1, <3>2 DEF History
  <2>6. content' = content /\ durable' = durable /\ truth' = truth /\ early' = early
    BY <1>1 DEF heapVars, histVars
  <2>7. b <= Len(All)
    BY <2>2, <2>4
  <2>8. ending' \in {"ABORT", "ABORT flushed"} => ending \in {"ABORT", "ABORT flushed"}
    BY <1>1
  <2>9. ending' \in {"COMMIT", "COMMIT flushed"} => ending \in {"COMMIT", "COMMIT flushed"}
    BY <1>1
  <2>10. Life(b, h)'
    BY <1>1, <2>1, <2>3, <2>5, <2>6, <2>7, <2>8, <2>9 DEF Life
  <2> QED
    BY <1>1, <1>2, <1>4, <2>10, LifeStays
<1> QED
  BY <1>3, <1>4

LEMMA AcknowledgeSane ==
  ASSUME Base, Sane, Acknowledge
  PROVE  Sane'
<1>1. /\ ending \in {"COMMIT flushed", "ABORT flushed"}
      /\ truth' = IF ending = "COMMIT flushed" THEN Heap!RowsOf(content) ELSE truth
      /\ currentTxId_' = 0 /\ ending' = "no"
      /\ UNCHANGED <<heapVars, phase, nextTxId_, logVars, replayed, early, spoilt>>
  BY DEF Acknowledge
<1>2. phase = "serving"
  BY <1>1, Serving
<1>3. CASE ~logOpen
  BY <1>1, <1>2, <1>3, UnloggedStays DEF logVars
<1>4. CASE logOpen
  <2>1. PICK b, h : Life(b, h)
    BY <1>2, <1>4 DEF Sane
  <2>2. logBuf = <<>>
    BY <1>1 DEF Base, LogInv, FlushedIsEmpty
  <2>3. All = logFile_ /\ All \in Seq(LogRecord) /\ Len(All) \in Nat
    BY <2>2, AllType, JoinedEmpty DEF All
  <2>4. /\ Shape(All, currentTxId_, nextTxId_, b)
        /\ History(All, currentTxId_, h, content, durable, Len(All), truth, b, early)
        /\ 0 < nextTxId_ /\ nextTxId_ \in Int
    BY <2>1, <2>3, LifeType
  <2>5. currentTxId_ \in Ended(All, "COMMIT") \cup Ended(All, "ABORT")
    BY <1>1, <2>1 DEF Life
  <2>6. Shape(All, 0, nextTxId_, Len(All))
    BY <2>3, <2>4, <2>5, ShapeEnd
  <2>7. \E g : History(All, 0, g, content, durable, Len(All), truth', Len(All), early)
    <3>1. CASE ending = "COMMIT flushed"
      <4>1. currentTxId_ \in Ended(All, "COMMIT") /\ truth' = Heap!RowsOf(content)
        BY <1>1, <2>1, <3>1 DEF Life
      <4> QED
        BY <2>3, <2>4, <4>1, HistoryCommit
    <3>2. CASE ending = "ABORT flushed"
      <4>1. /\ currentTxId_ \in Ended(All, "ABORT") /\ truth' = truth
            /\ ~early /\ Heap!RowsOf(content) = truth
        BY <1>1, <2>1, <3>2 DEF Life
      <4>2. History(All, currentTxId_, h, content, durable, Len(All), truth, b, FALSE)
        BY <2>4, <4>1 DEF History
      <4>3. currentTxId_ \in Ended(All, "ABORT") /\ Heap!RowsOf(content) = truth
        BY <4>1
      <4>4. Shape(All, currentTxId_, nextTxId_, b)
        BY <2>4
      <4>5. \E g : History(All, 0, g, content, durable, Len(All), truth, Len(All), FALSE)
        BY <2>3, <4>2, <4>3, <4>4, HistoryAbort
      <4> QED
        BY <4>1, <4>5 DEF History
    <3> QED
      BY <1>1, <3>1, <3>2
  <2>8. PICK g : History(All, 0, g, content, durable, Len(All), truth', Len(All), early)
    BY <2>7
  <2>9. \A op : 0 \notin Ended(All, op)
    <3> SUFFICES ASSUME NEW op, 0 \in Ended(All, op) PROVE FALSE
      OBVIOUS
    <3>1. PICK i \in 1 .. Len(All) : All[i].tx = 0
      BY <2>3, EndedOf
    <3>2. All[i] \in Whole
      BY <2>4 DEF Shape
    <3> QED
      BY <3>1, <3>2, WholeRecord
  <2>10. All' = All
    BY <1>1 DEF All, logVars
  <2>11. content' = content /\ durable' = durable /\ logFile_' = All
    BY <1>1, <2>3 DEF heapVars, logVars
  <2>12. Len(All) <= Len(All)
    BY <2>3
  <2>13. Life(Len(All), g)'
    BY <1>1, <2>6, <2>8, <2>9, <2>10, <2>11, <2>12 DEF Life
  <2> QED
    BY <1>1, <1>2, <1>4, <2>13, LifeStays DEF logVars
<1> QED
  BY <1>3, <1>4

LEMMA SpillSane ==
  ASSUME Base, Sane, Spill
  PROVE  Sane'
<1>1. /\ logBuf # <<>>
      /\ logFile_' = Append(logFile_, Head(logBuf)) /\ logBuf' = Tail(logBuf)
      /\ UNCHANGED <<heapVars, phase, txVars, logOpen, replayed, histVars>>
  BY DEF Spill
<1>2. currentTxId_ # 0
  BY <1>1 DEF Base, LogInv, NothingBuffered
<1>3. phase = "serving"
  BY <1>2, Serving
<1>4. logOpen
  BY <1>1, <1>3 DEF Sane, Unlogged, Base, VarsOK
<1>5. PICK b, h : Life(b, h)
  BY <1>3, <1>4 DEF Sane
<1>6. All' = All /\ Len(logFile_') = Len(logFile_) + 1 /\ Len(logFile_) \in Nat
  BY <1>1, AllType, JoinedSpill DEF All
<1>7. b \in 0 .. Len(All) /\ b <= Len(logFile_) /\ Len(All) \in Nat
  BY <1>5, LifeType, AllType
<1>8. b <= Len(logFile_') /\ 0 .. Len(logFile_) \subseteq 0 .. Len(logFile_')
  BY <1>6, <1>7
<1>9. History(All, currentTxId_, h, content, durable, Len(logFile_'), truth, b, early)
  <2>1. History(All, currentTxId_, h, content, durable, Len(logFile_), truth, b, early)
    BY <1>5 DEF Life
  <2> QED
    BY <1>8, <2>1 DEF History
<1>10. Life(b, h)'
  BY <1>1, <1>5, <1>6, <1>8, <1>9 DEF Life, heapVars, txVars, histVars
<1> QED
  BY <1>1, <1>3, <1>4, <1>10, LifeStays

\* The records of page p are in the file, as far as there are any.
LEMMA NoneBuffered ==
  ASSUME Base, NEW p, ~Buffered(p), NEW i \in Len(logFile_) + 1 .. Len(All), IsData(All[i])
  PROVE  All[i].rid.pageId # p
<1> DEFINE k == i - Len(logFile_)
<1>1. /\ logFile_ \in Seq(LogRecord) /\ logBuf \in Seq(LogRecord)
      /\ Len(All) = Len(logFile_) + Len(logBuf) /\ Len(logFile_) \in Nat /\ Len(logBuf) \in Nat
  BY AllType
<1>2. k \in 1 .. Len(logBuf) /\ i = Len(logFile_) + k
  BY <1>1
<1> HIDE DEF k
<1>3. All[i] = logBuf[k]
  BY <1>1, <1>2, Joined DEF All
<1> QED
  BY <1>1, <1>2, <1>3 DEF Buffered

LEMMA WriteBackSane ==
  ASSUME Base, Sane, NEW p \in Heap!Page, WriteBack(p), Sound'
  PROVE  Sane'
<1>1. /\ phase # "down" /\ ~Buffered(p)
      /\ phase = "serving" => ending = "no"
      /\ Heap!WriteBack({p}) /\ early' = (early \/ currentTxId_ # 0)
      /\ UNCHANGED <<phase, txVars, logVars, replayed, truth>>
  BY DEF WriteBack, Sound
<1>2. HP!IInv /\ VarsOK
  BY DEF Base
<1>3. /\ content' = content
      /\ \A r \in Heap!RecordID :
           Row(durable', r) = IF r.pageId = p THEN Row(content, r) ELSE Row(durable, r)
      /\ \A r \in Heap!RecordID :
           durable'[r.pageId] = IF r.pageId = p THEN content[r.pageId] ELSE durable[r.pageId]
  BY <1>1, <1>2, PersistEffect
<1>4. CASE phase = "recovering"
  <2>1. Outside
    BY <1>4 DEF Sane
  <2>2. ASSUME Fits(logFile_, durable, truth), Fits(logFile_, content, truth)
        PROVE  Fits(logFile_, durable', truth)
    BY <1>3, <2>2 DEF Fits, Heap!LiveIn, Bytes
  <2>3. Outside'
    BY <1>1, <1>3, <1>4, <2>1, <2>2 DEF Outside, txVars, logVars
  <2> QED
    BY <1>1, <1>4, <2>3 DEF Sane
<1>5. CASE phase = "serving" /\ ~logOpen
  BY <1>1, <1>5, UnloggedStays DEF logVars
<1>6. CASE phase = "serving" /\ logOpen
  <2>1. PICK b, h : Life(b, h)
    BY <1>6 DEF Sane
  <2>2. All \in Seq(LogRecord) /\ Len(logFile_) \in Nat
    BY AllType
  <2>3. /\ Shape(All, currentTxId_, nextTxId_, b)
        /\ History(All, currentTxId_, h, content, durable, Len(logFile_), truth, b, early)
        /\ Len(logFile_) <= Len(All) /\ b <= Len(logFile_)
    BY <2>1, LifeType
  <2>4. InFirst(All, Len(logFile_), p)
    BY <1>1, NoneBuffered DEF InFirst
  <2>5. (early => early') /\ (early' \/ currentTxId_ = 0)
    BY <1>1, <1>2 DEF VarsOK
  <2>6. History(All, currentTxId_, h, content, durable', Len(logFile_), truth, b, early')
    <3>1. Copied(durable', content, durable, p)
      BY <1>3 DEF Copied
    <3> QED
      BY <2>2, <2>3, <2>4, <2>5, <3>1, HistoryPersist
  <2>7. All' = All
    BY <1>1 DEF All, logVars
  <2>8. Life(b, h)'
    BY <1>1, <1>3, <1>6, <2>1, <2>6, <2>7 DEF Life, txVars, logVars
  <2> QED
    BY <1>1, <1>6, <2>8, LifeStays DEF logVars
<1> QED
  BY <1>1, <1>2, <1>4, <1>5, <1>6 DEF VarsOK

-----------------------------------------------------------------------------
(* The end of a process.                                                    *)

\* The next one finds pages that its log brings to the rows that count.
LEMMA NextProcess ==
  ASSUME NEW pages, NEW log \in Seq(LogRecord), NEW mishaps, Gone(pages, log, mishaps),
         content' = durable',
         Restorable(log) => Determines(log, truth') /\ Fits(log, durable', truth')
  PROVE  Sane'
<1>1. /\ phase' = "down" /\ currentTxId_' = 0 /\ nextTxId_' = 1 /\ ending' = "no"
      /\ logFile_' = log /\ logBuf' = <<>> /\ replayed' = 0 /\ early' = FALSE
  BY DEF Gone
<1>2. Reached(log, content', 0)
  BY ReachedNothing
<1>3. \A j \in Visits(log) : ~(j <= 0)
  BY VisitsType
<1>4. Outside'
  BY <1>1, <1>2, <1>3 DEF Outside
<1> QED
  BY <1>1, <1>4 DEF Sane

LEMMA NothingLogged ==
  ASSUME NEW pages
  PROVE  Determines(<<>>, Heap!RowsOf(pages)) /\ Fits(<<>>, pages, Heap!RowsOf(pages))
<1>1. Visits(<<>>) = {}
  BY DEF Visits
<1>2. \A r \in Heap!RecordID : Marks(<<>>, r) = {} /\ Writes(<<>>, r) = {}
  BY <1>1 DEF Marks, Writes
<1> QED
  BY <1>2 DEF Determines, Fits, Heap!RowsOf, Bytes

LEMMA CrashSane ==
  ASSUME Base, Sane, Crash, Sound'
  PROVE  Sane'
<1>1. phase # "down" /\ Heap!Crash /\ Gone(durable, logFile_, {})
  BY DEF Crash
<1>2. content' = durable /\ durable' = durable /\ VarsOK /\ logFile_ \in Seq(LogRecord)
  BY <1>1, LossEffect, AllType DEF Base
<1>3. truth' = Owed(logFile_)
  BY <1>1 DEF Gone, Owed
<1>4. ASSUME Restorable(logFile_)
      PROVE  Determines(logFile_, truth') /\ Fits(logFile_, durable, truth')
  <2>1. CASE phase = "recovering"
    <3>1. Outside /\ ending = "no"
      BY <2>1 DEF Sane, Outside
    <3>2. truth' = truth
      BY <1>3, <3>1 DEF Owed
    <3> QED
      BY <1>4, <3>1, <3>2 DEF Outside
  <2>2. CASE phase = "serving" /\ logOpen
    BY <1>2, <1>3, <1>4, <2>2, LifeFound DEF Sane
  <2>3. CASE phase = "serving" /\ ~logOpen
    <3>1. logFile_ = <<>> /\ Heap!RowsOf(durable) = truth'
      BY <1>1, <2>3 DEF Sane, Unlogged, Gone, Sound
    <3> QED
      BY <3>1, NothingLogged
  <2> QED
    BY <1>1, <1>2, <2>1, <2>2, <2>3 DEF VarsOK
<1> QED
  BY <1>1, <1>2, <1>4, NextProcess

LEMMA CrashInLineSane ==
  ASSUME Base, AckInv, Sane, NEW rec, CrashInLine(rec), Sound'
  PROVE  Sane'
<1> DEFINE L == Append(logFile_, rec)
           n == Len(logFile_)
<1>1. /\ logBuf # <<>> /\ rec \in Fragments(Head(logBuf)) /\ Heap!Crash
      /\ Gone(durable, L, IF Misleads(rec, Head(logBuf)) THEN {"cut"} ELSE {})
      /\ ~Misleads(rec, Head(logBuf))
  BY DEF CrashInLine, Gone, Sound
<1>2. content' = durable /\ durable' = durable
  BY <1>1, LossEffect DEF Base
<1>3. phase = "serving"
  BY <1>1, Serving DEF Base, LogInv, NothingBuffered
<1>4. logOpen
  BY <1>1, <1>3 DEF Sane, Unlogged, Base, VarsOK
<1>5. PICK b, h : Life(b, h)
  BY <1>3, <1>4 DEF Sane
<1>6. /\ logFile_ \in Seq(LogRecord) /\ All \in Seq(LogRecord) /\ n \in Nat /\ Len(All) \in Nat
      /\ \A i \in 1 .. n : All[i] = logFile_[i]
  BY AllType
<1>7. /\ Head(logBuf) \in LogRecord /\ n + 1 <= Len(All) /\ All[n + 1] = Head(logBuf)
  BY <1>1, AllType, JoinedSpill DEF All
<1>8. /\ rec \in LogRecord
      /\ rec # Garbage => rec.op = All[n + 1].op
      /\ rec # Garbage /\ IsData(All[n + 1]) =>
           /\ rec.tx = All[n + 1].tx
           /\ rec.op # "DELETE" => rec.rid = All[n + 1].rid /\ rec.old = All[n + 1].old
      /\ rec # Garbage /\ ~IsData(All[n + 1]) => rec.tx \in 1 .. All[n + 1].tx - 1 /\ ~IsData(rec)
  <2> DEFINE hd == All[n + 1]
  <2>1. hd \in LogRecord /\ rec \in Fragments(hd) /\ ~Misleads(rec, hd)
    BY <1>1, <1>7
  <2> HIDE DEF hd
  <2>2. /\ rec \in LogRecord
        /\ rec # Garbage => rec.op = hd.op
        /\ rec # Garbage /\ IsData(hd) => rec.tx = hd.tx
        /\ rec # Garbage /\ hd.op = "INSERT" => rec.old = hd.old
        /\ rec # Garbage /\ hd.op = "UPDATE" => rec.rid = hd.rid /\ rec.old = hd.old
        /\ rec # Garbage /\ ~IsData(hd) => rec.tx \in 1 .. hd.tx - 1 /\ ~IsData(rec)
    BY <2>1, FragmentType
  <2>3. IsData(hd) => hd.op \in {"INSERT", "UPDATE", "DELETE"}
    BY DEF IsData
  <2>4. rec.op = "INSERT" => rec.rid = hd.rid
    BY <2>1 DEF Misleads
  <2> QED
    BY <2>2, <2>3, <2>4 DEF hd
<1>9. /\ L \in Seq(LogRecord) /\ Len(L) = n + 1 /\ L[n + 1] = rec
      /\ \A i \in 1 .. n : L[i] = logFile_[i]
      /\ \A op : Ended(L, op) = Ended(logFile_, op) \cup IF rec.op = op THEN {rec.tx} ELSE {}
  BY <1>6, <1>8, AppendLog
<1>10. /\ Shape(All, currentTxId_, nextTxId_, b) /\ b \in 0 .. Len(All) /\ b <= n
       /\ History(All, currentTxId_, h, content, durable, n, truth, b, early)
  BY <1>5, LifeType
<1>11. \A op \in {"COMMIT", "ABORT"} : currentTxId_ \notin Ended(logFile_, op)
  <2>1. Len(All) # n
    BY <1>6, <1>7
  <2> QED
    BY <1>5, <2>1, EndIsLast
<1> HIDE DEF L, n
<1>12. ASSUME Restorable(L)
       PROVE  rec # Garbage
  <2>1. n + 1 \in DOMAIN L
    BY <1>6, <1>9
  <2> QED
    BY <1>9, <1>12, <2>1 DEF Restorable, Replayable, CanRead
<1>13. n + 1 \in b + 1 .. Len(All) /\ All[n + 1].tx = currentTxId_
  <2>1. n + 1 \in b + 1 .. Len(All)
    BY <1>6, <1>7, <1>10
  <2> QED
    BY <1>10, <2>1 DEF Shape
<1>14. ASSUME Restorable(L), IsData(All[n + 1])
       PROVE  Determines(L, truth') /\ Fits(L, durable, truth')
  <2>1. rec # Garbage /\ IsData(rec) /\ rec.tx = currentTxId_ /\ rec.op = All[n + 1].op
    BY <1>8, <1>12, <1>13, <1>14 DEF IsData
  <2>2. \A op \in {"COMMIT", "ABORT"} : currentTxId_ \notin Ended(L, op)
    BY <1>9, <1>11, <2>1 DEF IsData
  <2>3. rec.op # "DELETE"
    <3> SUFFICES ASSUME rec.op = "DELETE" PROVE FALSE
      OBVIOUS
    <3>1. rec.old = Misfit
      BY <1>1 DEF Misleads
    <3>2. n + 2 \in 1 .. 2 * Len(L) /\ ~(n + 2 <= Len(L)) /\ 2 * Len(L) + 1 - (n + 2) = n + 1
      BY <1>6, <1>9
    <3>3. Visited(L, n + 2) = rec
      <4>1. Visited(L, n + 2) = AsRead(rec)
        BY <1>9, <3>2 DEF Visited
      <4> QED
        BY <4>1 DEF AsRead
    <3>4. n + 2 \in Visits(L)
      BY <2>1, <2>2, <3>2, <3>3 DEF Visits, Replays
    <3>5. StepAt(L, n + 2) = Undo(rec)
      BY <3>2, <3>3 DEF StepAt
    <3>6. ~CanReplay(Undo(rec))
      BY <3>1 DEF CanReplay, Undo
    <3> QED
      BY <1>14, <3>4, <3>5, <3>6 DEF Restorable, Replayable
  <2>4. rec.rid = All[n + 1].rid /\ rec.old = All[n + 1].old
    BY <1>8, <1>14, <2>1, <2>3
  <2>5. Part(L, All, b)
    <3>1. \A i \in 1 .. Len(L) : i \in 1 .. n \/ i = n + 1
      BY <1>6, <1>9
    <3>2. b <= Len(L) /\ Len(L) <= Len(All) /\ \A i \in 1 .. b : i \in 1 .. n
      BY <1>6, <1>7, <1>9, <1>10
    <3>3. \A i \in 1 .. n : L[i] = All[i]
      BY <1>6, <1>9
    <3>4. \A i \in 1 .. Len(L) : L[i].op = All[i].op /\ L[i].tx = All[i].tx
      BY <1>9, <1>13, <2>1, <3>1, <3>3
    <3>5. \A i \in 1 .. Len(L) : IsData(All[i]) => L[i].rid = All[i].rid /\ L[i].old = All[i].old
      BY <1>9, <2>4, <3>1, <3>3
    <3> QED
      BY <3>2, <3>3, <3>4, <3>5 DEF Part
  <2>6. n <= Len(L)
    BY <1>6, <1>9
  <2>7. Determines(L, truth) /\ Fits(L, durable, truth)
    BY <1>6, <1>9, <1>10, <1>14, <2>2, <2>5, <2>6, UnfinishedFound
  <2>8. truth' = truth
    BY <1>1, <2>2 DEF Gone
  <2> QED
    BY <2>7, <2>8
<1>15. ASSUME Restorable(L), ~IsData(All[n + 1])
       PROVE  Determines(L, truth') /\ Fits(L, durable, truth')
  <2>1. /\ rec # Garbage /\ ~IsData(rec) /\ rec.op = All[n + 1].op
        /\ rec.tx \in 1 .. currentTxId_ - 1
    BY <1>8, <1>12, <1>13, <1>15
  <2>2. currentTxId_ \in Int /\ nextTxId_ \in Int /\ currentTxId_ < nextTxId_
    BY <1>10, BoundType DEF Base, TxOK, Shape
  <2>3. rec.tx # currentTxId_ /\ rec.tx \in 1 .. nextTxId_ - 1
    BY <2>1, <2>2
  <2>4. rec.tx \in Ended(logFile_, "COMMIT") \cup Ended(logFile_, "ABORT")
    BY <1>3, <1>4, <2>3 DEF AckInv, AcknowledgedIsLogged
  <2>5. rec.op = "COMMIT" => rec.tx \in Ended(logFile_, "COMMIT")
    BY <1>1, <2>4 DEF Misleads
  <2>6. /\ Ended(L, "COMMIT") = Ended(logFile_, "COMMIT")
        /\ Ended(L, "COMMIT") \cup Ended(L, "ABORT") = Ended(logFile_, "COMMIT") \cup Ended(logFile_, "ABORT")
    BY <1>9, <2>4, <2>5
  <2>7. ReadsBack(L) /\ ReadsBack(logFile_)
    <3>1. \A i \in DOMAIN logFile_ : i \in DOMAIN L /\ L[i] = logFile_[i]
      <4>1. DOMAIN logFile_ = 1 .. n /\ DOMAIN L = 1 .. n + 1
        BY <1>6, <1>9 DEF n
      <4> QED
        BY <1>6, <1>9, <4>1
    <3> QED
      BY <1>15, <3>1 DEF Restorable, ReadsBack
  <2>8. Part(logFile_, All, b)
    BY <1>5, FilePart
  <2>9. Finds(logFile_, All, currentTxId_, b, n)
    BY <1>6, <1>10, <1>11, <2>7, <2>8, FindsUnfinished DEF n
  <2>10. Finds(L, All, currentTxId_, b, n)
    BY <1>6, <1>8, <2>1, <2>6, <2>7, <2>9, FindsAppended DEF L
  <2>11. Chain(All, currentTxId_, h) /\ After(h, b, truth) /\ Within(h, n, durable)
    BY <1>10 DEF History, After, Within
  <2>12. Determines(L, truth) /\ Fits(L, durable, truth)
    BY <1>6, <1>9, <1>15, <2>10, <2>11, Found DEF Restorable
  <2>13. truth' = truth
    <3>1. currentTxId_ \notin Ended(L, "COMMIT")
      BY <1>11, <2>6
    <3> QED
      BY <1>1, <3>1 DEF Gone
  <2> QED
    BY <2>12, <2>13
<1>16. Restorable(L) => Determines(L, truth') /\ Fits(L, durable, truth')
  BY <1>14, <1>15
<1> QED
  BY <1>1, <1>2, <1>9, <1>16, NextProcess

LEMMA ShutdownSane ==
  ASSUME Base, Sane, Shutdown, Sound'
  PROVE  Sane'
<1>1. phase = "serving" /\ ending = "no" /\ Heap!WriteBack(Heap!Page) /\ Gone(content, All, {})
  BY DEF Shutdown, Idle, All
<1>2. durable' = content /\ content' = content
  <2>1. content \in [Heap!Page -> Heap!HeapPage]
    BY HeapTame DEF Base, Tame
  <2> QED
    BY <1>1, <2>1 DEF Heap!WriteBack, Heap!Pool!Persist
<1>3. truth' = truth
  BY <1>1 DEF Gone
<1>4. /\ All \in Seq(LogRecord) /\ Len(All) \in Nat /\ logFile_ \in Seq(LogRecord)
  BY AllType
<1>5. ASSUME Restorable(All)
      PROVE  Determines(All, truth) /\ Fits(All, content, truth)
  <2>1. CASE logOpen
    <3>1. PICK b, h : Life(b, h)
      BY <1>1, <2>1 DEF Sane
    <3>2. /\ Shape(All, currentTxId_, nextTxId_, b)
          /\ currentTxId_ \notin Ended(All, "COMMIT") /\ currentTxId_ \notin Ended(All, "ABORT")
      BY <1>1, <3>1 DEF Life
    <3>3. History(All, currentTxId_, h, content, content, Len(All), truth, b, TRUE)
      <4>1. Len(All) \in 0 .. Len(All)
        BY <1>4
      <4> QED
        BY <3>1, <4>1 DEF Life, History
    <3>4. Part(All, All, b) /\ Len(All) <= Len(All)
      BY <1>4, <3>1, FilePart
    <3> QED
      BY <1>4, <1>5, <3>2, <3>3, <3>4, UnfinishedFound
  <2>2. CASE ~logOpen
    <3>1. All = <<>> /\ Heap!RowsOf(content) = truth
      BY <1>1, <1>3, <2>2, JoinedEmpty, <1>4 DEF Sane, Unlogged, All, Gone, Sound
    <3> QED
      BY <3>1, NothingLogged
  <2> QED
    BY <2>1, <2>2
<1> QED
  BY <1>1, <1>2, <1>3, <1>4, <1>5, NextProcess

-----------------------------------------------------------------------------
(* The theorems.                                                            *)

IInv == Base /\ AckInv /\ (Sound => Sane)

LEMMA InitIInv == Init => IInv
<1> SUFFICES ASSUME Init PROVE Sane
  BY InitBase, InitAckInv DEF IInv
<1>1. /\ Heap!Init /\ phase = "down" /\ currentTxId_ = 0 /\ nextTxId_ = 1 /\ ending = "no"
      /\ logFile_ = <<>> /\ logBuf = <<>> /\ replayed = 0 /\ truth = Heap!RowsOf(content)
      /\ early = FALSE
  BY DEF Init
<1>2. content = durable
  BY <1>1 DEF Heap!Init, Heap!Pool!Init
<1>3. Determines(logFile_, truth) /\ Fits(logFile_, content, truth)
  BY <1>1, NothingLogged
<1>4. Reached(logFile_, content, replayed)
  BY <1>1, InitBase, AllType, ReachedNothing
<1>5. Visits(logFile_) = {}
  BY <1>1 DEF Visits
<1> QED
  BY <1>1, <1>2, <1>3, <1>4, <1>5 DEF Sane, Outside

\* What has happened stays.
LEMMA SoundBefore == ASSUME Base, Next, Sound' PROVE Sound
<1>1. CASE Start \/ ReplayStep \/ FinishRecovery \/ Begin \/ FlushEnd \/ Acknowledge \/ Spill
  BY <1>1 DEF Start, ReplayStep, FinishRecovery, Begin, FlushEnd, Acknowledge, Spill, histVars, Sound
<1>2. ASSUME NEW r \in Heap!RecordID,
             \/ \E v \in Value : Insert(r, v) \/ Update(r, v)
             \/ Delete(r) \/ RefusedUpdate(r)
      PROVE  Sound
  BY <1>2 DEF Insert, Update, Delete, RefusedUpdate, Statement, histVars, Sound
<1>3. ASSUME NEW op \in {"COMMIT", "ABORT"}, LogEnd(op)
      PROVE  Sound
  BY <1>3 DEF LogEnd, Sound
<1>4. ASSUME NEW p \in Heap!Page, WriteBack(p)
      PROVE  Sound
  BY <1>4 DEF WriteBack, Sound
<1>5. CASE Crash \/ Shutdown \/ \E rec : CrashInLine(rec)
  BY <1>5 DEF Crash, Shutdown, CrashInLine, Gone, Sound
<1> QED
  BY <1>1, <1>2, <1>3, <1>4, <1>5 DEF Next

LEMMA NextIInv == IInv /\ [Next]_vars => IInv'
<1> SUFFICES ASSUME IInv, [Next]_vars, Sound' PROVE Sane'
  BY NextBase, NextAckInv DEF IInv
<1>1. Base /\ Base' /\ AckInv
  BY NextBase DEF IInv
<1>2. CASE UNCHANGED vars
  <2>1. Sane
    BY <1>2 DEF IInv, Sound, vars, histVars
  <2> QED
    BY <1>2, <2>1 DEF vars, heapVars, txVars, logVars, histVars, Sane, Outside, Life, Unlogged, All
<1>3. CASE Next
  <2>1. Sane
    BY <1>1, <1>3, SoundBefore DEF IInv
  <2>2. CASE Start \/ ReplayStep \/ FinishRecovery \/ Begin \/ FlushEnd \/ Acknowledge \/ Spill
    BY <1>1, <2>1, <2>2, StartSane, ReplaySane, FinishExact, BeginSane, FlushEndSane,
       AcknowledgeSane, SpillSane
  <2>3. ASSUME NEW r \in Heap!RecordID,
               \/ \E v \in Value : Insert(r, v) \/ Update(r, v)
               \/ Delete(r) \/ RefusedUpdate(r)
        PROVE  Sane'
    BY <1>1, <2>1, <2>3, ChangeSane
  <2>4. CASE \E op \in {"COMMIT", "ABORT"} : LogEnd(op)
    BY <1>1, <2>1, <2>4, LogEndSane
  <2>5. CASE \E p \in Heap!Page : WriteBack(p)
    BY <1>1, <2>1, <2>5, WriteBackSane
  <2>6. CASE Crash \/ Shutdown \/ \E rec : CrashInLine(rec)
    BY <1>1, <2>1, <2>6, CrashSane, CrashInLineSane, ShutdownSane
  <2> QED
    BY <1>3, <2>2, <2>3, <2>4, <2>5, <2>6 DEF Next
<1> QED
  BY <1>2, <1>3

\* RecoverableNow, of WALManager::recover() over any heap: were the process to die at
\* this moment, serving with a log or recovering, the log file and the pages that
\* have reached the disk would give back the acknowledged commits, no row more and
\* none less, or with them the commit whose record is in the file already.
THEOREM Recoverable == Spec => []RecoverableNow
<1>1. IInv => RecoverableNow
  BY Recovers DEF IInv
<1> QED
  BY <1>1, InitIInv, NextIInv, PTL DEF Spec

\* RecoversCommitted, of WALManager::recover() and the redo and undo functions: when the
\* last record has been undone the heap's rows are the acknowledged commits,
\* whatever earlier attempts at recovery had replayed and lost again.
THEOREM RecoveryIsExact == Spec => RecoversCommitted
<1>1. IInv /\ [Next]_vars => [FinishRecovery /\ Sound' => Heap!RowsOf(content) = truth]_vars
  BY FinishExact DEF IInv, FinishRecovery, Sound
<1> QED
  BY <1>1, InitIInv, NextIInv, PTL DEF Spec, RecoversCommitted
=============================================================================
