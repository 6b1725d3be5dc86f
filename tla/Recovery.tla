------------------------------ MODULE Recovery ------------------------------
(***************************************************************************)
(* src/_WALManager/WALManager.cpp with the statements of                   *)
(* queryEngine/lockOptimized/QueryEngine.cpp that log, the redo functions  *)
(* of storageEngine/StorageEngine.cpp and the heap pages they write, under *)
(* crashes and shutdowns: the lives of one database.                       *)
(*                                                                         *)
(* The log is a file and the buffer of the ofstream in front of it.  A     *)
(* record is buffered by <<, reaches the file when the buffer fills up     *)
(* (any time after) or at flush(), and is lost in the buffer by a crash,   *)
(* which may leave the first part of its line in the file.  A record is    *)
(* text: there are values the log can hold and recover() cannot read, or   *)
(* reads as others, and a number that is cut is another number.            *)
(* The heap is module TableHeap; a lookup in the index is the choice of    *)
(* some record that is alive, the key column is an INT (redoInsert throws  *)
(* for another), and what redoInsert enters in the index is left out.      *)
(* QueryEngine runs one transaction at a time, so table locks (module      *)
(* TxStorage) play no part here.                                           *)
(***************************************************************************)
EXTENDS Integers, Sequences, SequencesExt

CONSTANTS MaxPages, MaxSlots, Value, Zero,   \* the heap
          Unreadable, \* values a line cannot be read with, such as "" or one with a comma
          Misfit,    \* a value the column does not take
          OldRead,   \* the old value of an UPDATE line as it is read: up to its first ';'
          Radix,     \* of the numbers in the log: 10
          MaxTx,     \* bound: transactions in one life of the process
          MaxLog,    \* bound: data records in the log
          Steal,     \* are pages evicted while a transaction is open?
          SkipRecovery  \* may a process with an empty log serve without recover()?

ASSUME RecoveryAssumption ==
  /\ MaxPages \in Nat \ {0} /\ MaxSlots \in Nat \ {0}
  /\ Unreadable \subseteq Value /\ Misfit \notin Value \cup {Zero}
  /\ OldRead \in [Value \cup {Zero, Misfit} -> Value \cup {Zero, Misfit}]
  /\ Radix \in Nat \ {0, 1}
  /\ MaxTx \in Nat /\ MaxLog \in Nat /\ Steal \in BOOLEAN /\ SkipRecovery \in BOOLEAN

VARIABLES
  content, durable, pageCount,  \* the heap: in the pool, and on disk
  phase,         \* "down", "recovering" or "serving"
  currentTxId_,  \* 0 = none
  nextTxId_,     \* of TransactionManager; restarts at 1 in every process
  ending,        \* how far COMMIT or ROLLBACK has come
  logFile_,      \* records in the log file
  logBuf,        \* records in the buffer of logOut_
  logOpen,       \* logOut_ accepts output
  replayed,      \* the last visit of recover() that replayed a record
  truth,         \* history: the records of the acknowledged commits
  committed,     \* history: the transactions of this process acknowledged as committed
  early,         \* history: pages were written while the transaction was open
  spoilt         \* history: which of the Mishaps have happened

heapVars == <<content, durable, pageCount>>
logVars  == <<logFile_, logBuf, logOpen>>
txVars   == <<currentTxId_, nextTxId_, ending>>
histVars == <<truth, committed, early, spoilt>>
vars == <<heapVars, phase, txVars, logVars, replayed, histVars>>

Heap == INSTANCE TableHeap

TxId == 1 .. MaxTx

Datum == Value \cup {Zero, Misfit}

DataRecord == [op : {"INSERT", "DELETE", "UPDATE"}, tx : TxId, rid : Heap!RecordID,
               old : Datum, new : Datum]
EndRecord  == [op : {"COMMIT", "ABORT"}, tx : TxId]

\* A line that ends before what recover() looks for in it.
Garbage == [op |-> "garbage", tx |-> 0]

LogRecord  == DataRecord \cup EndRecord \cup {Garbage}

\* What has happened to the database that recovery cannot make good: a ROLLBACK
\* that left changes behind, in the pool or on disk; a crash of a process that does
\* not log; a page written to disk ahead of its log records; a line cut inside a
\* value or a number so that it reads as another record; a value read as another.
Mishaps == {"rollback", "no log", "stolen", "cut", "misread"}

TypeOK ==
  /\ Heap!TypeOK
  /\ phase \in {"down", "recovering", "serving"}
  /\ currentTxId_ \in 0 .. MaxTx
  /\ nextTxId_ \in 1 .. MaxTx + 1
  /\ ending \in {"no", "COMMIT", "COMMIT flushed", "ABORT", "ABORT flushed"}
  /\ logFile_ \in Seq(LogRecord)
  /\ logBuf \in Seq(LogRecord)
  /\ logOpen \in BOOLEAN
  /\ replayed \in Nat
  /\ committed \subseteq TxId
  /\ early \in BOOLEAN
  /\ spoilt \subseteq Mishaps

Init ==
  /\ Heap!Init
  /\ phase = "down"
  /\ currentTxId_ = 0 /\ nextTxId_ = 1 /\ ending = "no"
  /\ logFile_ = <<>> /\ logBuf = <<>> /\ logOpen = FALSE
  /\ replayed = 0
  /\ truth = Heap!RowsOf(content)
  /\ committed = {} /\ early = FALSE /\ spoilt = {}

-----------------------------------------------------------------------------
(* What recover() does with the records of the log.                         *)

IsData(rec) == rec.op \in {"INSERT", "DELETE", "UPDATE"}

Ended(log, op) == {log[i].tx : i \in {j \in DOMAIN log : log[j].op = op}}

\* Steps 3 and 4 of recover(): the records of committed transactions in log order,
\* then those of transactions neither committed nor aborted, backwards.
Redo(rec) == [do |-> CASE rec.op = "INSERT" -> "insertAt"
                       [] rec.op = "DELETE" -> "deleteAt"
                       [] rec.op = "UPDATE" -> "updateAt",
              rid |-> rec.rid, value |-> rec.new]

Undo(rec) == [do |-> CASE rec.op = "INSERT" -> "deleteAt"
                       [] rec.op = "DELETE" -> "insertAt"
                       [] rec.op = "UPDATE" -> "updateAt",
              rid |-> rec.rid, value |-> rec.old]

\* An UPDATE line is taken apart at its first ';', which may be in the old value.  In
\* front of another column it leaves both sides with the wrong number of values.
AsRead(rec) ==
  IF rec.op = "UPDATE"
  THEN [rec EXCEPT !.old = OldRead[@],
                   !.new = IF OldRead[rec.old] = Misfit THEN Misfit ELSE @]
  ELSE rec

\* Is every record read as it was written?
ReadsBack(log) == \A i \in DOMAIN log : AsRead(log[i]) = log[i]

\* Faulty: the second loop goes forwards too.
VisitedForward(log, j) == AsRead(log[IF j <= Len(log) THEN j ELSE j - Len(log)])

\* The two loops make 2 * Len(log) visits: to the records in log order, then backwards.
Visited(log, j) == AsRead(log[IF j <= Len(log) THEN j ELSE 2 * Len(log) + 1 - j])

\* Faulty: the second loop takes aborted transactions for unfinished ones.
ReplaysAborted(log, j) ==
  LET rec == Visited(log, j) IN
  IsData(rec) /\ (j <= Len(log) <=> rec.tx \in Ended(log, "COMMIT"))

\* Does the visit replay its record?
Replays(log, j) ==
  LET rec == Visited(log, j) IN
  /\ IsData(rec)
  /\ IF j <= Len(log) THEN rec.tx \in Ended(log, "COMMIT")
                      ELSE rec.tx \notin Ended(log, "COMMIT") \cup Ended(log, "ABORT")

Visits(log) == {j \in 1 .. 2 * Len(log) : Replays(log, j)}

StepAt(log, j) == IF j <= Len(log) THEN Redo(Visited(log, j)) ELSE Undo(Visited(log, j))

\* Step 1 of recover() reads every line before anything is replayed.
CanRead(log) ==
  \A i \in DOMAIN log : log[i] # Garbage
                       /\ LET rec == AsRead(log[i]) IN
                            IsData(rec) => {rec.old, rec.new} \cap Unreadable = {}

\* insertAt and updateAt build a Record, which checks the value.
CanReplay(step) == step.do = "deleteAt" \/ step.value # Misfit

Replayable(log) == CanRead(log) /\ \A j \in Visits(log) : CanReplay(StepAt(log, j))

\* redoInsert, redoDelete and redoUpdate on one page.
ReplayOn(page, step) ==
  CASE step.do = "insertAt" -> Heap!PutSlot(page, step.rid.slotNum, step.value)
    [] step.do = "deleteAt" -> Heap!KillSlot(page, step.rid.slotNum)
    [] step.do = "updateAt" -> Heap!WriteSlot(page, step.rid.slotNum, step.value)

\* What recover() would make of the pages on disk and the log file.
ReplayAll(pages, log) ==
  LET after[j \in 0 .. 2 * Len(log)] ==
        IF j = 0 THEN pages
        ELSE IF Replays(log, j)
        THEN [after[j - 1] EXCEPT ![StepAt(log, j).rid.pageId] = ReplayOn(@, StepAt(log, j))]
        ELSE after[j - 1]
  IN  after[2 * Len(log)]

-----------------------------------------------------------------------------
(* The log.                                                                 *)

\* operator<<: on a stream in a failed state it writes nothing.
Append1(recs) == logBuf' = IF logOpen THEN logBuf \o recs ELSE logBuf

Log(rec) ==
  /\ Append1(<<rec>>)
  /\ UNCHANGED <<logFile_, logOpen>>

FlushLog ==
  /\ logFile_' = logFile_ \o logBuf
  /\ logBuf' = <<>>
  /\ UNCHANGED logOpen

\* The stream's buffer fills up and a first part of it goes to the file.
Spill ==
  /\ logBuf # <<>>
  /\ logFile_' = Append(logFile_, Head(logBuf))
  /\ logBuf' = Tail(logBuf)
  /\ UNCHANGED <<heapVars, phase, txVars, logOpen, replayed, histVars>>

-----------------------------------------------------------------------------
(* Starting: the constructors, and recover().                               *)

Start ==
  /\ phase = "down"
  /\ logOpen' = TRUE
  /\ \/ phase' = "recovering"
     \/ SkipRecovery /\ logFile_ = <<>> /\ phase' = "serving"
  /\ replayed' = 0
  /\ UNCHANGED <<heapVars, txVars, logFile_, logBuf, histVars>>

\* A line that cannot be read and a record that cannot be built are exceptions
\* nobody catches: the process is at its end (Crash), and so is every next one.
ReplayStep ==
  /\ phase = "recovering"
  /\ CanRead(logFile_)
  /\ \E j \in Visits(logFile_) :
       /\ j > replayed
       /\ \A i \in Visits(logFile_) : i > replayed => j <= i
       /\ CanReplay(StepAt(logFile_, j))
       /\ LET s == StepAt(logFile_, j) IN
            CASE s.do = "insertAt" -> Heap!InsertAt(s.rid, s.value)
              [] s.do = "deleteAt" -> Heap!DeleteAt(s.rid)
              [] s.do = "updateAt" -> Heap!UpdateAt(s.rid, s.value)
       /\ replayed' = j
  /\ UNCHANGED <<phase, txVars, logVars, histVars>>

\* The file is truncated through a second stream; then open() on logOut_, which
\* the constructor opened already, fails and puts it into a failed state.
FinishRecovery ==
  /\ phase = "recovering"
  /\ CanRead(logFile_)
  /\ \A j \in Visits(logFile_) : j <= replayed
  /\ logFile_' = <<>>
  /\ logOpen' = FALSE
  /\ phase' = "serving"
  /\ replayed' = 0
  /\ spoilt' = IF ReadsBack(logFile_) THEN spoilt ELSE spoilt \cup {"misread"}
  /\ UNCHANGED <<heapVars, txVars, logBuf, truth, committed, early>>

-----------------------------------------------------------------------------
(* Serving.                                                                 *)

Idle == phase = "serving" /\ ending = "no"

Begin ==
  /\ Idle /\ currentTxId_ = 0
  /\ nextTxId_ <= MaxTx
  /\ currentTxId_' = nextTxId_
  /\ nextTxId_' = nextTxId_ + 1
  /\ early' = FALSE
  /\ UNCHANGED <<heapVars, phase, ending, logVars, replayed, truth, committed, spoilt>>

\* Faulty: the id of the transaction to come.
LoggedForNext(op, r, old, new) ==
  [op |-> op, tx |-> nextTxId_, rid |-> r, old |-> old, new |-> new]

Logged(op, r, old, new) ==
  [op |-> op, tx |-> currentTxId_, rid |-> r, old |-> old, new |-> new]

\* A statement inside the transaction that logs rec.
Statement(rec) ==
  /\ Idle /\ currentTxId_ # 0
  /\ Len(SelectSeq(logFile_ \o logBuf, IsData)) < MaxLog
  /\ Log(rec)
  /\ UNCHANGED <<phase, txVars, replayed, histVars>>

Old(r) == content[r.pageId].record[r.slotNum]

Insert(r, v) == Heap!InsertRecord(r, v) /\ Statement(Logged("INSERT", r, Zero, v))
Delete(r)    == Heap!DeleteRecord(r)    /\ Statement(Logged("DELETE", r, Old(r), Zero))
Update(r, v) == Heap!UpdateRecord(r, v) /\ Statement(Logged("UPDATE", r, Old(r), v))

\* updateRecords logs before the heap looks at the value and throws.
RefusedUpdate(r) ==
  /\ Heap!InFile(r) /\ Heap!Live(r)
  /\ Statement(Logged("UPDATE", r, Old(r), Misfit))
  /\ UNCHANGED heapVars

\* COMMIT and ROLLBACK: the record is logged, the log flushed, and the
\* transaction ended and acknowledged.  ROLLBACK leaves the heap as it is.
LogEnd(op) ==
  /\ Idle /\ currentTxId_ # 0
  /\ ending' = op
  /\ Log([op |-> op, tx |-> currentTxId_])
  /\ spoilt' = IF op = "ABORT" /\ (early \/ Heap!RowsOf(content) # truth)
               THEN spoilt \cup {"rollback"} ELSE spoilt
  /\ UNCHANGED <<heapVars, phase, currentTxId_, nextTxId_, replayed, truth, committed, early>>

\* Faulty: goes on without the flush.
SkipFlush ==
  /\ \/ ending = "COMMIT" /\ ending' = "COMMIT flushed"
     \/ ending = "ABORT"  /\ ending' = "ABORT flushed"
  /\ UNCHANGED <<heapVars, phase, currentTxId_, nextTxId_, logVars, replayed, histVars>>

FlushEnd ==
  /\ \/ ending = "COMMIT" /\ ending' = "COMMIT flushed"
     \/ ending = "ABORT"  /\ ending' = "ABORT flushed"
  /\ FlushLog
  /\ UNCHANGED <<heapVars, phase, currentTxId_, nextTxId_, replayed, histVars>>

Acknowledge ==
  /\ ending \in {"COMMIT flushed", "ABORT flushed"}
  /\ truth' = IF ending = "COMMIT flushed" THEN Heap!RowsOf(content) ELSE truth
  /\ committed' = IF ending = "COMMIT flushed" THEN committed \cup {currentTxId_} ELSE committed
  /\ currentTxId_' = 0
  /\ ending' = "no"
  /\ UNCHANGED <<heapVars, phase, nextTxId_, logVars, replayed, early, spoilt>>

-----------------------------------------------------------------------------
(* The pool, and the end of the process.                                    *)

Buffered(p) == \E i \in DOMAIN logBuf : IsData(logBuf[i]) /\ logBuf[i].rid.pageId = p

WriteBack(p) ==
  /\ phase # "down"
  /\ phase = "serving" => ending = "no" /\ (currentTxId_ = 0 \/ Steal)
  /\ content[p] # durable[p]
  /\ Heap!WriteBack({p})
  /\ spoilt' = IF Buffered(p) THEN spoilt \cup {"stolen"} ELSE spoilt
  /\ early' = (early \/ currentTxId_ # 0)
  /\ UNCHANGED <<phase, txVars, logVars, replayed, truth, committed>>

\* The numbers n may be cut to.
Cut(n) == {m \in 1 .. n - 1 : \E k \in 1 .. n : m = n \div (Radix ^ k)}

\* What a line may be that is in the file up to some character.  It ends in front of
\* something recover() needs, or of a value undo does not use (an unfinished
\* transaction is never redone), or inside a value, or inside its last number.  An
\* UPDATE without its ';' is refused.
Fragments(rec) ==
  {Garbage} \cup
  CASE rec.op = "INSERT" -> {[rec EXCEPT !.new = Zero, !.rid.slotNum = n] :
                               n \in Cut(rec.rid.slotNum) \cup {rec.rid.slotNum}}
    [] rec.op = "UPDATE" -> {[rec EXCEPT !.new = Zero]}
    [] rec.op = "DELETE" -> {[rec EXCEPT !.old = v] : v \in (Value \cup {Misfit}) \ {rec.old}}
                       \cup {[rec EXCEPT !.old = Misfit, !.rid.slotNum = n] :
                               n \in Cut(rec.rid.slotNum)}
    [] OTHER -> {[rec EXCEPT !.tx = n] : n \in Cut(rec.tx)}

\* Fragments that recover() acts upon as it must not: undo deletes another record, or
\* inserts another value; redo repeats the work of an aborted transaction.
Misleads(frag, rec) ==
  \/ frag.op = "INSERT" /\ frag.rid # rec.rid
  \/ frag.op = "DELETE" /\ frag.old # Misfit
  \/ frag.op = "COMMIT" /\ frag.tx \in Ended(logFile_, "ABORT")

\* The next process finds what is on disk.  A commit whose record reached the
\* log counts, acknowledged or not; work that no log covers may be gone.
Gone(pages, log, mishaps) ==
  /\ phase' = "down"
  /\ currentTxId_' = 0 /\ nextTxId_' = 1 /\ ending' = "no"
  /\ logFile_' = log
  /\ logBuf' = <<>>
  /\ logOpen' = FALSE
  /\ replayed' = 0
  /\ truth' = IF ending \in {"COMMIT", "COMMIT flushed"} /\ currentTxId_ \in Ended(log, "COMMIT")
              THEN Heap!RowsOf(content) ELSE truth
  /\ committed' = {}
  /\ early' = FALSE
  /\ spoilt' = spoilt \cup mishaps \cup
       IF phase = "serving" /\ ~logOpen /\ Heap!RowsOf(pages) # truth' THEN {"no log"} ELSE {}

Crash ==
  /\ phase # "down"
  /\ Heap!Crash
  /\ Gone(durable, logFile_, {})

\* What the stream wrote last ended inside a line.
CrashInLine(rec) ==
  /\ phase # "down" /\ logBuf # <<>>
  /\ rec \in Fragments(Head(logBuf))
  /\ Heap!Crash
  /\ Gone(durable, Append(logFile_, rec),
          IF Misleads(rec, Head(logBuf)) THEN {"cut"} ELSE {})

\* The destructors, in this order: WALManager closes the log, BufferManager
\* flushes every page.
Shutdown ==
  /\ Idle
  /\ Heap!WriteBack(Heap!Page)
  /\ Gone(content, logFile_ \o logBuf, {})

Next ==
  \/ Start \/ ReplayStep \/ FinishRecovery
  \/ Begin
  \/ \E r \in Heap!RecordID, v \in Value : Insert(r, v) \/ Update(r, v)
  \/ \E r \in Heap!RecordID : Delete(r) \/ RefusedUpdate(r)
  \/ \E op \in {"COMMIT", "ABORT"} : LogEnd(op)
  \/ FlushEnd \/ Acknowledge
  \/ Spill
  \/ \E p \in Heap!Page : WriteBack(p)
  \/ Crash \/ Shutdown
  \/ logBuf # <<>> /\ \E rec \in Fragments(Head(logBuf)) : CrashInLine(rec)

Spec == Init /\ [][Next]_vars

-----------------------------------------------------------------------------
\* From here on only databases are looked at that have met none of the Mishaps.
Sound == spoilt = {}

\* If the process died now, recover() would bring back exactly the acknowledged
\* commits, or also the one whose COMMIT record is on its way, unless it ended
\* at a record it cannot read or build, or read an old value as another: at every
\* moment of a life that logs, and of every recovery, whichever pages have reached
\* the disk before (those of an open transaction too, once its log records have),
\* whatever the log has of an update the heap refused, and wherever the last line is
\* cut (WALManager.h:49-51).
RecoverableNow ==
  (Sound /\ (phase = "serving" => logOpen) /\ Replayable(logFile_) /\ ReadsBack(logFile_)) =>
    LET found == Heap!RowsOf(ReplayAll(durable, logFile_))
    IN  \/ found = truth
        \/ /\ ending \in {"COMMIT", "COMMIT flushed"}
           /\ currentTxId_ \in Ended(logFile_, "COMMIT")
           /\ found = Heap!RowsOf(content)

\* What recover() leaves in the pool, after any number of attempts, are the
\* acknowledged commits.
RecoversCommitted ==
  [][FinishRecovery /\ Sound' => Heap!RowsOf(content) = truth]_vars

\* In a life that logs (after recover() none does), every transaction acknowledged as
\* committed has its COMMIT record in the log file, every other one that has ended its
\* ABORT record, and what is still in the stream's buffer, where a crash would take
\* it, is of the open transaction (QueryEngine.cpp:83-84, 90-91).
AcknowledgedIsLogged ==
  phase = "serving" /\ logOpen =>
    /\ committed \subseteq Ended(logFile_, "COMMIT")
    /\ (1 .. nextTxId_ - 1) \ (committed \cup {currentTxId_}) \subseteq Ended(logFile_, "ABORT")
    /\ \A i \in DOMAIN logBuf : logBuf[i].tx = currentTxId_

\* README.md:18 (WAL logging, crash recovery, ACID) and WALManager.cpp:206
\* ("reopen for appending"): without a rollback, what the engine serves between
\* transactions are the acknowledged commits, in this process and the next.
ServesCommitted ==
  phase = "serving" /\ currentTxId_ = 0 /\ "rollback" \notin spoilt =>
    Heap!RowsOf(content) = truth
=============================================================================
