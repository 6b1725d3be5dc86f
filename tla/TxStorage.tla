----------------------------- MODULE TxStorage -----------------------------
(***************************************************************************)
(* src/storageEngine/lockOptimized/StorageEngine.cpp with LockManager and  *)
(* TransactionManager: statements of several transactions, in any order,   *)
(* over heaps and primary-key indexes under table locks.  Every function   *)
(* of the engine takes the transaction's id; QueryEngine, which keeps one  *)
(* currentTxId_ for all its clients, is the case of one open transaction   *)
(* at a time.  A statement is one action, with the lock it takes, the heap *)
(* and index changes it makes and the exceptions that cut it short.  A     *)
(* statement on a table that is not registered throws before its lock, and *)
(* a DELETE without a WHERE ends the process (module Recovery).            *)
(*                                                                         *)
(* The heap is the row store that module TableHeap implements, with the    *)
(* record id insertRecord chooses: the first free one.  The index is a map *)
(* from keys to record ids, as BPlusTree is up to its first split.         *)
(* Logging and crashes are the subject of module Recovery.                 *)
(***************************************************************************)
EXTENDS TransactionManager, FiniteSets

CONSTANTS Table,
          Key,       \* primary keys, among them the 0 of updateRecords
          MaxRows,   \* bound: record ids of a table are 1 .. MaxRows
          MaxOpen,   \* how many transactions are open at once
          NoTx,      \* the xHolder of a table nobody holds X on
          Name,      \* primary keys of a table whose key column is no INT
          Unknown    \* "has not looked at the table"

ASSUME StorageAssumption == 0 \in Key /\ MaxRows \in Nat /\ MaxOpen \in Nat
                            /\ NoTx \notin TxId /\ Name \cap Key = {}

VARIABLES catalog_,  \* the tables the Catalog knows
          tables_,   \* tables_[tbl]: the type of its key column, "none" = no heap and index
          stats,     \* stats[tbl]: what ANALYZE last put into the Catalog
          table_,    \* LockManager::table_
          rows,      \* rows[tbl]: record id |-> primary key of the record
          index,     \* index[tbl]: key |-> record id
          view,      \* history: the rows t saw or left in tbl at its last statement on it
          before     \* history: the rows of tbl when t first locked it exclusively

dataVars == <<rows, index>>
histVars == <<view, before>>
schemaVars == <<catalog_, tables_, stats>>
vars == <<txVars, schemaVars, table_, dataVars, histVars>>

Locks == INSTANCE LockManager WITH Resource <- Table

Rid == 1 .. MaxRows

PartialMap(S, T) == UNION {[D -> T] : D \in SUBSET S}

Content == PartialMap(Rid, Key \cup Name)

TypeOK ==
  /\ TxTypeOK
  /\ catalog_ \subseteq Table
  /\ tables_ \in [Table -> {"none", "INT", "STRING"}]
  /\ stats \in [Table -> [rowCount : Nat, distinct : Nat]]
  /\ Locks!TypeOK
  /\ rows  \in [Table -> Content]
  /\ index \in [Table -> PartialMap(Key, Rid)]
  /\ view   \in [TxId -> [Table -> Content \cup {Unknown}]]
  /\ before \in [TxId -> [Table -> Content \cup {Unknown}]]

EmptyMap == [x \in {} |-> 0]

Init ==
  /\ TxInit
  /\ catalog_ = {} /\ tables_ = [tbl \in Table |-> "none"]
  /\ stats = [tbl \in Table |-> [rowCount |-> 0, distinct |-> 0]]
  /\ Locks!Init
  /\ rows  = [tbl \in Table |-> EmptyMap]
  /\ index = [tbl \in Table |-> EmptyMap]
  /\ view   = [t \in TxId |-> [tbl \in Table |-> Unknown]]
  /\ before = [t \in TxId |-> [tbl \in Table |-> Unknown]]

-----------------------------------------------------------------------------
Put(f, x, y) == [z \in DOMAIN f \cup {x} |-> IF z = x THEN y ELSE f[z]]
Remove(f, x) == [z \in DOMAIN f \ {x} |-> f[z]]

Registered(tbl) == tables_[tbl] # "none"

\* addTable comes before the search for the primary key column: when that fails
\* (type "none"), the name is taken and the table cannot be used, nor registered
\* again.  Any type of column will do.
RegisterTable(tbl, type) ==
  /\ tbl \notin catalog_
  /\ catalog_' = catalog_ \cup {tbl}
  /\ tables_' = [tables_ EXCEPT ![tbl] = type]
  /\ UNCHANGED <<stats, txVars, table_, dataVars, histVars>>

\* ANALYZE counts rows and different values without a lock, those of unfinished
\* transactions among them.
Analyze(tbl) ==
  /\ Registered(tbl)
  /\ stats' = [stats EXCEPT ![tbl] =
                 [rowCount |-> Cardinality(DOMAIN rows[tbl]),
                  distinct |-> Cardinality({rows[tbl][r] : r \in DOMAIN rows[tbl]})]]
  /\ UNCHANGED <<catalog_, tables_, txVars, table_, dataVars, histVars>>

Begin(t) ==
  /\ Cardinality({u \in TxId : Active(u)}) < MaxOpen
  /\ BeginTransaction(t)
  /\ UNCHANGED <<schemaVars, table_, dataVars, histVars>>

\* Faulty: locks the table shared.
WriteLockShared(t, tbl) ==
  /\ Active(t) /\ Registered(tbl)
  /\ Locks!LockShared(t, tbl)
  /\ before' = [before EXCEPT ![t][tbl] = IF @ = Unknown THEN rows[tbl] ELSE @]
  /\ view' = [view EXCEPT ![t][tbl] = rows'[tbl]]
  /\ UNCHANGED <<schemaVars, txVars>>

\* What a statement of t that changes (or may change) tbl does first.
WriteLock(t, tbl) ==
  /\ Active(t) /\ Registered(tbl)
  /\ Locks!LockExclusive(t, tbl)
  /\ before' = [before EXCEPT ![t][tbl] = IF @ = Unknown THEN rows[tbl] ELSE @]
  /\ view' = [view EXCEPT ![t][tbl] = rows'[tbl]]
  /\ UNCHANGED <<schemaVars, txVars>>

\* An unknown column in an INSERT, a key that is not found, a value the record
\* does not take: the statement ends, the lock stays.
EmptyHanded(t, tbl) ==
  /\ UNCHANGED dataVars
  /\ WriteLock(t, tbl)

FirstFree(tbl, r) ==
  r \in Rid \ DOMAIN rows[tbl] /\ \A q \in Rid \ DOMAIN rows[tbl] : r <= q

\* Nothing looks for another row with the same key: the index entry moves.
InsertRecord(t, tbl, k) ==
  /\ tables_[tbl] = "INT"
  /\ \E r \in Rid :
       /\ FirstFree(tbl, r)
       /\ rows'  = [rows EXCEPT ![tbl] = Put(@, r, k)]
       /\ index' = [index EXCEPT ![tbl] = Put(@, k, r)]
  /\ WriteLock(t, tbl)

\* The key is taken for an INT behind the heap and the log: the exception leaves the row.
InsertKeyless(t, tbl, n) ==
  /\ tables_[tbl] = "STRING"
  /\ \E r \in Rid :
       /\ FirstFree(tbl, r)
       /\ rows' = [rows EXCEPT ![tbl] = Put(@, r, n)]
  /\ UNCHANGED index
  /\ WriteLock(t, tbl)

\* Faulty: leaves the index entry.
DeleteFromHeapOnly(t, tbl, k) ==
  /\ k \in DOMAIN index[tbl]
  /\ index[tbl][k] \in DOMAIN rows[tbl]
  /\ rows' = [rows EXCEPT ![tbl] = Remove(@, index[tbl][k])]
  /\ UNCHANGED index
  /\ WriteLock(t, tbl)

DeleteRecords(t, tbl, k) ==
  /\ k \in DOMAIN index[tbl]
  /\ index[tbl][k] \in DOMAIN rows[tbl]
  /\ rows'  = [rows EXCEPT ![tbl] = Remove(@, index[tbl][k])]
  /\ index' = [index EXCEPT ![tbl] = Remove(@, k)]
  /\ WriteLock(t, tbl)

\* The key of the row to update is 0, whatever the statement's WHERE says, and
\* an assignment to the primary key leaves the index as it is.
UpdateRecords(t, tbl, k) ==
  /\ 0 \in DOMAIN index[tbl]
  /\ index[tbl][0] \in DOMAIN rows[tbl]
  /\ rows' = [rows EXCEPT ![tbl][index[tbl][0]] = k]
  /\ UNCHANGED index
  /\ WriteLock(t, tbl)

\* Faulty: reads without a lock.
ScanUnlocked(t, tbl) ==
  /\ Active(t) /\ Registered(tbl)
  /\ view' = [view EXCEPT ![t][tbl] = rows[tbl]]
  /\ UNCHANGED <<schemaVars, txVars, table_, dataVars, before>>

\* The scanTable of two arguments (StorageEngine.cpp:131-139), which takes the
\* lock.  It is a function of the engine that no caller in src uses: the scans
\* of SELECT (TableScan.cpp:18) call the scanTable of one argument, which takes
\* none, belongs to no transaction and changes nothing, and so is no step here.
ScanTable(t, tbl) ==
  /\ Active(t) /\ Registered(tbl)
  /\ Locks!LockShared(t, tbl)
  /\ view' = [view EXCEPT ![t][tbl] = rows[tbl]]
  /\ UNCHANGED <<schemaVars, txVars, dataVars, before>>

\* Faulty: the locks stay with the transaction.
EndHoldingLocks(t) ==
  /\ view' = [view EXCEPT ![t] = [tbl \in Table |-> Unknown]]
  /\ before' = [before EXCEPT ![t] = [tbl \in Table |-> Unknown]]
  /\ UNCHANGED <<schemaVars, table_, dataVars>>

\* COMMIT and ROLLBACK (QueryEngine.cpp:80-101) end the transaction and then
\* release its locks; neither touches the data.
End(t) ==
  /\ Locks!ReleaseTransactionLocks(t)
  /\ view' = [view EXCEPT ![t] = [tbl \in Table |-> Unknown]]
  /\ before' = [before EXCEPT ![t] = [tbl \in Table |-> Unknown]]
  /\ UNCHANGED <<schemaVars, dataVars>>

Commit(t)   == CommitTransaction(t) /\ End(t)
Rollback(t) == AbortTransaction(t) /\ End(t)

Next ==
  \/ \E tbl \in Table : Analyze(tbl)
  \/ \E tbl \in Table, type \in {"none", "INT", "STRING"} : RegisterTable(tbl, type)
  \/ \E t \in TxId :
    \/ Begin(t) \/ Commit(t) \/ Rollback(t)
    \/ \E tbl \in Table :
         \/ ScanTable(t, tbl)
         \/ EmptyHanded(t, tbl)
         \/ \E n \in Name : InsertKeyless(t, tbl, n)
         \/ \E k \in Key :
              InsertRecord(t, tbl, k) \/ DeleteRecords(t, tbl, k) \/ UpdateRecords(t, tbl, k)

Spec == Init /\ [][Next]_vars

-----------------------------------------------------------------------------
\* What LockManager promises, of the calls the statements and COMMIT and
\* ROLLBACK make: while one transaction holds X on a table no other holds
\* anything on it, whatever upgrades and repeated requests came before.
LockCompatibility == Locks!LockCompatibility

\* No statement, COMMIT or ROLLBACK of one transaction takes away, weakens or
\* grants the lock of another one (LockManager.cpp:57-73 looks at the holder).
LocksStable == Locks!LocksStable

\* Together they behave like a table of compatible modes: what is granted and
\* released is what LockManager.h documents.
ImplementsLockTable == Locks!ImplementsLockTable

\* Isolation by table locks, for callers of the engine that pass their
\* transaction: what one saw in a table, or left there, is what is still there
\* at any later moment of it, whatever the statements of the others, refused or
\* granted, in between.  It says nothing of SELECT, whose scans pass none.
StableView ==
  \A t \in TxId, tbl \in Table : view[t][tbl] # Unknown => rows[tbl] = view[t][tbl]

\* No dirty reads between such callers: a table an unfinished transaction has
\* changed is read or written by no other transaction.  A SELECT reads it.
DirtyIsPrivate ==
  \A t \in TxId, tbl \in Table :
    before[t][tbl] \notin {Unknown, rows[tbl]} =>
      \A u \in TxId \ {t} : view[u][tbl] = Unknown

\* Strict two-phase locking: while a transaction is active none of its locks
\* gets weaker, not even by an S request after an X one, and once it has ended
\* it holds none (COMMIT and ROLLBACK release).
Rank(m) == CASE m = "none" -> 0 [] m = "S" -> 1 [] m = "X" -> 2

StrictTwoPhase ==
  [][\A t \in TxId, tbl \in Table :
       IF Active(t)' THEN Rank(Locks!Held(t, tbl)) <= Rank(Locks!Held(t, tbl)')
                     ELSE Locks!Held(t, tbl)' = "none"]_vars

\* The index sends different keys to different live rows, although inserts look
\* for no duplicates and updates may rewrite a key: no entry outlives its row
\* and then finds another one under the reused record id.  A row whose
\* insert failed at its key has no entry.
IndexSound ==
  \A tbl \in Table :
    /\ \A k \in DOMAIN index[tbl] :
         index[tbl][k] \in DOMAIN rows[tbl] /\ rows[tbl][index[tbl][k]] \in Key
    /\ \A k, l \in DOMAIN index[tbl] : index[tbl][k] = index[tbl][l] => k = l

\* lockOptimized/tests/main.cpp:44-52 begins a transaction, inserts and deletes,
\* rolls back, and reads the table to "confirm no change".
RollbackRestores ==
  [][\A t \in TxId : Active(t) /\ t \in DOMAIN txTable_' /\ txTable_'[t] = "ABORTED" =>
       \A tbl \in Table : before[t][tbl] # Unknown => rows'[tbl] = before[t][tbl]]_vars
=============================================================================
