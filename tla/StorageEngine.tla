--------------------------- MODULE StorageEngine ---------------------------
(***************************************************************************)
(* src/storageEngine/StorageEngine.cpp, one table of it, under the         *)
(* statements of src/queryOptimizerAndPlanner/QueryEngine.h: a heap of     *)
(* records and a B+ tree from their primary keys to their record ids, with *)
(* no transactions and no log.                                             *)
(*                                                                         *)
(* The heap is the row store module TableHeap implements; insertRecord     *)
(* takes the first free record id.  The key of a DELETE or an UPDATE is    *)
(* the number behind the "=" of its WHERE; that the column before it is    *)
(* the primary key is not checked (QueryEngine.h:65-69, 92-96), so every   *)
(* "column = number" is a statement on the key of that number.  A          *)
(* statement on a key that is not found changes nothing.  Nor does one     *)
(* whose exception comes before the first write: a value of the wrong type *)
(* or length, a WHERE that is no "=", an UPDATE that assigns another value *)
(* to the primary key.  The primary key is an INT column: registerTable    *)
(* does not ask, but insertRecord throws, behind its heap insert, if it is *)
(* not.                                                                    *)
(***************************************************************************)
EXTENDS BPlusTree

CONSTANTS MaxPages, MaxSlots,  \* the heap: its bound, and its slots in a page
          Value                \* the columns other than the key

ASSUME EngineAssumption == MaxPages \in Nat /\ MaxSlots \in Nat

VARIABLE rows        \* record id |-> record

vars == <<treeVars, rows>>

Rid == [pageId : 0 .. MaxPages - 1, slotNum : 0 .. MaxSlots - 1]

Record == [key : Key, value : Value]

TypeOK ==
  /\ TreeTypeOK
  /\ DOMAIN rows \subseteq Rid
  /\ rows \in [DOMAIN rows -> Record]

\* registerTable over empty files.
Init ==
  /\ TreeInit
  /\ rows = [r \in {} |-> 0]

-----------------------------------------------------------------------------
Place(r) == r.pageId * MaxSlots + r.slotNum

FirstFree(r) ==
  /\ r \notin DOMAIN rows
  /\ \A q \in Rid \ DOMAIN rows : Place(r) <= Place(q)

\* Faulty: leaves an index entry that is there.
InsertRecordOnce(k, v) ==
  \E r \in Rid :
    /\ FirstFree(r)
    /\ rows' = [q \in DOMAIN rows \cup {r} |-> IF q = r THEN [key |-> k, value |-> v] ELSE rows[q]]
    /\ IF Found(k) THEN UNCHANGED treeVars ELSE TreeInsert(k, r)

\* Nothing looks for a row with the same key: its index entry moves to the new row.
InsertRecord(k, v) ==
  \E r \in Rid :
    /\ FirstFree(r)
    /\ rows' = [q \in DOMAIN rows \cup {r} |-> IF q = r THEN [key |-> k, value |-> v] ELSE rows[q]]
    /\ TreeInsert(k, r)

\* Faulty: forgets the index.
DeleteRowByKey(k) ==
  /\ Found(k)
  /\ Find(k) \in DOMAIN rows
  /\ rows' = [q \in DOMAIN rows \ {Find(k)} |-> rows[q]]
  /\ UNCHANGED treeVars

DeleteByKey(k) ==
  /\ Found(k)
  /\ Find(k) \in DOMAIN rows
  /\ rows' = [q \in DOMAIN rows \ {Find(k)} |-> rows[q]]
  /\ TreeRemove(k)

UpdateByKey(k, v) ==
  /\ Found(k)
  /\ Find(k) \in DOMAIN rows
  /\ rows' = [rows EXCEPT ![Find(k)] = [key |-> k, value |-> v]]
  /\ UNCHANGED treeVars

\* The destructors flush the pool; the next process registers the same files.
Reopen ==
  /\ LoadHeader
  /\ UNCHANGED rows

Next ==
  \/ \E k \in Key : DeleteByKey(k)
  \/ \E k \in Key, v \in Value : InsertRecord(k, v) \/ UpdateByKey(k, v)
  \/ Reopen

Spec == Init /\ [][Next]_vars

-----------------------------------------------------------------------------
\* The index leads to a row, and to the row with the key it was asked for,
\* although deleted record ids are given to other keys and inserts move entries.
IndexPointsHome ==
  \A k \in Key : Found(k) => Find(k) \in DOMAIN rows /\ rows[Find(k)].key = k

Reachable(r) == r \in DOMAIN rows /\ Found(rows[r].key) /\ Find(rows[r].key) = r

\* No statement on one key cuts another key's row off from the index: a row that
\* stays can be found until a second row comes in under its own key.
RowsStayReachable ==
  [][\A r \in DOMAIN rows : Reachable(r) /\ ~Reachable(r)' /\ r \in DOMAIN rows' =>
       \E q \in DOMAIN rows' \ DOMAIN rows : rows'[q].key = rows[r].key]_vars

Index == INSTANCE KeyIndex WITH
  Value <- Rid,
  map   <- TreeMap,
  keyOf <- [r \in DOMAIN rows |-> rows[r].key]

\* The nodes implement the map BPlusTree.h documents, in whatever order and over
\* whatever stale entries: the insert of a row binds its key to it and no other key,
\* the delete of a row takes its key out and no other, an update and a restart leave
\* every key as it was.
ImplementsKeyIndex == Index!Spec

\* README.md:6 (a tree with "insert (with splits)") and BPlusTree.h:11 ("Splits on
\* insert"): an insert that splits a node leaves every other key bound as it was.
SplitsKeepEntries ==
  [][nodeCount' # nodeCount =>
       \A k \in Key : Found(k) => Found(k)' /\ Find(k)' = Find(k)]_vars
=============================================================================
