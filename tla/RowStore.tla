------------------------------ MODULE RowStore ------------------------------
(***************************************************************************)
(* What a table heap promises the storage engine: a map from record ids to *)
(* records, in which a record keeps its id until it is deleted and an      *)
(* insert takes an id no record has.  Some earlier value of every row is   *)
(* on disk, and a crash goes back to that.                                 *)
(***************************************************************************)
CONSTANTS Rid,      \* record ids
          Value     \* records

VARIABLES rows,     \* rid |-> record, for the ids in use
          saved     \* the same, for the rows a crash would leave

vars == <<rows, saved>>

RowMap == UNION {[R -> Value] : R \in SUBSET Rid}

Init ==
  /\ rows  = [r \in {} |-> 0]
  /\ saved = [r \in {} |-> 0]

Put(r, v) == rows' = [x \in DOMAIN rows \cup {r} |-> IF x = r THEN v ELSE rows[x]]

Insert(r, v) ==
  /\ r \notin DOMAIN rows
  /\ Put(r, v)
  /\ UNCHANGED saved

Overwrite(r, v) ==
  /\ Put(r, v)
  /\ UNCHANGED saved

Delete(r) ==
  /\ rows' = [x \in DOMAIN rows \ {r} |-> rows[x]]
  /\ UNCHANGED saved

\* The rows of R, and the absence of those that are not rows, reach the disk.
Persist(R) ==
  /\ saved' = [x \in (DOMAIN saved \ R) \cup (DOMAIN rows \cap R) |->
                 IF x \in R THEN rows[x] ELSE saved[x]]
  /\ UNCHANGED rows

Crash ==
  /\ rows' = saved
  /\ UNCHANGED saved

Next ==
  \/ \E r \in Rid, v \in Value : Insert(r, v) \/ Overwrite(r, v)
  \/ \E r \in Rid : Delete(r)
  \/ \E R \in SUBSET Rid : Persist(R)
  \/ Crash

Spec == Init /\ [][Next]_vars
=============================================================================
