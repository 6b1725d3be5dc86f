------------------------------ MODULE KeyIndex ------------------------------
(***************************************************************************)
(* What an index promises the storage engine (BPlusTree.h:20-25): a map    *)
(* from keys to the records of a heap, in which the insert of a record     *)
(* binds or rebinds its key to it, the removal of a record unbinds its     *)
(* key, nothing else moves, and find returns what is bound.                *)
(***************************************************************************)
CONSTANTS Key, Value   \* keys, and record ids

VARIABLES map,         \* key |-> record id, for the keys bound
          keyOf        \* record id |-> its key, for the records there are

vars == <<map, keyOf>>

Init == map = [k \in {} |-> 0] /\ keyOf = [r \in {} |-> 0]

\* A new record r comes in under key k.
Insert(k, r) ==
  /\ r \notin DOMAIN keyOf
  /\ keyOf' = [x \in DOMAIN keyOf \cup {r} |-> IF x = r THEN k ELSE keyOf[x]]
  /\ map' = [x \in DOMAIN map \cup {k} |-> IF x = k THEN r ELSE map[x]]

\* The record bound to k goes.
Remove(k) ==
  /\ k \in DOMAIN map
  /\ keyOf' = [x \in DOMAIN keyOf \ {map[k]} |-> keyOf[x]]
  /\ map' = [x \in DOMAIN map \ {k} |-> map[x]]

Next == \E k \in Key : Remove(k) \/ \E r \in Value : Insert(k, r)

Spec == Init /\ [][Next]_vars
=============================================================================
