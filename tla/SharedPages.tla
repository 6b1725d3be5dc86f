---------------------------- MODULE SharedPages ----------------------------
(***************************************************************************)
(* The page store under the users of the pool: a page is read and written  *)
(* only between a fetch and a release of the user that does it, a write    *)
(* goes to the page its user has fetched, and nothing but a write changes  *)
(* what any reader sees, except a crash.  Pages may be saved at any fetch, *)
(* since a fetch evicts.                                                   *)
(***************************************************************************)
EXTENDS PageStore

CONSTANTS Holder,    \* users of the store
          None       \* "has fetched no page"

VARIABLE holds       \* holds[u]: the page u has fetched

SharedInit == Init /\ holds = [u \in Holder |-> None]

Fetch(u, p) ==
  /\ holds[u] = None
  /\ holds' = [holds EXCEPT ![u] = p]
  /\ \E P \in SUBSET Page : Persist(P)

Modify(u, v) ==
  /\ holds[u] # None
  /\ Write(holds[u], v)
  /\ UNCHANGED holds

Release(u) ==
  /\ holds[u] # None
  /\ holds' = [holds EXCEPT ![u] = None]
  /\ UNCHANGED vars

Save(P) == Persist(P) /\ UNCHANGED holds

Die == Crash /\ holds' = [u \in Holder |-> None]

SharedNext ==
  \/ \E u \in Holder :
       \/ \E p \in Page : Fetch(u, p)
       \/ \E v \in Content : Modify(u, v)
       \/ Release(u)
  \/ \E P \in SUBSET Page : Save(P)
  \/ Die

SharedSpec == SharedInit /\ [][SharedNext]_<<vars, holds>>
=============================================================================
