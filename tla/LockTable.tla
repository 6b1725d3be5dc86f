----------------------------- MODULE LockTable -----------------------------
(***************************************************************************)
(* What LockManager.h promises its callers: every transaction holds, on    *)
(* every resource, no lock, a shared one or an exclusive one; a lock is    *)
(* granted only beside compatible locks, and only its own transaction      *)
(* gives one up.                                                           *)
(***************************************************************************)
CONSTANTS TxId,         \* transaction ids
          Resource      \* names of lockable resources

VARIABLE mode           \* mode[t][r]: the lock t holds on r

Modes == {"none", "S", "X"}

Compatible(m, n) == m = "none" \/ n = "none" \/ (m = "S" /\ n = "S")

Init == mode = [t \in TxId |-> [r \in Resource |-> "none"]]

Free(t, r, m) == \A u \in TxId \ {t} : Compatible(m, mode[u][r])

GrantShared(t, r) ==
  /\ mode[t][r] = "none"
  /\ Free(t, r, "S")
  /\ mode' = [mode EXCEPT ![t][r] = "S"]

\* Also the upgrade of a shared lock.
GrantExclusive(t, r) ==
  /\ Free(t, r, "X")
  /\ mode' = [mode EXCEPT ![t][r] = "X"]

Release(t, R) ==
  mode' = [mode EXCEPT ![t] = [r \in Resource |-> IF r \in R THEN "none" ELSE @[r]]]

Next ==
  \E t \in TxId :
    \/ \E r \in Resource : GrantShared(t, r) \/ GrantExclusive(t, r) \/ Release(t, {r})
    \/ Release(t, Resource)

Spec == Init /\ [][Next]_mode
=============================================================================
