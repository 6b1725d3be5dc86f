---------------------------- MODULE LockManager ----------------------------
(***************************************************************************)
(* src/lockManager/LockManager.{h,cpp}: the shared/exclusive lock table.   *)
(* Every member function runs under latch_, so each is one action.  The    *)
(* functions never wait: a conflicting request throws                      *)
(* LockConflictException and leaves the table as it was (the entry that    *)
(* operator[] would create exists already when a conflict is found), so a  *)
(* refused request is a stuttering step.                                   *)
(***************************************************************************)
CONSTANTS TxId,         \* the ids transactions can have, all different from 0
          Resource,     \* names of lockable resources
          NoTx          \* the 0 that xHolder uses for "none"

\* What the theorems ask of the constants; a module that instantiates this one
\* assumes it of its own.
NoTxFresh == NoTx \notin TxId

VARIABLE table_         \* resource |-> LockInfo, for the resources it has an entry for

LockInfo == [xHolder : TxId \cup {NoTx}, sHolders : SUBSET TxId]

NoLock == [xHolder |-> NoTx, sHolders |-> {}]

\* table_[resource], which default-constructs an absent entry.
Info(r) == IF r \in DOMAIN table_ THEN table_[r] ELSE NoLock

Store(r, info) ==
  table_' = [x \in DOMAIN table_ \cup {r} |-> IF x = r THEN info ELSE table_[x]]

\* An entry is held by someone: unlock and releaseTransactionLocks erase the
\* entries nobody holds (LockManager.cpp:53-55, 67-69) and no path of the grants
\* leaves one, so the table does not grow with the resources ever locked.
TypeOK ==
  /\ DOMAIN table_ \subseteq Resource
  /\ table_ \in [DOMAIN table_ -> LockInfo \ {NoLock}]

Init == table_ = [r \in {} |-> NoLock]

-----------------------------------------------------------------------------
XConflict(t, r) == Info(r).xHolder \notin {NoTx, t}

\* Faulty: a reader may always upgrade.
SConflictUpgradeFree(t, r) == t \notin Info(r).sHolders /\ Info(r).sHolders # {}

SConflict(t, r) == Info(r).sHolders \ {t} # {}

\* Faulty: does not look for the X holder.
LockSharedUnchecked(t, r) == Store(r, [Info(r) EXCEPT !.sHolders = @ \cup {t}])

\* A holder of X is given S beside it: both stay recorded.
LockShared(t, r) ==
  /\ ~XConflict(t, r)
  /\ Store(r, [Info(r) EXCEPT !.sHolders = @ \cup {t}])

LockExclusive(t, r) ==
  /\ ~XConflict(t, r)
  /\ ~SConflict(t, r)
  /\ Store(r, [xHolder |-> t, sHolders |-> Info(r).sHolders \ {t}])

\* Faulty: clears xHolder whoever it is.
WithoutAnyHolder(t, info) == [xHolder |-> NoTx, sHolders |-> info.sHolders \ {t}]

\* What is left of an entry once t has given up its lock.
Without(t, info) ==
  [xHolder  |-> IF info.xHolder = t THEN NoTx ELSE info.xHolder,
   sHolders |-> info.sHolders \ {t}]

\* Take t out of the entries of R; an entry nobody holds any more is erased.
Drop(t, R) ==
  LET kept == {r \in DOMAIN table_ : r \in R => Without(t, table_[r]) # NoLock}
  IN  table_' = [r \in kept |-> IF r \in R THEN Without(t, table_[r]) ELSE table_[r]]

Unlock(t, r) == Drop(t, {r})

ReleaseTransactionLocks(t) == Drop(t, Resource)

\* What transaction t can call.
Call(t) ==
  \/ \E r \in Resource : LockShared(t, r) \/ LockExclusive(t, r) \/ Unlock(t, r)
  \/ ReleaseTransactionLocks(t)

Next == \E t \in TxId : Call(t)

Spec == Init /\ [][Next]_table_

-----------------------------------------------------------------------------
\* The mode in which t holds r; X covers an S recorded beside it.
Held(t, r) ==
  IF Info(r).xHolder = t THEN "X" ELSE IF t \in Info(r).sHolders THEN "S" ELSE "none"

\* Two-phase locking rests on this (LockManager.h:22-27): while one
\* transaction holds X on a resource, no other holds anything on it,
\* whatever upgrades, repeated requests and releases came before.
LockCompatibility ==
  \A r \in DOMAIN table_ :
    table_[r].xHolder # NoTx => table_[r].sHolders \subseteq {table_[r].xHolder}

\* A call of one transaction never takes away, weakens or grants the lock of
\* another one: unlock and releaseTransactionLocks check the holder first.
LocksStable ==
  [][\A t, u \in TxId : \A r \in Resource :
       Call(t) /\ u # t => Held(u, r)' = Held(u, r)]_table_

\* The detailed table implements the abstract one.
Abstract == INSTANCE LockTable WITH mode <- [t \in TxId |-> [r \in Resource |-> Held(t, r)]]

\* Every sequence of calls behaves like a table of compatible modes: grants,
\* upgrades and releases are exactly those LockManager.h documents.
ImplementsLockTable == Abstract!Spec
=============================================================================
