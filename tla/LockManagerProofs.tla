------------------------- MODULE LockManagerProofs -------------------------
(***************************************************************************)
(* The lock table of module LockManager, for any transactions and          *)
(* resources, as long as 0 is no transaction (NoTxFresh): its type, the    *)
(* compatibility of the locks it grants, and that it implements the table  *)
(* of modes of module LockTable.                                           *)
(***************************************************************************)
EXTENDS LockManager, TLAPS

\* The inductive invariant: the type says that no entry is idle, which the
\* erasing branches keep; compatibility is inductive beside it.
IInv == TypeOK /\ LockCompatibility

\* What one operation does, entry by entry; the four lemmas after it lift
\* these facts to the table.
LEMMA InfoType ==
  ASSUME TypeOK, NEW r \in Resource
  PROVE  /\ Info(r) \in LockInfo
         /\ Info(r).xHolder \in TxId \cup {NoTx}
         /\ Info(r).sHolders \in SUBSET TxId
  BY DEF TypeOK, Info, NoLock, LockInfo

\* An operation that stores one entry keeps the invariant when the entry is
\* held and compatible.
LEMMA StoreKeeps ==
  ASSUME IInv, NEW r \in Resource, NEW info \in LockInfo \ {NoLock}, Store(r, info),
         info.xHolder # NoTx => info.sHolders \subseteq {info.xHolder}
  PROVE  IInv'
<1>1. DOMAIN table_' = DOMAIN table_ \cup {r}
  BY DEF Store
<1>2. \A x \in DOMAIN table_' : table_'[x] = IF x = r THEN info ELSE table_[x]
  BY DEF Store
<1>3. TypeOK'
  BY <1>1, <1>2 DEF IInv, TypeOK, Store
<1>4. LockCompatibility'
  BY <1>1, <1>2 DEF IInv, LockCompatibility
<1> QED
  BY <1>3, <1>4 DEF IInv

\* Granting S, upgrading and granting X keep the invariant.
LEMMA SharedKeeps ==
  ASSUME IInv, NEW t \in TxId, NEW r \in Resource, LockShared(t, r)
  PROVE  IInv'
<1> DEFINE info == [Info(r) EXCEPT !.sHolders = @ \cup {t}]
<1>1. /\ Info(r) \in LockInfo
      /\ Info(r).xHolder \in TxId \cup {NoTx}
      /\ Info(r).sHolders \in SUBSET TxId
  BY InfoType DEF IInv
<1>2. /\ info.xHolder = Info(r).xHolder
      /\ info.sHolders = Info(r).sHolders \cup {t}
      /\ info \in LockInfo
  BY <1>1 DEF LockInfo
<1>3. info # NoLock
  BY <1>2 DEF NoLock
<1>4. Info(r).xHolder # NoTx => Info(r).sHolders \subseteq {Info(r).xHolder}
  BY DEF IInv, LockCompatibility, Info, NoLock
<1>5. info.xHolder # NoTx => info.sHolders \subseteq {info.xHolder}
  BY <1>2, <1>4 DEF LockShared, XConflict
<1>6. Store(r, info)
  BY DEF LockShared
<1> HIDE DEF info
<1> QED
  BY <1>2, <1>3, <1>5, <1>6, StoreKeeps

LEMMA ExclusiveKeeps ==
  ASSUME NoTxFresh, IInv, NEW t \in TxId, NEW r \in Resource, LockExclusive(t, r)
  PROVE  IInv'
<1> DEFINE info == [xHolder |-> t, sHolders |-> Info(r).sHolders \ {t}]
<1>1. Info(r).sHolders \in SUBSET TxId
  BY InfoType DEF IInv
<1>2. info \in LockInfo /\ info.xHolder = t /\ info.sHolders = {}
  BY <1>1 DEF LockInfo, LockExclusive, SConflict
<1>3. info # NoLock
  BY <1>2 DEF NoTxFresh, NoLock
<1>4. Store(r, info)
  BY DEF LockExclusive
<1> HIDE DEF info
<1> QED
  BY <1>2, <1>3, <1>4, StoreKeeps

\* Giving up locks keeps the invariant: an entry that stays is still held.
LEMMA DropKeeps ==
  ASSUME IInv, NEW t \in TxId, NEW R \in SUBSET Resource, Drop(t, R)
  PROVE  IInv'
<1> DEFINE kept == {r \in DOMAIN table_ : r \in R => Without(t, table_[r]) # NoLock}
<1>1. /\ DOMAIN table_' = kept
      /\ \A r \in kept : table_'[r] = IF r \in R THEN Without(t, table_[r]) ELSE table_[r]
      /\ table_' = [r \in kept |-> table_'[r]]
  BY DEF Drop
<1>2. \A r \in DOMAIN table_ : /\ table_[r].xHolder \in TxId \cup {NoTx}
                               /\ table_[r].sHolders \in SUBSET TxId
                               /\ table_[r] \in LockInfo \ {NoLock}
  BY DEF IInv, TypeOK, LockInfo
<1>3. \A r \in DOMAIN table_ : Without(t, table_[r]) \in LockInfo
  BY <1>2 DEF Without, LockInfo
<1>4. \A r \in kept : table_'[r] \in LockInfo \ {NoLock}
  BY <1>1, <1>2, <1>3
<1>5. TypeOK'
  BY <1>1, <1>4 DEF TypeOK, IInv
<1>6. ASSUME NEW r \in kept, table_'[r].xHolder # NoTx
      PROVE  table_'[r].sHolders \subseteq {table_'[r].xHolder}
  <2>1. table_[r].xHolder # NoTx => table_[r].sHolders \subseteq {table_[r].xHolder}
    BY DEF IInv, LockCompatibility
  <2>2. CASE r \in R
    <3>1. table_'[r] = Without(t, table_[r])
      BY <1>1, <2>2
    <3>2. /\ table_'[r].xHolder = IF table_[r].xHolder = t THEN NoTx ELSE table_[r].xHolder
          /\ table_'[r].sHolders = table_[r].sHolders \ {t}
      BY <3>1 DEF Without
    <3> HIDE DEF kept
    <3> QED
      BY <1>6, <2>1, <3>2
  <2>3. CASE r \notin R
    BY <1>1, <1>6, <2>1, <2>3
  <2> QED
    BY <2>2, <2>3
<1> QED
  BY <1>1, <1>5, <1>6 DEF IInv, LockCompatibility

LEMMA InitIInv == Init => IInv
  BY DEF Init, IInv, TypeOK, LockCompatibility

LEMMA NextIInv ==
  ASSUME NoTxFresh
  PROVE  IInv /\ [Next]_table_ => IInv'
<1> SUFFICES ASSUME IInv, [Next]_table_
             PROVE  IInv'
  OBVIOUS
<1>1. ASSUME NEW t \in TxId, NEW r \in Resource, LockShared(t, r)
      PROVE  IInv'
  BY <1>1, SharedKeeps
<1>2. ASSUME NEW t \in TxId, NEW r \in Resource, LockExclusive(t, r)
      PROVE  IInv'
  BY <1>2, ExclusiveKeeps
<1>3. ASSUME NEW t \in TxId, NEW r \in Resource, Unlock(t, r)
      PROVE  IInv'
  BY <1>3, DropKeeps DEF Unlock
<1>4. ASSUME NEW t \in TxId, ReleaseTransactionLocks(t)
      PROVE  IInv'
  BY <1>4, DropKeeps DEF ReleaseTransactionLocks
<1>5. CASE UNCHANGED table_
  BY <1>5 DEF IInv, TypeOK, LockCompatibility
<1> QED
  BY <1>1, <1>2, <1>3, <1>4, <1>5 DEF Next, Call

LEMMA InvariantHolds ==
  ASSUME NoTxFresh
  PROVE  Spec => []IInv
<1> QED
  BY InitIInv, NextIInv, PTL DEF Spec

\* Every entry of the lock table is well-formed and held by someone.
THEOREM TypeCorrect ==
  ASSUME NoTxFresh
  PROVE  Spec => []TypeOK
<1>1. IInv => TypeOK
  BY DEF IInv
<1> QED
  BY <1>1, InvariantHolds, PTL

\* While one transaction holds X on a resource no other holds anything on it.
THEOREM LocksCompatible ==
  ASSUME NoTxFresh
  PROVE  Spec => []LockCompatibility
<1>1. IInv => LockCompatibility
  BY DEF IInv
<1> QED
  BY <1>1, InvariantHolds, PTL

-----------------------------------------------------------------------------
(* What each operation does to the locks held, resource by resource.         *)

\* Storing an entry changes what the table says of its resource only.
LEMMA StoreEffect ==
  ASSUME NEW r \in Resource, NEW info, Store(r, info)
  PROVE  /\ Info(r)' = info
         /\ \A x \in Resource \ {r} : Info(x)' = Info(x)
  BY DEF Store, Info

\* Dropping locks takes the transaction out of the named resources.
LEMMA DropEffect ==
  ASSUME NoTxFresh, IInv, NEW t \in TxId, NEW R \in SUBSET Resource, Drop(t, R)
  PROVE  \A r \in Resource : Info(r)' = IF r \in R THEN Without(t, Info(r)) ELSE Info(r)
<1> DEFINE kept == {r \in DOMAIN table_ : r \in R => Without(t, table_[r]) # NoLock}
<1>1. /\ DOMAIN table_' = kept
      /\ \A r \in kept : table_'[r] = IF r \in R THEN Without(t, table_[r]) ELSE table_[r]
  BY DEF Drop
<1>2. Without(t, NoLock) = NoLock
  BY DEF NoTxFresh, Without, NoLock
<1> TAKE r \in Resource
<1>3. CASE r \in kept
  BY <1>1, <1>3 DEF Info
<1>4. CASE r \in DOMAIN table_ /\ r \notin kept
  BY <1>1, <1>4 DEF Info
<1>5. CASE r \notin DOMAIN table_
  BY <1>1, <1>2, <1>5 DEF Info
<1> QED
  BY <1>3, <1>4, <1>5

\* Held depends on the entry alone, and names one of the three modes.
LEMMA HeldCases ==
  ASSUME NEW t, NEW r
  PROVE  /\ Held(t, r) = "X" <=> Info(r).xHolder = t
         /\ Held(t, r) = "S" <=> Info(r).xHolder # t /\ t \in Info(r).sHolders
         /\ Held(t, r) = "none" <=> Info(r).xHolder # t /\ t \notin Info(r).sHolders
         /\ Held(t, r) \in {"none", "S", "X"}
  BY DEF Held

\* A step of transaction t leaves the locks of the others alone.
LEMMA SharedEffect ==
  ASSUME NoTxFresh, IInv, NEW t \in TxId, NEW r \in Resource, LockShared(t, r)
  PROVE  /\ Held(t, r)' = IF Held(t, r) = "none" THEN "S" ELSE Held(t, r)
         /\ \A u \in TxId, x \in Resource : u # t \/ x # r => Held(u, x)' = Held(u, x)
         /\ \A u \in TxId \ {t} : Held(u, r) # "X"
<1> DEFINE info == [Info(r) EXCEPT !.sHolders = @ \cup {t}]
<1>1. /\ Info(r) \in LockInfo
      /\ Info(r).sHolders \in SUBSET TxId
  BY InfoType DEF IInv
<1>2. /\ info.xHolder = Info(r).xHolder
      /\ info.sHolders = Info(r).sHolders \cup {t}
  BY <1>1 DEF LockInfo
<1> HIDE DEF info
<1>3. /\ Info(r)' = info
      /\ \A x \in Resource \ {r} : Info(x)' = Info(x)
  BY StoreEffect DEF LockShared, info
<1>4. \A x \in Resource \ {r} : \A u \in TxId : Held(u, x)' = Held(u, x)
  BY <1>3 DEF Held
<1>5. \A u \in TxId \ {t} : Held(u, r)' = Held(u, r)
  BY <1>2, <1>3 DEF Held
<1>6. Held(t, r)' = IF Held(t, r) = "none" THEN "S" ELSE Held(t, r)
  BY <1>2, <1>3 DEF Held
<1>7. \A u \in TxId \ {t} : Held(u, r) # "X"
  BY HeldCases DEF NoTxFresh, LockShared, XConflict
<1> QED
  BY <1>4, <1>5, <1>6, <1>7

LEMMA ExclusiveEffect ==
  ASSUME NoTxFresh, IInv, NEW t \in TxId, NEW r \in Resource, LockExclusive(t, r)
  PROVE  /\ Held(t, r)' = "X"
         /\ \A u \in TxId, x \in Resource : u # t \/ x # r => Held(u, x)' = Held(u, x)
         /\ \A u \in TxId \ {t} : Held(u, r) = "none"
<1> DEFINE info == [xHolder |-> t, sHolders |-> Info(r).sHolders \ {t}]
<1>1. info.xHolder = t /\ info.sHolders = Info(r).sHolders \ {t}
  OBVIOUS
<1> HIDE DEF info
<1>2. /\ Info(r)' = info
      /\ \A x \in Resource \ {r} : Info(x)' = Info(x)
  BY StoreEffect DEF LockExclusive, info
<1>3. \A x \in Resource \ {r} : \A u \in TxId : Held(u, x)' = Held(u, x)
  BY <1>2 DEF Held
<1>4. Held(t, r)' = "X"
  BY <1>1, <1>2 DEF Held
<1>5. \A u \in TxId \ {t} : Info(r).xHolder # u /\ u \notin Info(r).sHolders
  BY DEF NoTxFresh, LockExclusive, XConflict, SConflict
<1>6. \A u \in TxId \ {t} : Held(u, r) = "none"
  BY <1>5, HeldCases
<1>7. \A u \in TxId \ {t} : Held(u, r)' = "none"
  BY <1>1, <1>2, <1>5 DEF Held
<1> QED
  BY <1>3, <1>4, <1>6, <1>7

LEMMA DropHeld ==
  ASSUME NoTxFresh, IInv, NEW t \in TxId, NEW R \in SUBSET Resource, Drop(t, R)
  PROVE  /\ \A r \in R : Held(t, r)' = "none"
         /\ \A r \in Resource \ R : Held(t, r)' = Held(t, r)
         /\ \A u \in TxId \ {t}, r \in Resource : Held(u, r)' = Held(u, r)
<1>1. \A r \in Resource : Info(r)' = IF r \in R THEN Without(t, Info(r)) ELSE Info(r)
  BY DropEffect
<1>2. \A r \in R : /\ Info(r)'.xHolder = IF Info(r).xHolder = t THEN NoTx ELSE Info(r).xHolder
                   /\ Info(r)'.sHolders = Info(r).sHolders \ {t}
  BY <1>1 DEF Without
<1>3. \A r \in R : Held(t, r)' = "none"
  BY <1>2 DEF NoTxFresh, Held
<1>4. \A u \in TxId \ {t}, r \in R : Held(u, r)' = Held(u, r)
  BY <1>2 DEF NoTxFresh, Held
<1>5. \A u \in TxId, r \in Resource \ R : Held(u, r)' = Held(u, r)
  BY <1>1 DEF Held
<1> QED
  BY <1>3, <1>4, <1>5

\* The abstract step that gives t another mode on r, when nothing else changes.
LEMMA ModeOfOne ==
  ASSUME NEW t \in TxId, NEW r \in Resource, NEW m, Held(t, r)' = m,
         \A u \in TxId, x \in Resource : u # t \/ x # r => Held(u, x)' = Held(u, x)
  PROVE  [u \in TxId |-> [x \in Resource |-> Held(u, x)]]'
           = [[u \in TxId |-> [x \in Resource |-> Held(u, x)]] EXCEPT ![t][r] = m]
<1> DEFINE mode == [u \in TxId |-> [x \in Resource |-> Held(u, x)]]
           row  == [mode[t] EXCEPT ![r] = m]
<1>1. row = [x \in Resource |-> Held(t, x)']
  OBVIOUS
<1>2. \A u \in TxId \ {t} : mode[u] = [x \in Resource |-> Held(u, x)']
  OBVIOUS
<1> HIDE DEF row
<1>3. [mode EXCEPT ![t] = row] = [u \in TxId |-> [x \in Resource |-> Held(u, x)']]
  BY <1>1, <1>2
<1> QED
  BY <1>3 DEF row

\* Calls of one transaction leave the locks of every other one alone.
THEOREM OthersUntouched ==
  ASSUME NoTxFresh
  PROVE  Spec => LocksStable
<1> DEFINE Stable == \A t, u \in TxId : \A r \in Resource :
             Call(t) /\ u # t => Held(u, r)' = Held(u, r)
<1>1. IInv => Stable
  <2> SUFFICES ASSUME IInv, NEW t \in TxId, NEW u \in TxId \ {t}, NEW r \in Resource, Call(t)
               PROVE  Held(u, r)' = Held(u, r)
    OBVIOUS
  <2>1. ASSUME NEW x \in Resource, LockShared(t, x)
        PROVE  Held(u, r)' = Held(u, r)
    BY <2>1, SharedEffect
  <2>2. ASSUME NEW x \in Resource, LockExclusive(t, x)
        PROVE  Held(u, r)' = Held(u, r)
    BY <2>2, ExclusiveEffect
  <2>3. ASSUME NEW R \in SUBSET Resource, Drop(t, R)
        PROVE  Held(u, r)' = Held(u, r)
    BY <2>3, DropHeld
  <2> QED
    BY <2>1, <2>2, <2>3 DEF Call, Unlock, ReleaseTransactionLocks
<1> QED
  BY <1>1, InvariantHolds, PTL DEF LocksStable

\* The lock table implements the table of modes: its initial states map to
\* initial states, and every call to a grant, a release or a stutter.
THEOREM Implements ==
  ASSUME NoTxFresh
  PROVE  Spec => ImplementsLockTable
<1> DEFINE mode == [t \in TxId |-> [r \in Resource |-> Held(t, r)]]
<1>1. Init => Abstract!Init
  BY DEF NoTxFresh, Init, Abstract!Init, Held, Info, NoLock
<1>2. IInv /\ [Next]_table_ => [Abstract!Next]_mode
  <2> SUFFICES ASSUME IInv, [Next]_table_
               PROVE  Abstract!Next \/ UNCHANGED mode
    OBVIOUS
  <2>1. ASSUME NEW t \in TxId, NEW r \in Resource, LockShared(t, r)
        PROVE  Abstract!GrantShared(t, r) \/ UNCHANGED mode
    <3>1. CASE Held(t, r) = "none"
      <4>1. Abstract!Free(t, r, "S")
        BY <2>1, SharedEffect, HeldCases DEF Abstract!Free, Abstract!Compatible
      <4>2. mode' = [mode EXCEPT ![t][r] = "S"]
        BY <2>1, <3>1, SharedEffect, ModeOfOne
      <4> QED
        BY <3>1, <4>1, <4>2 DEF Abstract!GrantShared
    <3>2. CASE Held(t, r) # "none"
      BY <2>1, <3>2, SharedEffect
    <3> QED
      BY <3>1, <3>2
  <2>2. ASSUME NEW t \in TxId, NEW r \in Resource, LockExclusive(t, r)
        PROVE  Abstract!GrantExclusive(t, r)
    <3>1. Abstract!Free(t, r, "X")
      BY <2>2, ExclusiveEffect DEF Abstract!Free, Abstract!Compatible
    <3>2. mode' = [mode EXCEPT ![t][r] = "X"]
      BY <2>2, ExclusiveEffect, ModeOfOne
    <3> QED
      BY <3>1, <3>2 DEF Abstract!GrantExclusive
  <2>3. ASSUME NEW t \in TxId, NEW R \in SUBSET Resource, Drop(t, R)
        PROVE  Abstract!Release(t, R)
    <3>1. mode' = [mode EXCEPT ![t] = [r \in Resource |-> IF r \in R THEN "none" ELSE @[r]]]
      <4> DEFINE row == [r \in Resource |-> IF r \in R THEN "none" ELSE mode[t][r]]
      <4>1. row = [r \in Resource |-> Held(t, r)']
        BY <2>3, DropHeld
      <4>2. \A u \in TxId \ {t} : mode[u] = [r \in Resource |-> Held(u, r)']
        BY <2>3, DropHeld
      <4> HIDE DEF row
      <4>3. [mode EXCEPT ![t] = row] = [u \in TxId |-> [r \in Resource |-> Held(u, r)']]
        BY <4>1, <4>2
      <4> QED
        BY <4>3 DEF row
    <3> QED
      BY <3>1 DEF Abstract!Release
  <2>4. CASE UNCHANGED table_
    BY <2>4 DEF Held, Info
  <2> QED
    BY <2>1, <2>2, <2>3, <2>4 DEF Next, Call, Unlock, ReleaseTransactionLocks, Abstract!Next
<1> QED
  BY <1>1, <1>2, InvariantHolds, PTL DEF Spec, ImplementsLockTable, Abstract!Spec
=============================================================================
