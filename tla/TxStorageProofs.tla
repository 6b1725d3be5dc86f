--------------------------- MODULE TxStorageProofs ---------------------------
(***************************************************************************)
(* Proofs about TxStorage, for any number of transactions, tables, keys    *)
(* and rows.  The invariant ties the histories of a transaction to its     *)
(* locks: what it has seen of a table it holds a lock on, what it may have *)
(* changed it holds exclusively, and only active transactions hold locks.  *)
(* What a lock operation does to the locks is taken from LockManagerProofs.*)
(***************************************************************************)
EXTENDS TxStorage, FiniteSetTheorems, TLAPS

LP == INSTANCE LockManagerProofs WITH Resource <- Table

Owned ==
  \A t \in TxId, tbl \in Table :
    /\ Locks!Held(t, tbl) # "none" => Active(t)
    /\ view[t][tbl] # Unknown => Locks!Held(t, tbl) # "none"
    /\ before[t][tbl] # Unknown => Locks!Held(t, tbl) = "X"

LockInv == LP!IInv

\* The types of what TxStorage adds to the lock table.
DataTypes ==
  /\ catalog_ \subseteq Table
  /\ tables_ \in [Table -> {"none", "INT", "STRING"}]
  /\ stats \in [Table -> [rowCount : Nat, distinct : Nat]]
  /\ rows  \in [Table -> Content]
  /\ index \in [Table -> PartialMap(Key, Rid)]

HistTypes ==
  /\ view   \in [TxId -> [Table -> Content \cup {Unknown}]]
  /\ before \in [TxId -> [Table -> Content \cup {Unknown}]]

IInv ==
  /\ TxTypeOK /\ LockInv
  /\ DataTypes /\ HistTypes
  /\ Owned /\ StableView /\ IndexSound

-----------------------------------------------------------------------------
(* Partial maps.                                                            *)

LEMMA PutType ==
  ASSUME NEW S, NEW T, NEW f \in PartialMap(S, T), NEW x \in S, NEW y \in T
  PROVE  Put(f, x, y) \in PartialMap(S, T)
<1>1. PICK D \in SUBSET S : f \in [D -> T]
  BY DEF PartialMap
<1>2. Put(f, x, y) \in [D \cup {x} -> T]
  BY <1>1 DEF Put
<1>3. D \cup {x} \in SUBSET S
  BY <1>1
<1> QED
  BY <1>2, <1>3 DEF PartialMap

LEMMA RemoveType ==
  ASSUME NEW S, NEW T, NEW f \in PartialMap(S, T), NEW x
  PROVE  Remove(f, x) \in PartialMap(S, T)
<1>1. PICK D \in SUBSET S : f \in [D -> T]
  BY DEF PartialMap
<1>2. Remove(f, x) \in [D \ {x} -> T]
  BY <1>1 DEF Remove
<1>3. D \ {x} \in SUBSET S
  BY <1>1
<1> QED
  BY <1>2, <1>3 DEF PartialMap

LEMMA ReplaceType ==
  ASSUME NEW S, NEW T, NEW f \in PartialMap(S, T), NEW x \in DOMAIN f, NEW y \in T
  PROVE  [f EXCEPT ![x] = y] \in PartialMap(S, T)
<1>1. PICK D \in SUBSET S : f \in [D -> T]
  BY DEF PartialMap
<1>2. [f EXCEPT ![x] = y] \in [D -> T]
  BY <1>1
<1> QED
  BY <1>1, <1>2 DEF PartialMap

LEMMA PartialMapFacts ==
  ASSUME NEW S, NEW T, NEW f \in PartialMap(S, T)
  PROVE  /\ DOMAIN f \subseteq S
         /\ \A x \in DOMAIN f : f[x] \in T
  BY DEF PartialMap

LEMMA EmptyMapType ==
  ASSUME NEW S, NEW T
  PROVE  EmptyMap \in PartialMap(S, T)
<1>1. EmptyMap \in [{} -> T]
  BY DEF EmptyMap
<1>2. {} \in SUBSET S
  OBVIOUS
<1> QED
  BY <1>1, <1>2 DEF PartialMap

-----------------------------------------------------------------------------
(* The locks.  The instance Locks and the instance of its proofs say the    *)
(* same.                                                                    *)

LEMMA SameLocks ==
  ASSUME NEW t, NEW tbl
  PROVE  /\ Locks!Held(t, tbl) = LP!Held(t, tbl)
         /\ Locks!LockShared(t, tbl) <=> LP!LockShared(t, tbl)
         /\ Locks!LockExclusive(t, tbl) <=> LP!LockExclusive(t, tbl)
         /\ Locks!ReleaseTransactionLocks(t) <=> LP!Drop(t, Table)
  BY DEF Locks!Held, LP!Held, Locks!Info, LP!Info, Locks!NoLock, LP!NoLock,
         Locks!LockShared, LP!LockShared, Locks!LockExclusive, LP!LockExclusive,
         Locks!XConflict, LP!XConflict, Locks!SConflict, LP!SConflict,
         Locks!Store, LP!Store, Locks!Drop, LP!Drop, Locks!Without, LP!Without,
         Locks!ReleaseTransactionLocks

LEMMA LockTypes ==
  ASSUME LockInv
  PROVE  Locks!TypeOK
  BY DEF LockInv, LP!IInv, LP!TypeOK, Locks!TypeOK, LP!LockInfo, Locks!LockInfo,
         LP!NoLock, Locks!NoLock

LEMMA HeldModes ==
  ASSUME NEW t \in TxId, NEW tbl \in Table
  PROVE  Locks!Held(t, tbl) \in {"none", "S", "X"}
  BY DEF Locks!Held

LEMMA SharedEffect ==
  ASSUME LockInv, NEW t \in TxId, NEW tbl \in Table, Locks!LockShared(t, tbl)
  PROVE  /\ LockInv'
         /\ Locks!Held(t, tbl)' = IF Locks!Held(t, tbl) = "none" THEN "S" ELSE Locks!Held(t, tbl)
         /\ \A u \in TxId, x \in Table : u # t \/ x # tbl => Locks!Held(u, x)' = Locks!Held(u, x)
         /\ \A u \in TxId \ {t} : Locks!Held(u, tbl) # "X"
<1>1. LP!IInv /\ LP!LockShared(t, tbl)
  BY SameLocks DEF LockInv
<1>2. LP!IInv'
  BY <1>1, LP!SharedKeeps
<1>3. /\ LP!Held(t, tbl)' = IF LP!Held(t, tbl) = "none" THEN "S" ELSE LP!Held(t, tbl)
      /\ \A u \in TxId, x \in Table : u # t \/ x # tbl => LP!Held(u, x)' = LP!Held(u, x)
      /\ \A u \in TxId \ {t} : LP!Held(u, tbl) # "X"
  BY <1>1, LP!SharedEffect, StorageAssumption DEF LP!NoTxFresh
<1>4. \A u, x : Locks!Held(u, x) = LP!Held(u, x) /\ Locks!Held(u, x)' = LP!Held(u, x)'
  BY SameLocks DEF Locks!Held, LP!Held, Locks!Info, LP!Info, Locks!NoLock, LP!NoLock
<1> QED
  BY <1>2, <1>3, <1>4 DEF LockInv

LEMMA ExclusiveEffect ==
  ASSUME LockInv, NEW t \in TxId, NEW tbl \in Table, Locks!LockExclusive(t, tbl)
  PROVE  /\ LockInv'
         /\ Locks!Held(t, tbl)' = "X"
         /\ \A u \in TxId, x \in Table : u # t \/ x # tbl => Locks!Held(u, x)' = Locks!Held(u, x)
         /\ \A u \in TxId \ {t} : Locks!Held(u, tbl) = "none"
<1>1. LP!IInv /\ LP!LockExclusive(t, tbl)
  BY SameLocks DEF LockInv
<1>2. LP!IInv'
  BY <1>1, LP!ExclusiveKeeps, StorageAssumption DEF LP!NoTxFresh
<1>3. /\ LP!Held(t, tbl)' = "X"
      /\ \A u \in TxId, x \in Table : u # t \/ x # tbl => LP!Held(u, x)' = LP!Held(u, x)
      /\ \A u \in TxId \ {t} : LP!Held(u, tbl) = "none"
  BY <1>1, LP!ExclusiveEffect, StorageAssumption DEF LP!NoTxFresh
<1>4. \A u, x : Locks!Held(u, x) = LP!Held(u, x) /\ Locks!Held(u, x)' = LP!Held(u, x)'
  BY DEF Locks!Held, LP!Held, Locks!Info, LP!Info, Locks!NoLock, LP!NoLock
<1> QED
  BY <1>2, <1>3, <1>4 DEF LockInv

LEMMA ReleaseEffect ==
  ASSUME LockInv, NEW t \in TxId, Locks!ReleaseTransactionLocks(t)
  PROVE  /\ LockInv'
         /\ \A tbl \in Table : Locks!Held(t, tbl)' = "none"
         /\ \A u \in TxId \ {t}, tbl \in Table : Locks!Held(u, tbl)' = Locks!Held(u, tbl)
<1>1. LP!IInv /\ LP!Drop(t, Table)
  BY SameLocks DEF LockInv
<1>2. LP!IInv'
  BY <1>1, LP!DropKeeps
<1>3. /\ \A tbl \in Table : LP!Held(t, tbl)' = "none"
      /\ \A u \in TxId \ {t}, tbl \in Table : LP!Held(u, tbl)' = LP!Held(u, tbl)
  BY <1>1, LP!DropHeld, StorageAssumption DEF LP!NoTxFresh
<1>4. \A u, x : Locks!Held(u, x) = LP!Held(u, x) /\ Locks!Held(u, x)' = LP!Held(u, x)'
  BY DEF Locks!Held, LP!Held, Locks!Info, LP!Info, Locks!NoLock, LP!NoLock
<1> QED
  BY <1>2, <1>3, <1>4 DEF LockInv

LEMMA LocksUnchanged ==
  ASSUME LockInv, UNCHANGED table_
  PROVE  /\ LockInv'
         /\ \A u \in TxId, x \in Table : Locks!Held(u, x)' = Locks!Held(u, x)
<1>1. LockInv'
  BY DEF LockInv, LP!IInv, LP!TypeOK, LP!LockCompatibility
<1>2. \A u \in TxId, x \in Table : Locks!Held(u, x)' = Locks!Held(u, x)
  BY DEF Locks!Held, Locks!Info
<1> QED
  BY <1>1, <1>2

-----------------------------------------------------------------------------
(* The transactions and the histories, statement by statement.              *)

LEMMA TxFacts ==
  ASSUME TxTypeOK
  PROVE  /\ DOMAIN txTable_ = 1 .. nextTxId_ - 1
         /\ \A t \in DOMAIN txTable_ : txTable_[t] \in TxState
         /\ nextTxId_ \in 1 .. MaxTx + 1
  BY DEF TxTypeOK

LEMMA TxUnchanged ==
  ASSUME TxTypeOK, UNCHANGED txVars
  PROVE  TxTypeOK' /\ \A t : Active(t)' <=> Active(t)
  BY DEF TxTypeOK, txVars, Active

\* What a statement that writes leaves of a table is seen by its transaction alone.
LEMMA WriteLockKeeps ==
  ASSUME IInv, NEW t \in TxId, NEW tbl \in Table, WriteLock(t, tbl),
         rows' \in [Table -> Content], \A x \in Table \ {tbl} : rows'[x] = rows[x]
  PROVE  TxTypeOK' /\ LockInv' /\ HistTypes' /\ Owned' /\ StableView'
<1> USE DEF IInv
<1>1. /\ Active(t)
      /\ before' = [before EXCEPT ![t][tbl] = IF @ = Unknown THEN rows[tbl] ELSE @]
      /\ view' = [view EXCEPT ![t][tbl] = rows'[tbl]]
      /\ Locks!LockExclusive(t, tbl)
  BY DEF WriteLock
<1>2. TxTypeOK' /\ \A u : Active(u)' <=> Active(u)
  BY TxUnchanged DEF WriteLock
<1>3. /\ LockInv'
      /\ Locks!Held(t, tbl)' = "X"
      /\ \A u \in TxId, x \in Table : u # t \/ x # tbl => Locks!Held(u, x)' = Locks!Held(u, x)
      /\ \A u \in TxId \ {t} : Locks!Held(u, tbl) = "none"
  BY <1>1, ExclusiveEffect
<1>4. HistTypes'
  <2>1. rows[tbl] \in Content /\ rows'[tbl] \in Content
    BY DEF DataTypes
  <2> QED
    BY <1>1, <2>1 DEF HistTypes
<1>5. /\ \A u \in TxId, x \in Table : u # t \/ x # tbl => view'[u][x] = view[u][x]
      /\ view'[t][tbl] = rows'[tbl]
      /\ \A u \in TxId, x \in Table : u # t \/ x # tbl => before'[u][x] = before[u][x]
  BY <1>1 DEF HistTypes
<1>6. Owned'
  <2> SUFFICES ASSUME NEW u \in TxId, NEW x \in Table
               PROVE  /\ Locks!Held(u, x)' # "none" => Active(u)'
                      /\ view'[u][x] # Unknown => Locks!Held(u, x)' # "none"
                      /\ before'[u][x] # Unknown => Locks!Held(u, x)' = "X"
    BY DEF Owned
  <2>1. CASE u = t /\ x = tbl
    BY <2>1, <1>1, <1>2, <1>3
  <2>2. CASE u # t \/ x # tbl
    BY <2>2, <1>2, <1>3, <1>5 DEF Owned
  <2> QED
    BY <2>1, <2>2
<1>7. StableView'
  <2> SUFFICES ASSUME NEW u \in TxId, NEW x \in Table, view'[u][x] # Unknown
               PROVE  rows'[x] = view'[u][x]
    BY DEF StableView
  <2>1. CASE x # tbl
    BY <2>1, <1>5 DEF StableView
  <2>2. CASE x = tbl /\ u = t
    BY <2>2, <1>5
  <2>3. CASE x = tbl /\ u # t
    BY <2>3, <1>3, <1>5 DEF Owned
  <2> QED
    BY <2>1, <2>2, <2>3
<1> QED
  BY <1>2, <1>3, <1>4, <1>6, <1>7

\* A transaction that reads a table keeps every other one from writing it.
LEMMA ScanKeeps ==
  ASSUME IInv, NEW t \in TxId, NEW tbl \in Table, ScanTable(t, tbl)
  PROVE  IInv'
<1> USE DEF IInv
<1>1. /\ Active(t)
      /\ view' = [view EXCEPT ![t][tbl] = rows[tbl]]
      /\ UNCHANGED <<schemaVars, txVars, dataVars, before>>
      /\ Locks!LockShared(t, tbl)
  BY DEF ScanTable
<1>2. TxTypeOK' /\ \A u : Active(u)' <=> Active(u)
  BY <1>1, TxUnchanged
<1>3. /\ LockInv'
      /\ Locks!Held(t, tbl)' = IF Locks!Held(t, tbl) = "none" THEN "S" ELSE Locks!Held(t, tbl)
      /\ \A u \in TxId, x \in Table : u # t \/ x # tbl => Locks!Held(u, x)' = Locks!Held(u, x)
  BY <1>1, SharedEffect
<1>4. DataTypes' /\ IndexSound'
  BY <1>1 DEF DataTypes, IndexSound, dataVars, schemaVars
<1>5. HistTypes'
  BY <1>1 DEF HistTypes, DataTypes
<1>6. /\ \A u \in TxId, x \in Table : u # t \/ x # tbl => view'[u][x] = view[u][x]
      /\ view'[t][tbl] = rows'[tbl]
      /\ before' = before /\ rows' = rows
  BY <1>1 DEF HistTypes, dataVars
<1>7. Owned'
  <2> SUFFICES ASSUME NEW u \in TxId, NEW x \in Table
               PROVE  /\ Locks!Held(u, x)' # "none" => Active(u)'
                      /\ view'[u][x] # Unknown => Locks!Held(u, x)' # "none"
                      /\ before'[u][x] # Unknown => Locks!Held(u, x)' = "X"
    BY DEF Owned
  <2>1. CASE u = t /\ x = tbl
    BY <2>1, <1>1, <1>2, <1>3, <1>6, HeldModes DEF Owned
  <2>2. CASE u # t \/ x # tbl
    BY <2>2, <1>2, <1>3, <1>6 DEF Owned
  <2> QED
    BY <2>1, <2>2
<1>8. StableView'
  BY <1>6 DEF StableView
<1> QED
  BY <1>2, <1>3, <1>4, <1>5, <1>7, <1>8

\* COMMIT and ROLLBACK.
LEMMA EndKeeps ==
  ASSUME IInv, NEW t \in TxId, NEW state \in TxState \ {"ACTIVE"}, Finish(t, state), End(t)
  PROVE  IInv'
<1> USE DEF IInv
<1>1. /\ Active(t)
      /\ txTable_' = [txTable_ EXCEPT ![t] = state] /\ nextTxId_' = nextTxId_
      /\ view' = [view EXCEPT ![t] = [tbl \in Table |-> Unknown]]
      /\ before' = [before EXCEPT ![t] = [tbl \in Table |-> Unknown]]
      /\ UNCHANGED <<schemaVars, dataVars>>
      /\ Locks!ReleaseTransactionLocks(t)
  BY DEF Finish, End
<1>2. TxTypeOK' /\ \A u \in TxId \ {t} : Active(u)' <=> Active(u)
  BY <1>1 DEF TxTypeOK, Active
<1>3. /\ LockInv'
      /\ \A tbl \in Table : Locks!Held(t, tbl)' = "none"
      /\ \A u \in TxId \ {t}, tbl \in Table : Locks!Held(u, tbl)' = Locks!Held(u, tbl)
  BY <1>1, ReleaseEffect
<1>4. DataTypes' /\ IndexSound'
  BY <1>1 DEF DataTypes, IndexSound, dataVars, schemaVars
<1>5. HistTypes'
  BY <1>1 DEF HistTypes
<1>6. /\ \A u \in TxId \ {t} : view'[u] = view[u] /\ before'[u] = before[u]
      /\ \A tbl \in Table : view'[t][tbl] = Unknown /\ before'[t][tbl] = Unknown
      /\ rows' = rows
  BY <1>1 DEF HistTypes, dataVars
<1>7. Owned'
  BY <1>2, <1>3, <1>6 DEF Owned
<1>8. StableView'
  BY <1>6 DEF StableView
<1> QED
  BY <1>2, <1>3, <1>4, <1>5, <1>7, <1>8

\* A transaction that begins has an id nobody has used.
LEMMA BeginKeeps ==
  ASSUME IInv, NEW t \in TxId, Begin(t)
  PROVE  IInv' /\ \A u \in TxId : Active(u) => Active(u)'
<1> USE DEF IInv
<1>1. /\ BeginTransaction(t)
      /\ UNCHANGED <<schemaVars, table_, dataVars, histVars>>
  BY DEF Begin
<1>2. TxTypeOK'
  <2>1. DOMAIN txTable_' = 1 .. nextTxId_' - 1
    BY <1>1, TxFacts DEF BeginTransaction
  <2>2. \A u \in DOMAIN txTable_' : txTable_'[u] \in TxState
    BY <1>1, TxFacts DEF BeginTransaction, TxState
  <2>3. txTable_' = [u \in DOMAIN txTable_' |-> txTable_'[u]]
    BY <1>1 DEF BeginTransaction
  <2>4. nextTxId_' \in 1 .. MaxTx + 1
    BY <1>1, TxFacts, TxAssumption DEF BeginTransaction
  <2> QED
    BY <2>1, <2>2, <2>3, <2>4 DEF TxTypeOK
<1>3. \A u \in TxId : Active(u) => Active(u)'
  BY <1>1 DEF BeginTransaction, Active
<1>4. LockInv' /\ \A u \in TxId, x \in Table : Locks!Held(u, x)' = Locks!Held(u, x)
  BY <1>1, LocksUnchanged
<1>5. DataTypes' /\ IndexSound' /\ HistTypes' /\ StableView'
  BY <1>1 DEF DataTypes, IndexSound, HistTypes, StableView, dataVars, schemaVars, histVars
<1>6. Owned'
  BY <1>1, <1>3, <1>4 DEF Owned, histVars
<1> QED
  BY <1>2, <1>3, <1>4, <1>5, <1>6

-----------------------------------------------------------------------------
(* The data, statement by statement.                                        *)

\* A row put under a free record id, and its entry.
LEMMA InsertKeeps ==
  ASSUME IInv, NEW t \in TxId, NEW tbl \in Table, NEW k \in Key, InsertRecord(t, tbl, k)
  PROVE  IInv'
<1> USE DEF IInv
<1>1. WriteLock(t, tbl)
  BY DEF InsertRecord
<1>2. PICK r \in Rid :
        /\ FirstFree(tbl, r)
        /\ rows'  = [rows EXCEPT ![tbl] = Put(@, r, k)]
        /\ index' = [index EXCEPT ![tbl] = Put(@, k, r)]
  BY DEF InsertRecord
<1>3. /\ rows[tbl] \in PartialMap(Rid, Key \cup Name)
      /\ index[tbl] \in PartialMap(Key, Rid)
  BY DEF DataTypes, Content
<1>4. /\ Put(rows[tbl], r, k) \in PartialMap(Rid, Key \cup Name)
      /\ Put(index[tbl], k, r) \in PartialMap(Key, Rid)
  BY <1>3, PutType
<1>5. DataTypes'
  BY <1>1, <1>2, <1>4 DEF DataTypes, Content, WriteLock, schemaVars
<1>6. /\ rows'[tbl] = Put(rows[tbl], r, k)
      /\ index'[tbl] = Put(index[tbl], k, r)
      /\ \A x \in Table \ {tbl} : rows'[x] = rows[x] /\ index'[x] = index[x]
  BY <1>2 DEF DataTypes
<1>7. IndexSound'
  <2> SUFFICES ASSUME NEW x \in Table
               PROVE  /\ \A l \in DOMAIN index'[x] :
                           index'[x][l] \in DOMAIN rows'[x] /\ rows'[x][index'[x][l]] \in Key
                      /\ \A l, m \in DOMAIN index'[x] : index'[x][l] = index'[x][m] => l = m
    BY DEF IndexSound
  <2>1. CASE x # tbl
    BY <2>1, <1>6 DEF IndexSound
  <2>2. CASE x = tbl
    <3>1. \A l \in DOMAIN index'[tbl] :
            \/ l = k /\ index'[tbl][l] = r
            \/ l # k /\ l \in DOMAIN index[tbl] /\ index'[tbl][l] = index[tbl][l]
      BY <1>6 DEF Put
    <3>2. \A q : /\ q \in DOMAIN rows'[tbl] <=> q \in DOMAIN rows[tbl] \cup {r}
                 /\ q \in DOMAIN rows[tbl] /\ q # r => rows'[tbl][q] = rows[tbl][q]
      BY <1>6 DEF Put
    <3>3. rows'[tbl][r] = k
      BY <1>6 DEF Put
    <3>4. \A l \in DOMAIN index[tbl] : index[tbl][l] # r
      BY <1>2 DEF IndexSound, FirstFree
    <3> QED
      BY <2>2, <3>1, <3>2, <3>3, <3>4 DEF IndexSound
  <2> QED
    BY <2>1, <2>2
<1>8. TxTypeOK' /\ LockInv' /\ HistTypes' /\ Owned' /\ StableView'
  BY <1>1, <1>5, <1>6, WriteLockKeeps DEF DataTypes
<1> QED
  BY <1>5, <1>7, <1>8

\* A row without an entry.
LEMMA InsertKeylessKeeps ==
  ASSUME IInv, NEW t \in TxId, NEW tbl \in Table, NEW n \in Name, InsertKeyless(t, tbl, n)
  PROVE  IInv'
<1> USE DEF IInv
<1>1. WriteLock(t, tbl) /\ index' = index
  BY DEF InsertKeyless
<1>2. PICK r \in Rid : FirstFree(tbl, r) /\ rows' = [rows EXCEPT ![tbl] = Put(@, r, n)]
  BY DEF InsertKeyless
<1>3. Put(rows[tbl], r, n) \in PartialMap(Rid, Key \cup Name)
  BY PutType DEF DataTypes, Content
<1>4. DataTypes'
  BY <1>1, <1>2, <1>3 DEF DataTypes, Content, WriteLock, schemaVars
<1>5. /\ rows'[tbl] = Put(rows[tbl], r, n)
      /\ \A x \in Table \ {tbl} : rows'[x] = rows[x]
  BY <1>2 DEF DataTypes
<1>6. IndexSound'
  <2>1. \A x \in Table : \A q \in DOMAIN rows[x] : q \in DOMAIN rows'[x] /\ rows'[x][q] = rows[x][q]
    BY <1>2, <1>5 DEF Put, FirstFree
  <2> QED
    BY <1>1, <2>1 DEF IndexSound
<1>7. TxTypeOK' /\ LockInv' /\ HistTypes' /\ Owned' /\ StableView'
  BY <1>1, <1>4, <1>5, WriteLockKeeps DEF DataTypes
<1> QED
  BY <1>4, <1>6, <1>7

\* A row goes with its entry, and no other entry leads to it.
LEMMA DeleteKeeps ==
  ASSUME IInv, NEW t \in TxId, NEW tbl \in Table, NEW k \in Key, DeleteRecords(t, tbl, k)
  PROVE  IInv'
<1> USE DEF IInv
<1>1. /\ WriteLock(t, tbl)
      /\ k \in DOMAIN index[tbl]
      /\ rows'  = [rows EXCEPT ![tbl] = Remove(@, index[tbl][k])]
      /\ index' = [index EXCEPT ![tbl] = Remove(@, k)]
  BY DEF DeleteRecords
<1>2. /\ Remove(rows[tbl], index[tbl][k]) \in PartialMap(Rid, Key \cup Name)
      /\ Remove(index[tbl], k) \in PartialMap(Key, Rid)
  BY RemoveType DEF DataTypes, Content
<1>3. DataTypes'
  BY <1>1, <1>2 DEF DataTypes, Content, WriteLock, schemaVars
<1>4. /\ rows'[tbl] = Remove(rows[tbl], index[tbl][k])
      /\ index'[tbl] = Remove(index[tbl], k)
      /\ \A x \in Table \ {tbl} : rows'[x] = rows[x] /\ index'[x] = index[x]
  BY <1>1 DEF DataTypes
<1>5. IndexSound'
  <2> SUFFICES ASSUME NEW x \in Table
               PROVE  /\ \A l \in DOMAIN index'[x] :
                           index'[x][l] \in DOMAIN rows'[x] /\ rows'[x][index'[x][l]] \in Key
                      /\ \A l, m \in DOMAIN index'[x] : index'[x][l] = index'[x][m] => l = m
    BY DEF IndexSound
  <2>1. CASE x # tbl
    BY <2>1, <1>4 DEF IndexSound
  <2>2. CASE x = tbl
    <3>1. \A l \in DOMAIN index'[tbl] :
            l # k /\ l \in DOMAIN index[tbl] /\ index'[tbl][l] = index[tbl][l]
      BY <1>4 DEF Remove
    <3>2. \A q \in DOMAIN rows[tbl] :
            q # index[tbl][k] => q \in DOMAIN rows'[tbl] /\ rows'[tbl][q] = rows[tbl][q]
      BY <1>4 DEF Remove
    <3> QED
      BY <2>2, <1>1, <3>1, <3>2 DEF IndexSound
  <2> QED
    BY <2>1, <2>2
<1>6. TxTypeOK' /\ LockInv' /\ HistTypes' /\ Owned' /\ StableView'
  BY <1>1, <1>3, <1>4, WriteLockKeeps DEF DataTypes
<1> QED
  BY <1>3, <1>5, <1>6

LEMMA UpdateKeeps ==
  ASSUME IInv, NEW t \in TxId, NEW tbl \in Table, NEW k \in Key, UpdateRecords(t, tbl, k)
  PROVE  IInv'
<1> USE DEF IInv
<1> DEFINE r == index[tbl][0]
<1>1. /\ WriteLock(t, tbl) /\ index' = index
      /\ r \in DOMAIN rows[tbl]
      /\ rows' = [rows EXCEPT ![tbl] = [rows[tbl] EXCEPT ![r] = k]]
  BY DEF UpdateRecords, DataTypes
<1> HIDE DEF r
<1>2. [rows[tbl] EXCEPT ![r] = k] \in PartialMap(Rid, Key \cup Name)
  BY <1>1, ReplaceType DEF DataTypes, Content
<1>3. DataTypes'
  BY <1>1, <1>2 DEF DataTypes, Content, WriteLock, schemaVars
<1>4. /\ rows'[tbl] = [rows[tbl] EXCEPT ![r] = k]
      /\ \A x \in Table \ {tbl} : rows'[x] = rows[x]
  BY <1>1 DEF DataTypes
<1>5. IndexSound'
  <2>1. \A x \in Table : \A q \in DOMAIN rows[x] :
          q \in DOMAIN rows'[x] /\ (rows'[x][q] = rows[x][q] \/ rows'[x][q] = k)
    BY <1>4
  <2> QED
    BY <1>1, <2>1 DEF IndexSound
<1>6. TxTypeOK' /\ LockInv' /\ HistTypes' /\ Owned' /\ StableView'
  BY <1>1, <1>3, <1>4, WriteLockKeeps DEF DataTypes
<1> QED
  BY <1>3, <1>5, <1>6

LEMMA EmptyHandedKeeps ==
  ASSUME IInv, NEW t \in TxId, NEW tbl \in Table, EmptyHanded(t, tbl)
  PROVE  IInv'
<1> USE DEF IInv
<1>1. WriteLock(t, tbl) /\ rows' = rows /\ index' = index
  BY DEF EmptyHanded, dataVars
<1>2. DataTypes' /\ IndexSound'
  BY <1>1 DEF DataTypes, IndexSound, WriteLock, schemaVars
<1>3. TxTypeOK' /\ LockInv' /\ HistTypes' /\ Owned' /\ StableView'
  BY <1>1, WriteLockKeeps DEF DataTypes
<1> QED
  BY <1>2, <1>3

-----------------------------------------------------------------------------
(* Statements outside the transactions.                                     *)

\* A table has finitely many rows, so ANALYZE finds two numbers.
LEMMA CountsAreNumbers ==
  ASSUME NEW f \in Content
  PROVE  Cardinality(DOMAIN f) \in Nat /\ Cardinality({f[r] : r \in DOMAIN f}) \in Nat
<1>1. DOMAIN f \subseteq Rid
  BY PartialMapFacts DEF Content
<1>2. IsFiniteSet(Rid)
  BY FS_Interval, StorageAssumption DEF Rid
<1>3. IsFiniteSet(DOMAIN f)
  BY <1>1, <1>2, FS_Subset
<1>4. IsFiniteSet({f[r] : r \in DOMAIN f})
  <2> DEFINE T == {f[r] : r \in DOMAIN f}
  <2>1. f \in [DOMAIN f -> T]
    BY DEF Content, PartialMap
  <2>2. f \in Surjection(DOMAIN f, T)
    BY <2>1 DEF Surjection
  <2> QED
    BY <1>3, <2>2, FS_Surjection
<1> QED
  BY <1>3, <1>4, FS_CardinalityType

LEMMA SchemaKeeps ==
  ASSUME IInv, UNCHANGED <<txVars, table_, dataVars, histVars>>,
         catalog_' \subseteq Table,
         tables_' \in [Table -> {"none", "INT", "STRING"}],
         stats' \in [Table -> [rowCount : Nat, distinct : Nat]]
  PROVE  IInv'
<1> USE DEF IInv
<1>1. TxTypeOK' /\ \A u : Active(u)' <=> Active(u)
  BY TxUnchanged
<1>2. LockInv' /\ \A u \in TxId, x \in Table : Locks!Held(u, x)' = Locks!Held(u, x)
  BY LocksUnchanged
<1>3. DataTypes' /\ IndexSound' /\ HistTypes' /\ StableView'
  BY DEF DataTypes, IndexSound, HistTypes, StableView, dataVars, histVars
<1>4. Owned'
  BY <1>1, <1>2 DEF Owned, histVars
<1> QED
  BY <1>1, <1>2, <1>3, <1>4

LEMMA RegisterKeeps ==
  ASSUME IInv, NEW tbl \in Table, NEW type \in {"none", "INT", "STRING"}, RegisterTable(tbl, type)
  PROVE  IInv'
<1>1. /\ UNCHANGED <<txVars, table_, dataVars, histVars>>
      /\ catalog_' \subseteq Table
      /\ tables_' \in [Table -> {"none", "INT", "STRING"}]
      /\ stats' \in [Table -> [rowCount : Nat, distinct : Nat]]
  BY DEF RegisterTable, IInv, DataTypes
<1> QED
  BY <1>1, SchemaKeeps

LEMMA AnalyzeKeeps ==
  ASSUME IInv, NEW tbl \in Table, Analyze(tbl)
  PROVE  IInv'
<1>1. UNCHANGED <<catalog_, tables_, txVars, table_, dataVars, histVars>>
  BY DEF Analyze
<1>2. /\ Cardinality(DOMAIN rows[tbl]) \in Nat
      /\ Cardinality({rows[tbl][r] : r \in DOMAIN rows[tbl]}) \in Nat
  BY CountsAreNumbers DEF IInv, DataTypes
<1>3. stats' \in [Table -> [rowCount : Nat, distinct : Nat]]
  BY <1>2 DEF Analyze, IInv, DataTypes
<1> QED
  BY <1>1, <1>3, SchemaKeeps DEF IInv, DataTypes

-----------------------------------------------------------------------------
(* The invariant, and what it gives.                                        *)

LEMMA InitIInv == Init => IInv
<1> SUFFICES ASSUME Init
             PROVE  IInv
  OBVIOUS
<1>1. TxTypeOK
  BY TxAssumption DEF Init, TxInit, TxTypeOK, TxState
<1>2. LockInv /\ \A t \in TxId, tbl \in Table : Locks!Held(t, tbl) = "none"
  BY StorageAssumption
     DEF Init, Locks!Init, LockInv, LP!IInv, LP!TypeOK, LP!LockCompatibility,
         Locks!Held, Locks!Info, Locks!NoLock
<1>3. EmptyMap \in Content /\ EmptyMap \in PartialMap(Key, Rid) /\ DOMAIN EmptyMap = {}
  BY EmptyMapType DEF EmptyMap, Content
<1>4. DataTypes
  BY <1>3 DEF Init, DataTypes
<1>5. HistTypes /\ Owned /\ StableView
  BY <1>2 DEF Init, HistTypes, Owned, StableView
<1>6. IndexSound
  BY <1>3 DEF Init, IndexSound
<1> QED
  BY <1>1, <1>2, <1>4, <1>5, <1>6 DEF IInv

LEMMA NextIInv == IInv /\ [Next]_vars => IInv'
<1> SUFFICES ASSUME IInv, [Next]_vars
             PROVE  IInv'
  OBVIOUS
<1>1. ASSUME NEW tbl \in Table, Analyze(tbl)
      PROVE  IInv'
  BY <1>1, AnalyzeKeeps
<1>2. ASSUME NEW tbl \in Table, NEW type \in {"none", "INT", "STRING"}, RegisterTable(tbl, type)
      PROVE  IInv'
  BY <1>2, RegisterKeeps
<1>3. ASSUME NEW t \in TxId, Begin(t)
      PROVE  IInv'
  BY <1>3, BeginKeeps
<1>4. ASSUME NEW t \in TxId, Commit(t) \/ Rollback(t)
      PROVE  IInv'
  BY <1>4, EndKeeps DEF Commit, Rollback, CommitTransaction, AbortTransaction, TxState
<1>5. ASSUME NEW t \in TxId, NEW tbl \in Table, ScanTable(t, tbl)
      PROVE  IInv'
  BY <1>5, ScanKeeps
<1>6. ASSUME NEW t \in TxId, NEW tbl \in Table, EmptyHanded(t, tbl)
      PROVE  IInv'
  BY <1>6, EmptyHandedKeeps
<1>7. ASSUME NEW t \in TxId, NEW tbl \in Table, NEW n \in Name, InsertKeyless(t, tbl, n)
      PROVE  IInv'
  BY <1>7, InsertKeylessKeeps
<1>8. ASSUME NEW t \in TxId, NEW tbl \in Table, NEW k \in Key,
             InsertRecord(t, tbl, k) \/ DeleteRecords(t, tbl, k) \/ UpdateRecords(t, tbl, k)
      PROVE  IInv'
  BY <1>8, InsertKeeps, DeleteKeeps, UpdateKeeps
<1>9. CASE UNCHANGED vars
  <2>1. UNCHANGED <<txVars, table_, dataVars, histVars>> /\ UNCHANGED <<catalog_, tables_, stats>>
    BY <1>9 DEF vars, schemaVars
  <2> QED
    BY <2>1, SchemaKeeps DEF IInv, DataTypes
<1> QED
  BY <1>1, <1>2, <1>3, <1>4, <1>5, <1>6, <1>7, <1>8, <1>9 DEF Next

LEMMA InvariantHolds == Spec => []IInv
<1> QED
  BY InitIInv, NextIInv, PTL DEF Spec

\* The engine's tables, the transactions and the locks stay well-formed.
THEOREM TypeCorrect == Spec => []TypeOK
<1>1. IInv => TypeOK
  BY LockTypes DEF IInv, DataTypes, HistTypes, TypeOK
<1> QED
  BY <1>1, InvariantHolds, PTL

\* Isolation: what a transaction saw in a table stays as it saw it until it ends.
THEOREM ViewsAreStable == Spec => []StableView
<1>1. IInv => StableView
  BY DEF IInv
<1> QED
  BY <1>1, InvariantHolds, PTL

\* Nobody reads or writes what an unfinished transaction has changed.
THEOREM NoDirtyReads == Spec => []DirtyIsPrivate
<1>1. ASSUME IInv
      PROVE  DirtyIsPrivate
  <2> SUFFICES ASSUME NEW t \in TxId, NEW tbl \in Table,
                      before[t][tbl] \notin {Unknown, rows[tbl]},
                      NEW u \in TxId \ {t}
               PROVE  view[u][tbl] = Unknown
    BY DEF DirtyIsPrivate
  <2>1. Locks!Held(t, tbl) = "X"
    BY <1>1 DEF IInv, Owned
  <2>2. Locks!Held(u, tbl) = "none"
    <3>1. tbl \in DOMAIN table_ /\ table_[tbl].xHolder = t
      BY <2>1, StorageAssumption DEF Locks!Held, Locks!Info, Locks!NoLock
    <3>2. table_[tbl].sHolders \subseteq {t}
      BY <1>1, <3>1, StorageAssumption DEF IInv, LockInv, LP!IInv, LP!LockCompatibility
    <3> QED
      BY <3>1, <3>2 DEF Locks!Held, Locks!Info
  <2> QED
    BY <1>1, <2>2 DEF IInv, Owned
<1>2. IInv => DirtyIsPrivate
  BY <1>1
<1> QED
  BY <1>2, InvariantHolds, PTL

\* Every index entry leads to a row of an INT key, and no two to the same.
THEOREM IndexIsSound == Spec => []IndexSound
<1>1. IInv => IndexSound
  BY DEF IInv
<1> QED
  BY <1>1, InvariantHolds, PTL

\* No step takes a lock from a transaction that goes on.
LEMMA LocksGrow ==
  ASSUME IInv, [Next]_vars, NEW t \in TxId, Active(t)', NEW tbl \in Table
  PROVE  Rank(Locks!Held(t, tbl)) <= Rank(Locks!Held(t, tbl)')
<1>1. Locks!Held(t, tbl) \in {"none", "S", "X"} /\ Locks!Held(t, tbl)' \in {"none", "S", "X"}
  BY HeldModes DEF Locks!Held
<1>2. SUFFICES \/ Locks!Held(t, tbl)' = Locks!Held(t, tbl)
               \/ Locks!Held(t, tbl) = "none"
               \/ Locks!Held(t, tbl)' = "X"
  BY <1>1, <1>2 DEF Rank
<1>3. CASE UNCHANGED table_
  BY <1>3 DEF Locks!Held, Locks!Info
<1>4. ASSUME NEW u \in TxId, NEW x \in Table, Locks!LockShared(u, x)
      PROVE  Locks!Held(t, tbl)' = Locks!Held(t, tbl) \/ Locks!Held(t, tbl) = "none"
  BY <1>4, SharedEffect DEF IInv
<1>5. ASSUME NEW u \in TxId, NEW x \in Table, Locks!LockExclusive(u, x)
      PROVE  Locks!Held(t, tbl)' = Locks!Held(t, tbl) \/ Locks!Held(t, tbl)' = "X"
  BY <1>5, ExclusiveEffect DEF IInv
<1>6. ASSUME NEW u \in TxId, NEW state \in TxState \ {"ACTIVE"}, Finish(u, state),
             Locks!ReleaseTransactionLocks(u)
      PROVE  Locks!Held(t, tbl)' = Locks!Held(t, tbl)
  <2>1. ~Active(u)'
    BY <1>6 DEF Finish, Active
  <2> QED
    BY <1>6, <2>1, ReleaseEffect DEF IInv
<1>7. \/ UNCHANGED table_
      \/ \E u \in TxId, x \in Table : Locks!LockShared(u, x) \/ Locks!LockExclusive(u, x)
      \/ \E u \in TxId, state \in TxState \ {"ACTIVE"} :
           Finish(u, state) /\ Locks!ReleaseTransactionLocks(u)
  <2>1. ASSUME NEW u \in TxId, Commit(u) \/ Rollback(u)
        PROVE  \E state \in TxState \ {"ACTIVE"} :
                 Finish(u, state) /\ Locks!ReleaseTransactionLocks(u)
    <3>1. "COMMITTED" \in TxState \ {"ACTIVE"} /\ "ABORTED" \in TxState \ {"ACTIVE"}
      BY DEF TxState
    <3> QED
      BY <2>1, <3>1 DEF Commit, Rollback, CommitTransaction, AbortTransaction, End
  <2>2. ASSUME NEW u \in TxId, NEW x \in Table, ScanTable(u, x)
        PROVE  Locks!LockShared(u, x)
    BY <2>2 DEF ScanTable
  <2>3. ASSUME NEW u \in TxId, NEW x \in Table,
               \/ EmptyHanded(u, x) \/ \E n \in Name : InsertKeyless(u, x, n)
               \/ \E k \in Key :
                    InsertRecord(u, x, k) \/ DeleteRecords(u, x, k) \/ UpdateRecords(u, x, k)
        PROVE  Locks!LockExclusive(u, x)
    BY <2>3 DEF EmptyHanded, InsertKeyless, InsertRecord, DeleteRecords, UpdateRecords, WriteLock
  <2>4. ASSUME NEW u \in TxId, Begin(u)
        PROVE  UNCHANGED table_
    BY <2>4 DEF Begin
  <2>5. ASSUME NEW x \in Table, Analyze(x) \/ \E type \in {"none", "INT", "STRING"} : RegisterTable(x, type)
        PROVE  UNCHANGED table_
    BY <2>5 DEF Analyze, RegisterTable
  <2> QED
    BY <2>1, <2>2, <2>3, <2>4, <2>5 DEF Next, vars
<1> QED
  BY <1>3, <1>4, <1>5, <1>6, <1>7

\* Strict two-phase locking: a transaction's locks only grow until it ends, and
\* then all of them are gone.
THEOREM LocksAreTwoPhase == Spec => StrictTwoPhase
<1> DEFINE Step == \A t \in TxId, tbl \in Table :
                     IF Active(t)' THEN Rank(Locks!Held(t, tbl)) <= Rank(Locks!Held(t, tbl)')
                                   ELSE Locks!Held(t, tbl)' = "none"
<1>1. IInv /\ IInv' /\ [Next]_vars => Step
  BY LocksGrow DEF IInv, Owned
<1> QED
  BY <1>1, InvariantHolds, PTL DEF Spec, StrictTwoPhase

-----------------------------------------------------------------------------
(* What LockManager promises, of the calls the engine makes.                *)

LEMMA SameHeld ==
  ASSUME NEW t, NEW tbl
  PROVE  Locks!Held(t, tbl) = LP!Held(t, tbl) /\ Locks!Held(t, tbl)' = LP!Held(t, tbl)'
  BY DEF Locks!Held, LP!Held, Locks!Info, LP!Info, Locks!NoLock, LP!NoLock

LEMMA SameCall ==
  ASSUME NEW t
  PROVE  Locks!Call(t) <=> LP!Call(t)
<1>1. Locks!Drop(t, Table) <=> LP!Drop(t, Table)
  BY DEF Locks!Drop, LP!Drop, Locks!Without, LP!Without, Locks!NoLock, LP!NoLock
<1>2. ASSUME NEW r
      PROVE  Locks!Drop(t, {r}) <=> LP!Drop(t, {r})
  BY DEF Locks!Drop, LP!Drop, Locks!Without, LP!Without, Locks!NoLock, LP!NoLock
<1> QED
  BY <1>1, <1>2, SameLocks
     DEF Locks!Call, LP!Call, Locks!Unlock, LP!Unlock,
         Locks!ReleaseTransactionLocks, LP!ReleaseTransactionLocks

\* To the lock table a step of the engine is a call of one transaction, or nothing.
LEMMA LocksFollow == Spec => LP!Spec
<1>1. Init => LP!Init
  BY DEF Init, Locks!Init, LP!Init, Locks!NoLock, LP!NoLock
<1>2. [Next]_vars => [LP!Next]_table_
  <2> SUFFICES ASSUME [Next]_vars
               PROVE  LP!Next \/ UNCHANGED table_
    OBVIOUS
  <2>1. ASSUME NEW t \in TxId, NEW tbl \in Table,
               Locks!LockShared(t, tbl) \/ Locks!LockExclusive(t, tbl)
        PROVE  LP!Next
    BY <2>1, SameLocks DEF LP!Next, LP!Call
  <2>2. ASSUME NEW t \in TxId, Locks!ReleaseTransactionLocks(t)
        PROVE  LP!Next
    BY <2>2, SameLocks DEF LP!Next, LP!Call, LP!ReleaseTransactionLocks
  <2>3. CASE UNCHANGED vars
    BY <2>3 DEF vars
  <2>4. CASE Next
    <3>1. ASSUME NEW t \in TxId, Commit(t) \/ Rollback(t)
          PROVE  Locks!ReleaseTransactionLocks(t)
      BY <3>1 DEF Commit, Rollback, End
    <3>2. ASSUME NEW t \in TxId, NEW tbl \in Table, ScanTable(t, tbl)
          PROVE  Locks!LockShared(t, tbl)
      BY <3>2 DEF ScanTable
    <3>3. ASSUME NEW t \in TxId, NEW tbl \in Table,
                 \/ EmptyHanded(t, tbl) \/ \E n \in Name : InsertKeyless(t, tbl, n)
                 \/ \E k \in Key :
                      InsertRecord(t, tbl, k) \/ DeleteRecords(t, tbl, k) \/ UpdateRecords(t, tbl, k)
          PROVE  Locks!LockExclusive(t, tbl)
      BY <3>3 DEF EmptyHanded, InsertKeyless, InsertRecord, DeleteRecords, UpdateRecords, WriteLock
    <3>4. ASSUME NEW t \in TxId, Begin(t)
          PROVE  UNCHANGED table_
      BY <3>4 DEF Begin
    <3>5. ASSUME NEW tbl \in Table,
                 Analyze(tbl) \/ \E type \in {"none", "INT", "STRING"} : RegisterTable(tbl, type)
          PROVE  UNCHANGED table_
      BY <3>5 DEF Analyze, RegisterTable
    <3> HIDE DEF LP!Next
    <3> QED
      BY <2>1, <2>2, <2>4, <3>1, <3>2, <3>3, <3>4, <3>5 DEF Next
  <2> QED
    BY <2>3, <2>4
<1> QED
  BY <1>1, <1>2, PTL DEF Spec, LP!Spec

\* No two transactions hold incompatible locks on a table, whatever their statements.
THEOREM LocksCompatible == Spec => []LockCompatibility
<1>1. IInv => LockCompatibility
  BY DEF IInv, LockInv, LP!IInv, LP!LockCompatibility, LockCompatibility, Locks!LockCompatibility
<1> QED
  BY <1>1, InvariantHolds, PTL

\* No statement and no end of one transaction changes a lock of another.
THEOREM OthersUntouched == Spec => LocksStable
<1>1. LP!NoTxFresh
  BY StorageAssumption DEF LP!NoTxFresh
<1>2. LP!Spec => LP!LocksStable
  BY <1>1, LP!OthersUntouched
<1>3. (\A t, u \in TxId : \A r \in Table :
         LP!Call(t) /\ u # t => LP!Held(u, r)' = LP!Held(u, r))
      => (\A t, u \in TxId : \A r \in Table :
            Locks!Call(t) /\ u # t => Locks!Held(u, r)' = Locks!Held(u, r))
  <2>1. ASSUME NEW t PROVE Locks!Call(t) => LP!Call(t)
    BY SameCall
  <2>2. \A t, r : Locks!Held(t, r) = LP!Held(t, r) /\ Locks!Held(t, r)' = LP!Held(t, r)'
    BY SameHeld
  <2> QED
    BY <2>1, <2>2
<1>4. LP!LocksStable => LocksStable
  BY <1>3, PTL DEF LocksStable, Locks!LocksStable, LP!LocksStable
<1> QED
  BY <1>2, <1>4, LocksFollow

\* The locks the engine takes and gives up are those of the abstract table.
THEOREM ImplementsLocks == Spec => ImplementsLockTable
<1>1. LP!NoTxFresh
  BY StorageAssumption DEF LP!NoTxFresh
<1>2. LP!Spec => LP!ImplementsLockTable
  BY <1>1, LP!Implements
<1>3. [t \in TxId |-> [r \in Table |-> Locks!Held(t, r)]]
      = [t \in TxId |-> [r \in Table |-> LP!Held(t, r)]]
  BY SameHeld
<1>4. [t \in TxId |-> [r \in Table |-> Locks!Held(t, r)']]
      = [t \in TxId |-> [r \in Table |-> LP!Held(t, r)']]
  BY SameHeld
<1>5. LP!Abstract!Init => Locks!Abstract!Init
  BY <1>3 DEF LP!Abstract!Init, Locks!Abstract!Init
<1>6. [LP!Abstract!Next]_[t \in TxId |-> [r \in Table |-> LP!Held(t, r)]]
      => [Locks!Abstract!Next]_[t \in TxId |-> [r \in Table |-> Locks!Held(t, r)]]
  <2>1. ASSUME NEW t, NEW r, NEW m
        PROVE  LP!Abstract!Free(t, r, m) <=> Locks!Abstract!Free(t, r, m)
    BY <1>3 DEF LP!Abstract!Free, Locks!Abstract!Free, LP!Abstract!Compatible, Locks!Abstract!Compatible
  <2>2. ASSUME NEW t, NEW r
        PROVE  LP!Abstract!GrantShared(t, r) <=> Locks!Abstract!GrantShared(t, r)
    BY <1>3, <1>4, <2>1 DEF LP!Abstract!GrantShared, Locks!Abstract!GrantShared
  <2>3. ASSUME NEW t, NEW r
        PROVE  LP!Abstract!GrantExclusive(t, r) <=> Locks!Abstract!GrantExclusive(t, r)
    BY <1>3, <1>4, <2>1 DEF LP!Abstract!GrantExclusive, Locks!Abstract!GrantExclusive
  <2>4. ASSUME NEW t, NEW R
        PROVE  LP!Abstract!Release(t, R) <=> Locks!Abstract!Release(t, R)
    <3> DEFINE m == [u \in TxId |-> [r \in Table |-> LP!Held(u, r)]]
               n == [u \in TxId |-> [r \in Table |-> Locks!Held(u, r)]]
    <3>1. /\ LP!Abstract!Release(t, R) <=>
               m' = [m EXCEPT ![t] = [r \in Table |-> IF r \in R THEN "none" ELSE @[r]]]
          /\ Locks!Abstract!Release(t, R) <=>
               n' = [n EXCEPT ![t] = [r \in Table |-> IF r \in R THEN "none" ELSE @[r]]]
      BY Zenon DEF LP!Abstract!Release, Locks!Abstract!Release
    <3>2. m = n /\ m' = n'
      BY <1>3, <1>4
    <3> HIDE DEF m, n
    <3> QED
      BY <3>1, <3>2, Zenon
  <2>5. LP!Abstract!Next <=> Locks!Abstract!Next
    BY <2>2, <2>3, <2>4 DEF LP!Abstract!Next, Locks!Abstract!Next
  <2> QED
    BY <1>3, <1>4, <2>5
<1>7. LP!ImplementsLockTable => ImplementsLockTable
  BY <1>5, <1>6, PTL
     DEF ImplementsLockTable, Locks!ImplementsLockTable, LP!ImplementsLockTable,
         Locks!Abstract!Spec, LP!Abstract!Spec
<1> QED
  BY <1>2, <1>7, LocksFollow
=============================================================================
