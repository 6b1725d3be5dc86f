------------------------- MODULE TransactionManager -------------------------
(***************************************************************************)
(* src/transactionManager/TransactionManager.cpp: hands out transaction    *)
(* ids and keeps the state of every transaction of this process.           *)
(***************************************************************************)
EXTENDS Integers

CONSTANT MaxTx       \* bound: ids handed out are 1 .. MaxTx

ASSUME TxAssumption == MaxTx \in Nat

VARIABLES nextTxId_,
          txTable_   \* id |-> state, for the ids handed out

txVars == <<nextTxId_, txTable_>>

TxId == 1 .. MaxTx

TxState == {"ACTIVE", "COMMITTED", "ABORTED"}

TxTypeOK ==
  /\ nextTxId_ \in 1 .. MaxTx + 1
  /\ txTable_ \in [1 .. nextTxId_ - 1 -> TxState]

TxInit ==
  /\ nextTxId_ = 1
  /\ txTable_ = [t \in {} |-> "ACTIVE"]

Active(t) == t \in DOMAIN txTable_ /\ txTable_[t] = "ACTIVE"

\* Faulty: the id is handed out again.
BeginTransactionSameId(t) ==
  /\ nextTxId_ <= MaxTx
  /\ t = nextTxId_
  /\ txTable_' = [u \in DOMAIN txTable_ \cup {t} |->
                    IF u = t THEN "ACTIVE" ELSE txTable_[u]]
  /\ UNCHANGED nextTxId_

BeginTransaction(t) ==
  /\ nextTxId_ <= MaxTx
  /\ t = nextTxId_
  /\ nextTxId_' = nextTxId_ + 1
  /\ txTable_' = [u \in DOMAIN txTable_ \cup {t} |->
                    IF u = t THEN "ACTIVE" ELSE txTable_[u]]

\* Throws, and changes nothing, unless the transaction is active.
Finish(t, state) ==
  /\ Active(t)
  /\ txTable_' = [txTable_ EXCEPT ![t] = state]
  /\ UNCHANGED nextTxId_

CommitTransaction(t) == Finish(t, "COMMITTED")
AbortTransaction(t)  == Finish(t, "ABORTED")
=============================================================================
