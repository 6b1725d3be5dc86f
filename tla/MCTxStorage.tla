---------------------------- MODULE MCTxStorage ----------------------------
(* Three transactions open at once, so that an upgrade can meet a second     *)
(* reader and a third writer; one table is enough for a conflict, two rows   *)
(* for the reuse of a record id, two keys for an index entry that moves.     *)
EXTENDS TxStorage
=============================================================================
