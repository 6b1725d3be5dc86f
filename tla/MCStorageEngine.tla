-------------------------- MODULE MCStorageEngine --------------------------
(* Three keys, each below, between and above the others once; two pages of  *)
(* two slots for the rows, so that a record id is reused and a key can have *)
(* two rows.                                                                *)
EXTENDS StorageEngine
=============================================================================
