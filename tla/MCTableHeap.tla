---------------------------- MODULE MCTableHeap ----------------------------
(* Two pages of two slots: first fit meets tombstones before and behind a    *)
(* full page, and a crash takes the pages back separately.  One record and   *)
(* the zero bytes are enough to tell a written slot from an unwritten one.   *)
EXTENDS TableHeap
=============================================================================
