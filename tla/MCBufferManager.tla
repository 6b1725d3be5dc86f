-------------------------- MODULE MCBufferManager --------------------------
(* Two frames for three pages, so that every fetch of the third page evicts; *)
(* three users, so that a page can be shared while the pool is full.         *)
EXTENDS BufferManager
=============================================================================
