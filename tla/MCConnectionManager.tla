------------------------ MODULE MCConnectionManager ------------------------
(* Two clients, so that one waits while the other is served and the second   *)
(* meets what the first has left open; two statements each, and the second   *)
(* client may put a semicolon into a literal.                                *)
EXTENDS ConnectionManager
=============================================================================
