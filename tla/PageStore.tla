----------------------------- MODULE PageStore -----------------------------
(***************************************************************************)
(* What the buffer pool promises the heaps and the indexes above it: every *)
(* page has one current content, which is the last one written through any *)
(* pointer to it; some earlier content of it is on disk; a crash goes back *)
(* to what is on disk, and nothing else changes a page.                    *)
(***************************************************************************)
CONSTANTS Page,      \* page identifiers
          Content,   \* what a page can hold
          Zero       \* the zeroed page

VARIABLES content,   \* content[p]: what a reader of p sees
          durable    \* durable[p]: what a reader of p sees after a crash

vars == <<content, durable>>

Init ==
  /\ content = [p \in Page |-> Zero]
  /\ durable = [p \in Page |-> Zero]

Write(p, v) ==
  /\ content' = [content EXCEPT ![p] = v]
  /\ UNCHANGED durable

Persist(P) ==
  /\ durable' = [p \in Page |-> IF p \in P THEN content[p] ELSE durable[p]]
  /\ UNCHANGED content

Crash ==
  /\ content' = durable
  /\ UNCHANGED durable

Next ==
  \/ \E p \in Page, v \in Content : Write(p, v)
  \/ \E P \in SUBSET Page : Persist(P)
  \/ Crash

Spec == Init /\ [][Next]_vars
=============================================================================
