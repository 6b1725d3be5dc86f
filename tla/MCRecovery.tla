----------------------------- MODULE MCRecovery -----------------------------
(* One page of two slots, so that a slot is reused inside a transaction and  *)
(* across two; as many records as two transactions need to depend on each    *)
(* other; a value whose old text reads as another, and one the log cannot be *)
(* read with.  Numbers have a second digit from 2 on.                        *)
EXTENDS Recovery

CONSTANTS a, b

Shortened == [d \in Datum |-> IF d = b THEN a ELSE d]

\* No life is followed once the log file is past reading, or read as another one.
Followed == Sound /\ (phase = "serving" => CanRead(logFile_) /\ ReadsBack(logFile_))

Cleared(page) == [page EXCEPT !.record = [i \in Heap!Slot |-> IF page.alive[i] THEN @[i] ELSE Zero]]

\* The bytes of a deleted record are never read.
Visible == <<[p \in Heap!Page |-> Cleared(content[p])], [p \in Heap!Page |-> Cleared(durable[p])],
             pageCount, phase, txVars, logVars, replayed, histVars>>
=============================================================================
