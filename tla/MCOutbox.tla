------------------------------ MODULE MCOutbox ------------------------------
\* Outbox with one write of each kind, or with the two that must arrive.
EXTENDS Outbox

MCKind == [d \in Writes |-> IF d = 1 THEN "required" ELSE IF d = 2 THEN "event" ELSE "optional"]
=============================================================================
