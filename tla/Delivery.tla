------------------------------ MODULE Delivery ------------------------------
(***************************************************************************)
(* What the outbox is there for: a write that the application has accepted *)
(* reaches its destination at least once, it is never taken back, and it   *)
(* counts as done only once it is there.  A write may be delivered again   *)
(* and may be taken up again after it was done.  A destination may drop    *)
(* some writes without an error: they count as done as well.               *)
(***************************************************************************)
CONSTANTS Writes, Droppable

VARIABLES accepted, delivered, dropped, settled

TypeOK ==
  /\ accepted \subseteq Writes
  /\ delivered \subseteq accepted
  /\ dropped \subseteq accepted \cap Droppable
  /\ settled \subseteq delivered \cup dropped

Init ==
  /\ accepted = {}
  /\ delivered = {}
  /\ dropped = {}
  /\ settled = {}

Accept(w) ==
  /\ accepted' = accepted \cup {w}
  /\ UNCHANGED <<delivered, dropped, settled>>

Deliver(w) ==
  /\ w \in accepted
  /\ delivered' = delivered \cup {w}
  /\ UNCHANGED <<accepted, dropped, settled>>

\* Nobody can tell whether the destination has the write nevertheless.
Drop(w) ==
  /\ w \in accepted \cap Droppable
  /\ dropped' = dropped \cup {w}
  /\ delivered' \in {delivered, delivered \cup {w}}
  /\ UNCHANGED <<accepted, settled>>

Account ==
  /\ settled' \subseteq delivered \cup dropped
  /\ UNCHANGED <<accepted, delivered, dropped>>

Next == (\E w \in Writes : Accept(w) \/ Deliver(w) \/ Drop(w)) \/ Account

Spec == Init /\ [][Next]_<<accepted, delivered, dropped, settled>>
=============================================================================
