------------------------------ MODULE Delivery ------------------------------
(***************************************************************************)
(* What an outbox promises: a row written with the domain state is         *)
(* delivered at least once before it is marked published, and a row is     *)
(* marked published or given up as a dead letter, never both.  A delivery  *)
(* may be repeated at any time, even after the row is settled.             *)
(***************************************************************************)
CONSTANT Row  \* outbox rows: an event for a destination

VARIABLES
  written,    \* rows committed by the service
  delivered,  \* rows the broker has accepted at least once
  published,  \* rows marked published
  deadLettered

deliveryVars == <<written, delivered, published, deadLettered>>

Init ==
  /\ written = {}
  /\ delivered = {}
  /\ published = {}
  /\ deadLettered = {}

Write(r) ==
  /\ written' = written \cup {r}
  /\ UNCHANGED <<delivered, published, deadLettered>>

Deliver(r) ==
  /\ r \in written
  /\ delivered' = delivered \cup {r}
  /\ UNCHANGED <<written, published, deadLettered>>

Publish(r) ==
  /\ r \in delivered \ deadLettered
  /\ published' = published \cup {r}
  /\ UNCHANGED <<written, delivered, deadLettered>>

GiveUp(r) ==
  /\ r \in written \ published
  /\ deadLettered' = deadLettered \cup {r}
  /\ UNCHANGED <<written, delivered, published>>

Next == \E r \in Row : Write(r) \/ Deliver(r) \/ Publish(r) \/ GiveUp(r)

Spec == Init /\ [][Next]_deliveryVars
=============================================================================
