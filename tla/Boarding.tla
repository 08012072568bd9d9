------------------------------ MODULE Boarding ------------------------------
(***************************************************************************)
(* What booking-service promises of boarding, without desks, locks,        *)
(* snapshots or answers: each registered ticket of a booking is checked in *)
(* once, for good, under a key of its own; the first check-in moves the    *)
(* booking to CHECKED_IN and is the one its history has; no ticket of a    *)
(* cancelled booking is checked in, and no booking is cancelled after one. *)
(***************************************************************************)
EXTENDS Naturals

CONSTANTS Ticket, Key, NoKey

VARIABLES
  status,   \* of the booking
  refs,     \* its registered tickets
  boarded,  \* the key each ticket was checked in under
  rows      \* CHECKED_IN rows of its history

bookingVars == <<status, refs, boarded, rows>>

Init ==
  /\ status = "PAID"
  /\ refs = {}
  /\ boarded = [t \in Ticket |-> NoKey]
  /\ rows = 0

Register ==
  /\ status = "PAID"
  /\ status' = "TICKET_ISSUED"
  /\ refs' = Ticket
  /\ UNCHANGED <<boarded, rows>>

Cancel ==
  /\ status \in {"PAID", "TICKET_ISSUED"}
  /\ status' = "CANCELLED"
  /\ UNCHANGED <<refs, boarded, rows>>

Board(t, k) ==
  /\ t \in refs
  /\ status \in {"TICKET_ISSUED", "CHECKED_IN"}
  /\ boarded[t] = NoKey
  /\ \A u \in Ticket : boarded[u] # k
  /\ boarded' = [boarded EXCEPT ![t] = k]
  /\ rows' = IF status = "TICKET_ISSUED" THEN rows + 1 ELSE rows
  /\ status' = "CHECKED_IN"
  /\ UNCHANGED refs

Next == Register \/ Cancel \/ \E t \in Ticket, k \in Key : Board(t, k)

Spec == Init /\ [][Next]_bookingVars
=============================================================================
