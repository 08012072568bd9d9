-------------------------- MODULE BookingLifecycle --------------------------
(***************************************************************************)
(* What checkout promises about a booking, without services, locks, holds  *)
(* or requests in flight: it is paid only while it has its seats, it gets  *)
(* seats only once it is charged, it gives them back only when cancelled,  *)
(* and a booking that has expired or was cancelled stays so.               *)
(***************************************************************************)
CONSTANTS Booking

VARIABLES
  status,   \* status of each booking
  charged,  \* bookings with a successful payment
  seated    \* bookings that own all their seats

lifecycleVars == <<status, charged, seated>>

Init ==
  /\ status = [b \in Booking |-> "none"]
  /\ charged = {}
  /\ seated = {}

Move(b, from, to) ==
  /\ status[b] \in from
  /\ status' = [status EXCEPT ![b] = to]
  /\ UNCHANGED <<charged, seated>>

Create(b) == Move(b, {"none"}, "PENDING_PAYMENT")
Pay(b)    == b \in seated /\ Move(b, {"PENDING_PAYMENT"}, "PAID")
Expire(b) == Move(b, {"PENDING_PAYMENT"}, "EXPIRED")
Issue(b)  == Move(b, {"PAID"}, "TICKET_ISSUED")
CheckIn(b) == Move(b, {"TICKET_ISSUED"}, "CHECKED_IN")
Cancel(b) == Move(b, {"PAID", "TICKET_ISSUED"}, "CANCELLED")

Charge(b) ==
  /\ status[b] # "none"
  /\ charged' = charged \cup {b}
  /\ UNCHANGED <<status, seated>>

(* The seats may still come after the booking has expired: nothing orders the
   confirmation of a charged booking before the end of its payment window. *)
TakeSeats(b) ==
  /\ b \in charged
  /\ seated' = seated \cup {b}
  /\ UNCHANGED <<status, charged>>

GiveBack(b) ==
  /\ status[b] = "CANCELLED"
  /\ seated' = seated \ {b}
  /\ UNCHANGED <<status, charged>>

Next ==
  \E b \in Booking :
    \/ Create(b) \/ Pay(b) \/ Expire(b) \/ Issue(b) \/ CheckIn(b) \/ Cancel(b)
    \/ Charge(b) \/ TakeSeats(b) \/ GiveBack(b)

Spec == Init /\ [][Next]_lifecycleVars
=============================================================================
