------------------------------ MODULE Workflow ------------------------------
(***************************************************************************)
(* What the workers promise about a paid booking, without queues,          *)
(* deliveries, handlers or retries.  Each side effect - the tickets, the   *)
(* mail - is made once, for a booking that was paid, or it is skipped for  *)
(* one that is cancelled; which of the two is decided once.  Booking knows *)
(* of tickets after they were made, and the tickets are done only then.    *)
(***************************************************************************)
CONSTANT Event  \* paid events, which name their bookings

Effect == {"ticket", "mail"}

VARIABLES
  status,  \* of the booking
  refs,    \* bookings that know their tickets
  inbox,   \* what was decided about the effect, and whether it is done
  made     \* <<effect, event>>: the effects that exist

workflowVars == <<status, refs, inbox, made>>

Init ==
  /\ status = [e \in Event |-> "PENDING_PAYMENT"]
  /\ refs = {}
  /\ inbox = [q \in Effect |-> [e \in Event |-> "none"]]
  /\ made = {}

Move(e, from, to) ==
  /\ status[e] \in from
  /\ status' = [status EXCEPT ![e] = to]
  /\ UNCHANGED <<refs, inbox, made>>

Pay(e) == Move(e, {"PENDING_PAYMENT"}, "PAID")
Cancel(e) == Move(e, {"PAID", "TICKET_ISSUED"}, "CANCELLED")
CheckIn(e) == Move(e, {"TICKET_ISSUED"}, "CHECKED_IN")

Decide(q, e, row) ==
  /\ inbox[q][e] = "none"
  /\ inbox' = [inbox EXCEPT ![q][e] = row]
  /\ UNCHANGED <<status, refs>>

Make(q, e) ==
  /\ status[e] # "PENDING_PAYMENT"
  /\ Decide(q, e, IF q = "ticket" THEN "pending" ELSE "fulfilled")
  /\ made' = made \cup {<<q, e>>}

Skip(q, e) ==
  /\ status[e] = "CANCELLED"
  /\ Decide(q, e, "skipped")
  /\ UNCHANGED made

Issue(e) ==
  /\ <<"ticket", e>> \in made
  /\ status[e] \in {"PAID", "TICKET_ISSUED", "CHECKED_IN"}
  /\ refs' = refs \cup {e}
  /\ status' = IF status[e] = "PAID" THEN [status EXCEPT ![e] = "TICKET_ISSUED"] ELSE status
  /\ UNCHANGED <<inbox, made>>

Complete(e) ==
  /\ inbox["ticket"][e] = "pending"
  /\ e \in refs
  /\ inbox' = [inbox EXCEPT !["ticket"][e] = "fulfilled"]
  /\ UNCHANGED <<status, refs, made>>

Next ==
  \E e \in Event :
    \/ Pay(e) \/ Cancel(e) \/ CheckIn(e)
    \/ \E q \in Effect : Make(q, e) \/ Skip(q, e)
    \/ Issue(e) \/ Complete(e)

Spec == Init /\ [][Next]_workflowVars
=============================================================================
