----------------------------- MODULE Fulfilment -----------------------------
(***************************************************************************)
(* What happens after a payment: Booking's outbox publishes the paid event *)
(* of a booking, Ticket Worker makes the tickets and tells Booking, and    *)
(* Notification Worker records an e-mail.  A booking has one paid event    *)
(* and is named by it.  Either handler is cut at every await.              *)
(***************************************************************************)
EXTENDS WorkerRuntime

ASSUME QueueAssumption == Queue = {"ticket", "mail"}

VARIABLES
  status,     \* booking.bookings.status
  refs,       \* bookings with rows in issued_ticket_refs
  published,  \* bookings whose event the relay has published
  inbox,      \* per worker: what its inbox row says of the event
  made,       \* <<queue, event>>: ticket documents, or the e-mail, exist
  lateIssues  \* MarkTicketIssued requests still to be served

bookingVars == <<status, refs, published>>
workerVars == <<inbox, made, lateIssues>>
vars == <<runtimeVars, bookingVars, workerVars>>

Status == {"PENDING_PAYMENT", "PAID", "TICKET_ISSUED", "CHECKED_IN", "CANCELLED"}

TypeOK ==
  /\ RuntimeTypeOK
  /\ status \in [Event -> Status]
  /\ refs \subseteq Event
  /\ published \subseteq Event
  /\ inbox \in [Queue -> [Event -> {"none", "pending", "fulfilled", "skipped"}]]
  /\ made \subseteq Queue \X Event
  /\ lateIssues \subseteq Event

Init ==
  /\ RuntimeInit
  /\ status = [e \in Event |-> "PENDING_PAYMENT"]
  /\ refs = {}
  /\ published = {}
  /\ inbox = [q \in Queue |-> [e \in Event |-> "none"]]
  /\ made = {}
  /\ lateIssues = {}

-----------------------------------------------------------------------------
(* Booking Service. *)
Move(e, from, to) ==
  /\ status[e] \in from
  /\ status' = [status EXCEPT ![e] = to]
  /\ UNCHANGED <<runtimeVars, refs, published, workerVars>>

MarkPaid(e) == Move(e, {"PENDING_PAYMENT"}, "PAID")
MarkCancelled(e) == Move(e, {"PAID", "TICKET_ISSUED"}, "CANCELLED")
CheckInTicket(e) == Move(e, {"TICKET_ISSUED"}, "CHECKED_IN")

(* The outbox's relay, which may publish a written event at any time again. *)
PublishPaid(e) ==
  /\ status[e] # "PENDING_PAYMENT"
  /\ Route(e)
  /\ published' = published \cup {e}
  /\ UNCHANGED <<status, refs, workerVars>>

(* markTicketIssued for a booking that may have tickets. *)
MarkTicketIssued(e) ==
  /\ status[e] \in {"PAID", "TICKET_ISSUED", "CHECKED_IN"}
  /\ refs' = refs \cup {e}
  /\ status' = IF status[e] = "PAID" THEN [status EXCEPT ![e] = "TICKET_ISSUED"] ELSE status

(* A request whose client has timed out is served. *)
IssueArrivesLate(e) ==
  /\ e \in lateIssues
  /\ lateIssues' = lateIssues \ {e}
  /\ MarkTicketIssued(e) \/ (status[e] = "CANCELLED" /\ UNCHANGED <<status, refs>>)
  /\ UNCHANGED <<runtimeVars, published, inbox, made>>

-----------------------------------------------------------------------------
(* The handlers: processBookingPaid of the two workers. *)
At(j, pc) == job[j] # Idle /\ job[j].pc = pc

(* One step of a handler that touches its own place only. *)
Proceed(j, pc) ==
  /\ Goto(j, pc)
  /\ UNCHANGED <<declared, routed, copy, dead>>

(* processingState and hasProcessed *)
ReadInbox(j) ==
  LET row == inbox[job[j].queue][job[j].event] IN
  /\ At(j, "started")
  /\ Proceed(j, CASE row = "none" -> "unseen"
                  [] row = "pending" -> "persisted"
                  [] OTHER -> "done")
  /\ UNCHANGED <<bookingVars, workerVars>>

(* getSnapshot and getRecipient *)
ReadSnapshot(j) ==
  /\ At(j, "unseen")
  /\ Proceed(j, IF status[job[j].event] = "CANCELLED" THEN "cancelled" ELSE "paid")
  /\ UNCHANGED <<bookingVars, workerVars>>

(* INSERT ... ON CONFLICT (event_id) DO NOTHING *)
InsertInbox(d, row) ==
  inbox' = IF inbox[d.queue][d.event] = "none"
             THEN [inbox EXCEPT ![d.queue][d.event] = row] ELSE inbox

RecordSkippedEvent(j) ==
  /\ At(j, "cancelled")
  /\ InsertInbox(job[j], "skipped")
  /\ Proceed(j, "done")
  /\ UNCHANGED <<bookingVars, made, lateIssues>>

(* Mutation: the side effect does not depend on the inbox row. *)
PersistAnyway(j) ==
  LET d == job[j] IN
  /\ At(j, "paid")
  /\ made' = made \cup {<<d.queue, d.event>>}
  /\ InsertInbox(d, IF d.queue = "ticket" THEN "pending" ELSE "fulfilled")
  /\ Proceed(j, IF d.queue = "ticket" THEN "started" ELSE "done")
  /\ UNCHANGED <<bookingVars, lateIssues>>

(* persistEventAndTickets, after which the inbox is read again, and
   recordSimulatedEmail: the side effect is committed with the inbox row. *)
Persist(j) ==
  LET d == job[j] IN
  /\ At(j, "paid")
  /\ InsertInbox(d, IF d.queue = "ticket" THEN "pending" ELSE "fulfilled")
  /\ made' = IF inbox[d.queue][d.event] = "none" THEN made \cup {<<d.queue, d.event>>} ELSE made
  /\ Proceed(j, IF d.queue = "ticket" THEN "started" ELSE "done")
  /\ UNCHANGED <<bookingVars, lateIssues>>

IssueAtBooking(j) ==
  /\ At(j, "persisted")
  /\ MarkTicketIssued(job[j].event)
  /\ Proceed(j, "issued")
  /\ UNCHANGED <<published, workerVars>>

(* Mutation: a request without an answer is taken for a success. *)
IssueTimesOutUnnoticed(j) ==
  /\ At(j, "persisted")
  /\ lateIssues' = lateIssues \cup {job[j].event}
  /\ Proceed(j, "issued")
  /\ UNCHANGED <<bookingVars, inbox, made>>

(* The request's 5 s pass. *)
IssueTimesOut(j) ==
  /\ At(j, "persisted")
  /\ lateIssues' = lateIssues \cup {job[j].event}
  /\ Proceed(j, "failed")
  /\ UNCHANGED <<bookingVars, inbox, made>>

MarkFulfilled(j) ==
  /\ At(j, "issued")
  /\ inbox' = [inbox EXCEPT ![job[j].queue][job[j].event] = "fulfilled"]
  /\ Proceed(j, "done")
  /\ UNCHANGED <<bookingVars, made, lateIssues>>

(* Booking refuses, a database or a request fails: the handler throws. *)
Throw(j) ==
  /\ \E pc \in {"started", "unseen", "cancelled", "paid", "persisted", "issued"} : At(j, pc)
  /\ Proceed(j, "failed")
  /\ UNCHANGED <<bookingVars, workerVars>>

-----------------------------------------------------------------------------
BookingNext ==
  \E e \in Event :
    \/ MarkPaid(e)
    \/ MarkCancelled(e)
    \/ CheckInTicket(e)
    \/ PublishPaid(e)
    \/ IssueArrivesLate(e)

Handle(j) ==
  \/ ReadInbox(j)
  \/ ReadSnapshot(j)
  \/ RecordSkippedEvent(j)
  \/ Persist(j)
  \/ IssueAtBooking(j)
  \/ IssueTimesOut(j)
  \/ MarkFulfilled(j)
  \/ Throw(j)

Finish(j) ==
  /\ Ack(j) \/ RouteFailure(j)
  /\ UNCHANGED <<bookingVars, workerVars>>

Fault(j) ==
  /\ ChannelCloses(j) \/ Dies(j)
  /\ UNCHANGED <<bookingVars, workerVars>>

Receive(j, m) == Consume(j, m) /\ UNCHANGED <<bookingVars, workerVars>>

BrokerNext ==
  /\ \/ \E q \in Queue : DeclareQueue(q)
     \/ \E m \in Copy : RetryDelayEnds(m)
  /\ UNCHANGED <<bookingVars, workerVars>>

Next ==
  \/ BookingNext
  \/ BrokerNext
  \/ \E j \in Job : Handle(j) \/ Finish(j) \/ Fault(j) \/ \E m \in Copy : Receive(j, m)

Spec == Init /\ [][Next]_vars

-----------------------------------------------------------------------------
Settled(q, e) == inbox[q][e] \in {"fulfilled", "skipped"}

(* The worker has dealt with an event, or a message about it can be seen. *)
Accounted(q, e) == Settled(q, e) \/ InFlight(q, e) \/ <<q, e>> \in dead

(* No event that reached a worker's queue gets lost on the way through
   redeliveries, retries, crashes and concurrent handlers.  The exception is a
   booking cancelled while its tickets were made: a second delivery finds it
   cancelled and its inbox row taken, and is acknowledged. *)
NoEventIsLost ==
  \A p \in routed :
    \/ Accounted(p[1], p[2])
    \/ p[1] = "ticket" /\ status[p[2]] = "CANCELLED"

(* An event is skipped for a cancelled booking only, and nothing was or will
   be made for it, however many handlers read the booking before and after the
   cancellation. *)
SkippedLeavesNothing ==
  \A q \in Queue, e \in Event : inbox[q][e] = "skipped" =>
    /\ status[e] = "CANCELLED"
    /\ <<q, e>> \notin made
    /\ q = "ticket" => e \notin refs

(* Booking says that tickets were issued only when they exist and it can check
   them in; and the worker is done only when Booking knows. *)
IssuedTicketsExist ==
  \A e \in Event :
    /\ status[e] \in {"TICKET_ISSUED", "CHECKED_IN"} => e \in refs
    /\ e \in refs => <<"ticket", e>> \in made
    /\ inbox["ticket"][e] = "fulfilled" => e \in refs

(* Duplicates, redeliveries, concurrent handlers and late requests add up to
   each side effect being decided once, made only for a booking that was paid,
   and done only when Booking knows. *)
Workers == INSTANCE Workflow

ImplementsWorkflow == Workers!Spec

(* docs/ARCHITECTURE.md:314: a workflow that cannot complete moves to a visible
   retry or dead-letter state.  Here: a published paid event is dealt with by
   both workers, or is to be seen in their queues.  Broken by an event that is
   published before a worker has started for the first time. *)
PublishedEventsAreVisible ==
  \A e \in published, q \in Queue : Accounted(q, e)
=============================================================================
