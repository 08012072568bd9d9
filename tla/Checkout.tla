------------------------------ MODULE Checkout ------------------------------
(***************************************************************************)
(* Checkout of one trip's seats: Booking Service's payment, expiry,        *)
(* cancellation and ticketing commands, its two reconcilers, and the       *)
(* requests they send to Payment and to Seat Inventory.                    *)
(*                                                                         *)
(* Seat Inventory is the seat ledger it implements (SeatInventory refines  *)
(* SeatLedger), the liveness of the holds, and the steps of a ConfirmSeats *)
(* call between which another command can run.                             *)
(*                                                                         *)
(* A command runs under a PostgreSQL advisory lock per booking, held by a  *)
(* database session apart from the one that writes.  A client gives up on  *)
(* a request after a timeout; the request may still be served afterwards.  *)
(* A process may crash at any await.  A command that the state it reads    *)
(* rejects changes nothing and is not an action.                           *)
(***************************************************************************)
CONSTANTS
  Seat, Booking, Free, Blocked,  \* see SeatLedger
  Hold,      \* holds acquired through Seat Inventory
  Key,       \* idempotency keys of payment and cancellation commands
  Worker,    \* commands and reconciler passes that run at once
  Call,      \* ConfirmSeats calls in flight at once
  LockLoss,  \* whether a lock session can die under a running command
  NoHold, NoKey, NoBooking, NoWorker

ASSUME NullAssumption ==
  /\ Free # Blocked
  /\ Free \notin Booking
  /\ Blocked \notin Booking
  /\ NoBooking \notin Booking
  /\ NoHold \notin Hold
  /\ NoKey \notin Key
  /\ NoWorker \notin Worker

ASSUME LockLossAssumption == LockLoss \in BOOLEAN

VARIABLES
  \* Seat Inventory
  owner, claim, vacated,  \* the ledger
  confirmed,   \* bookings with a confirmation_requests row
  releaseKey,  \* idempotency key of the release_requests row
  holdSeats,   \* seats each hold was acquired for ({}: not yet)
  live,        \* holds still in Redis
  call,        \* ConfirmSeats calls, and the command each one answers
  \* Payment
  attempts,    \* payment.attempts
  latePay,     \* payment requests whose client has given up
  \* Booking
  status, holdOf, paidKey, cancelKey,  \* columns of booking.bookings
  seatsReleased,  \* bookings with cancellation_seats_released_at
  lapsed,         \* bookings whose hold_expires_at has passed
  departed,       \* whether the departure time has passed
  worker,         \* commands in progress, and whether each holds its lock
  lateRelease     \* ReleaseBookedSeats requests whose client has given up

ledgerVars  == <<owner, claim, vacated>>
seatVars    == <<confirmed, releaseKey, holdSeats, live>>
paymentVars == <<attempts, latePay>>
rowVars     == <<status, holdOf, paidKey, cancelKey, seatsReleased>>
timeVars    == <<lapsed, departed>>
vars == <<ledgerVars, seatVars, call, paymentVars, rowVars, timeVars, worker, lateRelease>>

Ledger == INSTANCE SeatLedger

Status == {"none", "PENDING_PAYMENT", "PAID", "TICKET_ISSUED", "CHECKED_IN",
           "EXPIRED", "CANCELLED"}
Outcome == {"SUCCEEDED", "FAILED"}
Attempt == [booking : Booking, key : Key, outcome : Outcome]
Request == [booking : Booking, key : Key]

Resting == [pc |-> "idle", booking |-> NoBooking, key |-> NoKey, locked |-> FALSE]
NoCall  == [pc |-> "idle", booking |-> NoBooking, waiter |-> NoWorker]

(* The reconciler expires a booking without a key of its own. *)
Command ==
  [pc : {"paying", "confirming", "confirmed", "cancelling", "vacating", "acknowledged"},
   booking : Booking, key : Key, locked : BOOLEAN]
  \cup
  [pc : {"expiring", "dropping"},
   booking : Booking, key : Key \cup {NoKey}, locked : BOOLEAN]

Confirmation ==
  [pc : {"sent", "fresh", "held"}, booking : Booking, waiter : Worker \cup {NoWorker}]

TypeOK ==
  /\ owner \in [Seat -> Booking \cup {Free, Blocked}]
  /\ claim \in [Booking -> SUBSET Seat]
  /\ vacated \subseteq Booking
  /\ confirmed \subseteq Booking
  /\ releaseKey \in [Booking -> Key \cup {NoKey}]
  /\ holdSeats \in [Hold -> SUBSET Seat]
  /\ live \subseteq Hold
  /\ call \in [Call -> {NoCall} \cup Confirmation]
  /\ attempts \subseteq Attempt
  /\ latePay \subseteq Request
  /\ status \in [Booking -> Status]
  /\ holdOf \in [Booking -> Hold \cup {NoHold}]
  /\ paidKey \in [Booking -> Key \cup {NoKey}]
  /\ cancelKey \in [Booking -> Key \cup {NoKey}]
  /\ seatsReleased \subseteq Booking
  /\ lapsed \subseteq Booking
  /\ departed \in BOOLEAN
  /\ worker \in [Worker -> {Resting} \cup Command]
  /\ lateRelease \subseteq Request

Init ==
  /\ Ledger!Init
  /\ confirmed = {}
  /\ releaseKey = [b \in Booking |-> NoKey]
  /\ holdSeats = [h \in Hold |-> {}]
  /\ live = {}
  /\ call = [c \in Call |-> NoCall]
  /\ attempts = {}
  /\ latePay = {}
  /\ status = [b \in Booking |-> "none"]
  /\ holdOf = [b \in Booking |-> NoHold]
  /\ paidKey = [b \in Booking |-> NoKey]
  /\ cancelKey = [b \in Booking |-> NoKey]
  /\ seatsReleased = {}
  /\ lapsed = {}
  /\ departed = FALSE
  /\ worker = [w \in Worker |-> Resting]
  /\ lateRelease = {}

-----------------------------------------------------------------------------
(***************************************************************************)
(* The environment: holds, the administrator, the clock.                   *)
(***************************************************************************)

(* Live holds share no seat; a hold may cover a seat sold since its check. *)
AcquireHold(h, S) ==
  /\ holdSeats[h] = {}
  /\ S # {}
  /\ \A g \in live : holdSeats[g] \cap S = {}
  /\ holdSeats' = [holdSeats EXCEPT ![h] = S]
  /\ live' = live \cup {h}
  /\ UNCHANGED <<ledgerVars, confirmed, releaseKey, call, paymentVars, rowVars, timeVars,
                 worker, lateRelease>>

(* The lease runs out, or its owner releases it. *)
HoldEnds(h) ==
  /\ h \in live
  /\ live' = live \ {h}
  /\ UNCHANGED <<ledgerVars, confirmed, releaseKey, holdSeats, call, paymentVars, rowVars,
                 timeVars, worker, lateRelease>>

SetSeatBlocked(S) ==
  /\ S # {}
  /\ Ledger!Block(S) \/ Ledger!Unblock(S)
  /\ UNCHANGED <<seatVars, call, paymentVars, rowVars, timeVars, worker, lateRelease>>

HoldExpiryPasses(b) ==
  /\ status[b] # "none"
  /\ b \notin lapsed
  /\ lapsed' = lapsed \cup {b}
  /\ UNCHANGED <<ledgerVars, seatVars, call, paymentVars, rowVars, departed, worker, lateRelease>>

Departure ==
  /\ ~departed
  /\ departed' = TRUE
  /\ UNCHANGED <<ledgerVars, seatVars, call, paymentVars, rowVars, lapsed, worker, lateRelease>>

-----------------------------------------------------------------------------
(***************************************************************************)
(* The per-booking command lock.                                           *)
(***************************************************************************)

(* Mutation: the lock is taken per process, not per booking in PostgreSQL. *)
AlwaysUnlocked(b) == TRUE

Unlocked(b) == \A w \in Worker : worker[w].locked => worker[w].booking # b

(* Command w takes the lock of b and goes on at pc. *)
Begin(w, b, pc, k) ==
  /\ worker[w] = Resting
  /\ Unlocked(b)
  /\ worker' = [worker EXCEPT ![w] = [pc |-> pc, booking |-> b, key |-> k, locked |-> TRUE]]

Goto(w, pc) == worker' = [worker EXCEPT ![w].pc = pc]

(* The command returns or throws, and its lock is unlocked. *)
Return(w) == worker' = [worker EXCEPT ![w] = Resting]

(* The lock session dies: PostgreSQL frees the lock, the command runs on. *)
LoseLock(w) ==
  /\ LockLoss
  /\ worker[w].locked
  /\ worker' = [worker EXCEPT ![w].locked = FALSE]
  /\ UNCHANGED <<ledgerVars, seatVars, call, paymentVars, rowVars, timeVars, lateRelease>>

(* A request times out or is answered with an error, or the process crashes:
   the command ends where it is, and what it had sent is still on its way. *)
GiveUp(w) ==
  LET r == [booking |-> worker[w].booking, key |-> worker[w].key] IN
  /\ worker[w] # Resting
  /\ latePay' \in IF worker[w].pc = "paying" THEN {latePay, latePay \cup {r}} ELSE {latePay}
  /\ lateRelease' \in
       IF worker[w].pc = "vacating" THEN {lateRelease, lateRelease \cup {r}} ELSE {lateRelease}
  /\ call' = [c \in Call |-> IF call[c].waiter = w
                             THEN [call[c] EXCEPT !.waiter = NoWorker] ELSE call[c]]
  /\ Return(w)
  /\ UNCHANGED <<ledgerVars, seatVars, attempts, rowVars, timeVars>>

PaymentWindowExpired(b) == b \in lapsed \/ departed

-----------------------------------------------------------------------------
(***************************************************************************)
(* CreateBooking: one transaction after the hold was read as active.       *)
(***************************************************************************)
CreateBooking(b, h) ==
  /\ status[b] = "none"
  /\ holdSeats[h] # {}
  /\ Ledger!Claim(b, holdSeats[h])
  /\ status' = [status EXCEPT ![b] = "PENDING_PAYMENT"]
  /\ holdOf' = [holdOf EXCEPT ![b] = h]
  /\ UNCHANGED <<seatVars, call, paymentVars, paidKey, cancelKey, seatsReleased, timeVars,
                 worker, lateRelease>>

-----------------------------------------------------------------------------
(***************************************************************************)
(* SimulatePayment: attempt, confirm the seats, mark paid.                 *)
(***************************************************************************)
StartPayment(w, b, k) ==
  /\ status[b] = "PENDING_PAYMENT"
  /\ Begin(w, b, IF PaymentWindowExpired(b) THEN "expiring" ELSE "paying", k)
  /\ UNCHANGED <<ledgerVars, seatVars, call, paymentVars, rowVars, timeVars, lateRelease>>

Charged(b) == \E a \in attempts : a.booking = b /\ a.outcome = "SUCCEEDED"

(* Payment answers a request with outcome o: the key's own attempt if it has
   one, else the booking's only successful one, else a new one. A key used
   with the other outcome is a conflict. *)
CanAnswer(r, o) ==
  \A a \in attempts : a.booking = r.booking /\ a.key = r.key => a.outcome = o

Attempted(r, o) ==
  IF o = "SUCCEEDED" /\ Charged(r.booking)
    THEN attempts
    ELSE attempts \cup {[booking |-> r.booking, key |-> r.key, outcome |-> o]}

PaymentRequest(w) == [booking |-> worker[w].booking, key |-> worker[w].key]

(* Mutation: the confirmation is sent and not waited for. *)
PaymentSucceedsAtOnce(w, c) ==
  /\ worker[w].pc = "paying"
  /\ CanAnswer(PaymentRequest(w), "SUCCEEDED")
  /\ attempts' = Attempted(PaymentRequest(w), "SUCCEEDED")
  /\ call[c] = NoCall
  /\ call' = [call EXCEPT ![c] = [pc |-> "sent", booking |-> worker[w].booking, waiter |-> NoWorker]]
  /\ Goto(w, "confirmed")
  /\ UNCHANGED <<ledgerVars, seatVars, latePay, rowVars, timeVars, lateRelease>>

(* A success is followed by a ConfirmSeats request. *)
PaymentSucceeds(w, c) ==
  /\ worker[w].pc = "paying"
  /\ CanAnswer(PaymentRequest(w), "SUCCEEDED")
  /\ attempts' = Attempted(PaymentRequest(w), "SUCCEEDED")
  /\ call[c] = NoCall
  /\ call' = [call EXCEPT ![c] = [pc |-> "sent", booking |-> worker[w].booking, waiter |-> w]]
  /\ Goto(w, "confirming")
  /\ UNCHANGED <<ledgerVars, seatVars, latePay, rowVars, timeVars, lateRelease>>

(* Mutation: the outcome of the attempt is not looked at. *)
PaymentFailsYetConfirms(w) ==
  /\ worker[w].pc = "paying"
  /\ CanAnswer(PaymentRequest(w), "FAILED")
  /\ attempts' = Attempted(PaymentRequest(w), "FAILED")
  /\ \E c \in Call :
       /\ call[c] = NoCall
       /\ call' = [call EXCEPT ![c] = [pc |-> "sent", booking |-> worker[w].booking, waiter |-> w]]
  /\ Goto(w, "confirming")
  /\ UNCHANGED <<ledgerVars, seatVars, latePay, rowVars, timeVars, lateRelease>>

PaymentFails(w) ==
  /\ worker[w].pc = "paying"
  /\ CanAnswer(PaymentRequest(w), "FAILED")
  /\ attempts' = Attempted(PaymentRequest(w), "FAILED")
  /\ Return(w)
  /\ UNCHANGED <<ledgerVars, seatVars, call, latePay, rowVars, timeVars, lateRelease>>

(* Served after its client has given up. *)
PaymentArrivesLate(r, o) ==
  /\ r \in latePay
  /\ latePay' = latePay \ {r}
  /\ CanAnswer(r, o)
  /\ attempts' = Attempted(r, o)
  /\ UNCHANGED <<ledgerVars, seatVars, call, rowVars, timeVars, worker, lateRelease>>

-----------------------------------------------------------------------------
(***************************************************************************)
(* ConfirmSeats at Seat Inventory (ConfirmSeats, ConfirmReadHold and       *)
(* ConfirmPersist of SeatInventory), and its answer to the command.        *)
(***************************************************************************)

(* The call ends and its waiter, if it still waits, goes on at pc. *)
Answer(c, pc) ==
  /\ call' = [call EXCEPT ![c] = NoCall]
  /\ worker' = [w \in Worker |->
       IF w = call[c].waiter THEN [worker[w] EXCEPT !.pc = pc] ELSE worker[w]]

(* findConfirmation finds a row: the earlier confirmation is the answer. *)
ConfirmReplays(c) ==
  /\ call[c].pc = "sent"
  /\ call[c].booking \in confirmed
  /\ Answer(c, "confirmed")
  /\ UNCHANGED <<ledgerVars, seatVars, paymentVars, rowVars, timeVars, lateRelease>>

ConfirmStarts(c) ==
  /\ call[c].pc = "sent"
  /\ call[c].booking \notin confirmed
  /\ call' = [call EXCEPT ![c].pc = "fresh"]
  /\ UNCHANGED <<ledgerVars, seatVars, paymentVars, rowVars, timeVars, worker, lateRelease>>

ConfirmReadsHold(c) ==
  /\ call[c].pc = "fresh"
  /\ holdOf[call[c].booking] \in live
  /\ call' = [call EXCEPT ![c].pc = "held"]
  /\ UNCHANGED <<ledgerVars, seatVars, paymentVars, rowVars, timeVars, worker, lateRelease>>

(* FAILED_PRECONDITION: the command goes on to expire the booking. *)
ConfirmFindsNoHold(c) ==
  /\ call[c].pc = "fresh"
  /\ holdOf[call[c].booking] \notin live
  /\ Answer(c, "expiring")
  /\ UNCHANGED <<ledgerVars, seatVars, paymentVars, rowVars, timeVars, lateRelease>>

(* The durable transaction; consuming the hold afterwards is best effort. *)
ConfirmPersists(c) ==
  LET b == call[c].booking IN
  /\ call[c].pc = "held"
  /\ Ledger!Take(b)
  /\ confirmed' = confirmed \cup {b}
  /\ live' \in {live, live \ {holdOf[b]}}
  /\ Answer(c, "confirmed")
  /\ UNCHANGED <<releaseKey, holdSeats, paymentVars, rowVars, timeVars, lateRelease>>

(* Seats not available, or a server that dies: nobody is answered, and the
   command, which would throw either answer, gives up by itself. *)
ConfirmEnds(c) ==
  /\ call[c] # NoCall
  /\ call' = [call EXCEPT ![c] = NoCall]
  /\ UNCHANGED <<ledgerVars, seatVars, paymentVars, rowVars, timeVars, worker, lateRelease>>

(* UPDATE ... WHERE status = 'PENDING_PAYMENT'; otherwise the command throws. *)
MarkPaid(w) ==
  LET b == worker[w].booking IN
  /\ worker[w].pc = "confirmed"
  /\ IF status[b] = "PENDING_PAYMENT"
       THEN /\ status' = [status EXCEPT ![b] = "PAID"]
            /\ paidKey' = [paidKey EXCEPT ![b] = worker[w].key]
       ELSE UNCHANGED <<status, paidKey>>
  /\ Return(w)
  /\ UNCHANGED <<ledgerVars, seatVars, call, paymentVars, holdOf, cancelKey, seatsReleased,
                 timeVars, lateRelease>>

-----------------------------------------------------------------------------
(***************************************************************************)
(* Expiry: by a payment command that finds the window or the hold gone, or *)
(* by the reconciler.                                                      *)
(***************************************************************************)
(* Mutation: the reconciler leaves a booking alone while its hold is live. *)
ReconcileExpiredUnheld(w, b) ==
  /\ status[b] = "PENDING_PAYMENT"
  /\ PaymentWindowExpired(b)
  /\ holdOf[b] \notin live
  /\ Begin(w, b, "expiring", NoKey)
  /\ UNCHANGED <<ledgerVars, seatVars, call, paymentVars, rowVars, timeVars, lateRelease>>

ReconcileExpired(w, b) ==
  /\ status[b] = "PENDING_PAYMENT"
  /\ PaymentWindowExpired(b)
  /\ Begin(w, b, "expiring", NoKey)
  /\ UNCHANGED <<ledgerVars, seatVars, call, paymentVars, rowVars, timeVars, lateRelease>>

(* UPDATE ... WHERE status = 'PENDING_PAYMENT'; otherwise nothing to release. *)
MarkExpired(w) ==
  LET b == worker[w].booking IN
  /\ worker[w].pc = "expiring"
  /\ IF status[b] = "PENDING_PAYMENT"
       THEN /\ status' = [status EXCEPT ![b] = "EXPIRED"]
            /\ Goto(w, "dropping")
       ELSE UNCHANGED status /\ Return(w)
  /\ UNCHANGED <<ledgerVars, seatVars, call, paymentVars, holdOf, paidKey, cancelKey,
                 seatsReleased, timeVars, lateRelease>>

(* ReleaseHold is best effort: it releases the hold if it gets through. *)
DropHold(w) ==
  /\ worker[w].pc = "dropping"
  /\ live' \in {live, live \ {holdOf[worker[w].booking]}}
  /\ Return(w)
  /\ UNCHANGED <<ledgerVars, confirmed, releaseKey, holdSeats, call, paymentVars, rowVars,
                 timeVars, lateRelease>>

-----------------------------------------------------------------------------
(***************************************************************************)
(* Cancellation, and the release of the booked seats.                      *)
(***************************************************************************)
StartCancel(w, b, k) ==
  /\ status[b] \in {"PAID", "TICKET_ISSUED"}
  /\ ~departed
  /\ Begin(w, b, "cancelling", k)
  /\ UNCHANGED <<ledgerVars, seatVars, call, paymentVars, rowVars, timeVars, lateRelease>>

(* Mutation: the release is resumed without the key of the cancellation. *)
ResumeReleaseWithoutKey(w, b) ==
  /\ status[b] = "CANCELLED"
  /\ Begin(w, b, "vacating", NoKey)
  /\ UNCHANGED <<ledgerVars, seatVars, call, paymentVars, rowVars, timeVars, lateRelease>>

(* The customer repeats the command, or the reconciler finds the booking.  The
   reconciler has read its candidates before it took their locks and looks at the
   status only: it may repeat a release that was acknowledged meanwhile. *)
ResumeRelease(w, b) ==
  /\ status[b] = "CANCELLED"
  /\ Begin(w, b, "vacating", cancelKey[b])
  /\ UNCHANGED <<ledgerVars, seatVars, call, paymentVars, rowVars, timeVars, lateRelease>>

(* Mutation: the seats are released whatever the row turned out to be. *)
MarkCancelledOrNot(w) ==
  LET b == worker[w].booking IN
  /\ worker[w].pc = "cancelling"
  /\ IF status[b] \in {"PAID", "TICKET_ISSUED"}
       THEN /\ status' = [status EXCEPT ![b] = "CANCELLED"]
            /\ cancelKey' = [cancelKey EXCEPT ![b] = worker[w].key]
       ELSE UNCHANGED <<status, cancelKey>>
  /\ Goto(w, "vacating")
  /\ UNCHANGED <<ledgerVars, seatVars, call, paymentVars, holdOf, paidKey, seatsReleased,
                 timeVars, lateRelease>>

(* Mutation: the row is not read again. *)
MarkCancelledUnread(w) ==
  LET b == worker[w].booking IN
  /\ worker[w].pc = "cancelling"
  /\ status' = [status EXCEPT ![b] = "CANCELLED"]
  /\ cancelKey' = [cancelKey EXCEPT ![b] = worker[w].key]
  /\ Goto(w, "vacating")
  /\ UNCHANGED <<ledgerVars, seatVars, call, paymentVars, holdOf, paidKey, seatsReleased,
                 timeVars, lateRelease>>

(* The row is read FOR UPDATE. Found cancelled already, the command goes on
   to the release with its own key; found in another state, it throws. *)
MarkCancelled(w) ==
  LET b == worker[w].booking IN
  /\ worker[w].pc = "cancelling"
  /\ IF status[b] \in {"PAID", "TICKET_ISSUED"}
       THEN /\ status' = [status EXCEPT ![b] = "CANCELLED"]
            /\ cancelKey' = [cancelKey EXCEPT ![b] = worker[w].key]
       ELSE UNCHANGED <<status, cancelKey>>
  /\ IF status'[b] = "CANCELLED" THEN Goto(w, "vacating") ELSE Return(w)
  /\ UNCHANGED <<ledgerVars, seatVars, call, paymentVars, holdOf, paidKey, seatsReleased,
                 timeVars, lateRelease>>

(* Mutation: a release that has happened is an error, not an answer. *)
ReleaseOnce(b, k) ==
  /\ Ledger!Vacate(b)
  /\ releaseKey' = [releaseKey EXCEPT ![b] = k]

(* ReleaseBookedSeats at Seat Inventory: the first request frees the seats
   and records its key; a later one is answered if it has the same key. *)
Release(b, k) ==
  \/ /\ Ledger!Vacate(b)
     /\ releaseKey' = [releaseKey EXCEPT ![b] = k]
  \/ /\ releaseKey[b] = k
     /\ UNCHANGED <<ledgerVars, releaseKey>>

ReleaseBookedSeats(w) ==
  /\ worker[w].pc = "vacating"
  /\ Release(worker[w].booking, worker[w].key)
  /\ Goto(w, "acknowledged")
  /\ UNCHANGED <<confirmed, holdSeats, live, call, paymentVars, rowVars, timeVars, lateRelease>>

(* Served after its client has given up. *)
ReleaseArrivesLate(r) ==
  /\ r \in lateRelease
  /\ lateRelease' = lateRelease \ {r}
  /\ Release(r.booking, r.key)
  /\ UNCHANGED <<confirmed, holdSeats, live, call, paymentVars, rowVars, timeVars, worker>>

(* Mutation: the key of the acknowledged release is not compared. *)
MarkReleasedUnderAnyKey(w) ==
  /\ worker[w].pc = "acknowledged"
  /\ seatsReleased' = seatsReleased \cup {worker[w].booking}
  /\ Return(w)
  /\ UNCHANGED <<ledgerVars, seatVars, call, paymentVars, status, holdOf, paidKey, cancelKey,
                 timeVars, lateRelease>>

(* UPDATE ... WHERE status = 'CANCELLED' AND cancellation_idempotency_key. *)
MarkCancellationSeatsReleased(w) ==
  LET b == worker[w].booking IN
  /\ worker[w].pc = "acknowledged"
  /\ seatsReleased' = seatsReleased \cup
       {d \in {b} : status[d] = "CANCELLED" /\ cancelKey[d] = worker[w].key}
  /\ Return(w)
  /\ UNCHANGED <<ledgerVars, seatVars, call, paymentVars, status, holdOf, paidKey, cancelKey,
                 timeVars, lateRelease>>

-----------------------------------------------------------------------------
(***************************************************************************)
(* Ticketing: one transaction each, without the command lock.              *)
(***************************************************************************)
MarkTicketIssued(b) ==
  /\ status[b] = "PAID"
  /\ status' = [status EXCEPT ![b] = "TICKET_ISSUED"]
  /\ UNCHANGED <<ledgerVars, seatVars, call, paymentVars, holdOf, paidKey, cancelKey,
                 seatsReleased, timeVars, worker, lateRelease>>

CheckInTicket(b) ==
  /\ status[b] = "TICKET_ISSUED"
  /\ status' = [status EXCEPT ![b] = "CHECKED_IN"]
  /\ UNCHANGED <<ledgerVars, seatVars, call, paymentVars, holdOf, paidKey, cancelKey,
                 seatsReleased, timeVars, worker, lateRelease>>

-----------------------------------------------------------------------------
WorldNext ==
  \/ \E h \in Hold, S \in SUBSET Seat : AcquireHold(h, S)
  \/ \E h \in Hold : HoldEnds(h)
  \/ \E S \in SUBSET Seat : SetSeatBlocked(S)
  \/ \E b \in Booking : HoldExpiryPasses(b)
  \/ Departure

BookingNext(b) ==
  \/ \E h \in Hold : CreateBooking(b, h)
  \/ MarkTicketIssued(b)
  \/ CheckInTicket(b)

Start(w, b) ==
  \/ \E k \in Key : StartPayment(w, b, k) \/ StartCancel(w, b, k)
  \/ ReconcileExpired(w, b)
  \/ ResumeRelease(w, b)

Progress(w) ==
  \/ \E c \in Call : PaymentSucceeds(w, c)
  \/ PaymentFails(w)
  \/ MarkPaid(w)
  \/ MarkExpired(w)
  \/ DropHold(w)
  \/ MarkCancelled(w)
  \/ ReleaseBookedSeats(w)
  \/ MarkCancellationSeatsReleased(w)
  \/ GiveUp(w)

CallNext(c) ==
  \/ ConfirmReplays(c)
  \/ ConfirmStarts(c)
  \/ ConfirmReadsHold(c)
  \/ ConfirmFindsNoHold(c)
  \/ ConfirmPersists(c)
  \/ ConfirmEnds(c)

LateNext ==
  \/ \E r \in latePay, o \in Outcome : PaymentArrivesLate(r, o)
  \/ \E r \in lateRelease : ReleaseArrivesLate(r)

Next ==
  \/ WorldNext
  \/ \E b \in Booking : BookingNext(b)
  \/ \E w \in Worker, b \in Booking : Start(w, b)
  \/ \E w \in Worker : Progress(w) \/ LoseLock(w)
  \/ \E c \in Call : CallNext(c)
  \/ LateNext

Spec == Init /\ [][Next]_vars

(* Every request has a timeout, so every command ends. The reconciler's timer
   keeps firing and PostgreSQL grants a lock in the order of the requests; a
   pass that is repeated without end is not cut short at the same await each
   time, and neither is the request it sends. *)
Fairness ==
  /\ \A w \in Worker : WF_vars(Progress(w))
  /\ \A b \in Booking :
       /\ SF_vars(\E w \in Worker : ReconcileExpired(w, b))
       /\ SF_vars(\E w \in Worker : worker[w].booking = b /\ MarkExpired(w))
       /\ SF_vars(\E w \in Worker : b \notin seatsReleased /\ ResumeRelease(w, b))
       /\ SF_vars(\E w \in Worker : worker[w].booking = b /\ ReleaseBookedSeats(w))
       /\ SF_vars(\E w \in Worker :
                   worker[w].booking = b /\ MarkCancellationSeatsReleased(w))

FairSpec == Spec /\ Fairness

-----------------------------------------------------------------------------
(***************************************************************************)
(* Properties.                                                             *)
(***************************************************************************)
Valid == {"PAID", "TICKET_ISSUED", "CHECKED_IN"}

Owns(b) == claim[b] # {} /\ \A s \in claim[b] : owner[s] = b

(* A paid booking owns every one of its seats, whichever requests timed out,
   were repeated or were served late, and even if its lock was lost. *)
PaidSeatsAreBooked == \A b \in Booking : status[b] \in Valid => Owns(b)

(* A seat is sold only against a successful payment attempt. *)
SoldSeatsAreCharged ==
  \A b \in Booking : (\E s \in Seat : owner[s] = b) => Charged(b)

(* Seats are given back only for a cancelled booking: no request served late
   frees the seats of a booking that is still valid. *)
OnlyCancelledIsReleased ==
  \A b \in Booking : b \in vacated => status[b] = "CANCELLED"

(* The acknowledgement of a release stands for a release that happened, with
   the key of the cancellation. *)
AcknowledgedIsReleased ==
  \A b \in seatsReleased : b \in vacated /\ releaseKey[b] = cancelKey[b]

(* While no lock is lost, a cancelled booking has its seats still, or has given
   them back under the key of its cancellation: a release with that key, which
   the reconciler repeats, is never refused, and no other key was used. *)
ReleasesAreAccepted ==
  ~LockLoss =>
    \A b \in Booking : status[b] = "CANCELLED" =>
      \/ Owns(b) /\ releaseKey[b] = NoKey
      \/ releaseKey[b] = cancelKey[b]

(* While no lock is lost, a booking stays pending for as long as a payment
   command for it runs: neither expiry nor another payment overtakes it.  Only
   a command that has given up can be overtaken. *)
PaymentsAreNotOvertaken ==
  ~LockLoss =>
    \A w \in Worker :
      worker[w].pc \in {"paying", "confirming", "confirmed"} =>
        status[worker[w].booking] = "PENDING_PAYMENT"

(* Checkout implements the lifecycle, over every service involved. *)
Lifecycle == INSTANCE BookingLifecycle WITH
  charged <- {b \in Booking : Charged(b)},
  seated <- {b \in Booking : Owns(b)}

ImplementsLifecycle == Lifecycle!Spec

(* A booking whose payment window has passed does not stay pending. *)
PendingIsResolved ==
  \A b \in Booking :
    (status[b] = "PENDING_PAYMENT" /\ PaymentWindowExpired(b))
      ~> (status[b] # "PENDING_PAYMENT")

(* The release of a cancelled booking's seats is in the end acknowledged. *)
CancelledIsReleased ==
  \A b \in Booking : (status[b] = "CANCELLED") ~> (b \in seatsReleased)

(* docs/CONTRACTS.md:404-406: expiry cannot overtake an in-flight durable
   confirmation, so an expired booking would own no seat. *)
ExpiryNeverOvertakesConfirmation ==
  \A b \in Booking : status[b] = "EXPIRED" => \A s \in Seat : owner[s] # b

(* docs/ARCHITECTURE.md:361-365: the reconciler makes the removal of the BOOKED
   rows of a cancelled booking converge, so an acknowledged release would leave
   no seat of the booking behind. *)
AcknowledgedSeatsStayFree ==
  \A b \in seatsReleased : \A s \in Seat : owner[s] # b

=============================================================================
