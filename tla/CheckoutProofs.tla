--------------------------- MODULE CheckoutProofs ---------------------------
(***************************************************************************)
(* Checkout for any numbers of seats, bookings, holds, keys, concurrent    *)
(* commands and calls in flight: its types, its safety invariants and the  *)
(* booking lifecycle it implements, with or without lost locks, and, while *)
(* no lock is lost, that no command overtakes a payment.                   *)
(*                                                                         *)
(* Inv is inductive.  RowInv relates the columns of a booking, SeatInv the *)
(* rows of Seat Inventory with Booking's and Payment's, and FlightInv says *)
(* what every command, call and late request may still rely on: facts that *)
(* no later step can undo, which is why they need no lock.  LockInv, which *)
(* adds what the lock excludes, is used for the overtaking of a payment.   *)
(***************************************************************************)
EXTENDS Checkout, TLAPS

RowInv ==
  \A b \in Booking :
    /\ status[b] = "none" <=> claim[b] = {}
    /\ status[b] = "CANCELLED" => cancelKey[b] \in Key
    /\ status[b] \in Valid => b \in confirmed

(* A confirmation is backed until the release; a seat belongs to a booking
   that has claimed it, was charged and was confirmed. *)
SeatInv ==
  /\ \A b \in confirmed \ vacated : Owns(b)
  /\ \A b \in Booking, s \in Seat : owner[s] = b => b \in confirmed /\ s \in claim[b]
  /\ \A b \in confirmed : Charged(b)
  /\ \A b \in Booking : b \in vacated <=> releaseKey[b] # NoKey
  /\ OnlyCancelledIsReleased
  /\ AcknowledgedIsReleased

WorkerInv(w) ==
  LET b == worker[w].booking IN
  /\ worker[w].pc # "idle" => status[b] # "none"
  /\ worker[w].pc = "confirmed" => b \in confirmed
  /\ worker[w].pc \in {"vacating", "acknowledged"} => status[b] = "CANCELLED"
  /\ worker[w].pc = "acknowledged" => b \in vacated /\ releaseKey[b] = worker[w].key

CallInv(c) ==
  LET b == call[c].booking IN
  call[c].pc # "idle" =>
    /\ status[b] # "none"
    /\ Charged(b)
    /\ call[c].waiter # NoWorker =>
         worker[call[c].waiter].pc = "confirming" /\ worker[call[c].waiter].booking = b

(* A command waits for one call. *)
OneCall ==
  \A c, d \in Call : call[c].waiter # NoWorker /\ call[c].waiter = call[d].waiter => c = d

LateInv ==
  /\ \A r \in latePay : status[r.booking] # "none"
  /\ \A r \in lateRelease : status[r.booking] = "CANCELLED"

FlightInv ==
  /\ \A w \in Worker : WorkerInv(w)
  /\ \A c \in Call : CallInv(c)
  /\ OneCall
  /\ LateInv

Inv == TypeOK /\ RowInv /\ SeatInv /\ FlightInv

-----------------------------------------------------------------------------
LEMMA InitInv == Init => Inv
<1> SUFFICES ASSUME Init PROVE Inv
  OBVIOUS
<1> USE NullAssumption DEF Init, Ledger!Init
<1>1. TypeOK
  BY DEF TypeOK, Status, ledgerVars
<1>2. RowInv
  BY DEF RowInv, Valid
<1>3. SeatInv
  BY DEF SeatInv, OnlyCancelledIsReleased, AcknowledgedIsReleased
<1>4. FlightInv
  BY DEF FlightInv, WorkerInv, CallInv, OneCall, LateInv, Resting, NoCall
<1> QED
  BY <1>1, <1>2, <1>3, <1>4 DEF Inv

-----------------------------------------------------------------------------
(***************************************************************************)
(* Types.                                                                  *)
(***************************************************************************)

(* What the type of a command and of a call says of its phase. *)
LEMMA WorkerType ==
  ASSUME TypeOK, NEW w \in Worker, worker[w].pc # "idle"
  PROVE  /\ worker[w].booking \in Booking
         /\ worker[w].key \in Key \cup {NoKey}
         /\ worker[w].pc \notin {"expiring", "dropping"} => worker[w].key \in Key
         /\ worker[w].locked \in BOOLEAN
  BY DEF TypeOK, Resting, Command

LEMMA CallType ==
  ASSUME TypeOK, NEW c \in Call, call[c].pc # "idle"
  PROVE  /\ call[c].booking \in Booking
         /\ call[c].waiter \in Worker \cup {NoWorker}
  BY DEF TypeOK, NoCall, Confirmation

LEMMA WorldType ==
  ASSUME TypeOK, WorldNext
  PROVE  TypeOK'
<1> USE DEF TypeOK, ledgerVars, seatVars, paymentVars, rowVars, timeVars
<1>1. ASSUME NEW h \in Hold, NEW S \in SUBSET Seat, AcquireHold(h, S) PROVE TypeOK'
  BY <1>1 DEF AcquireHold
<1>2. ASSUME NEW h \in Hold, HoldEnds(h) PROVE TypeOK'
  BY <1>2 DEF HoldEnds
<1>3. ASSUME NEW S \in SUBSET Seat, SetSeatBlocked(S) PROVE TypeOK'
  BY <1>3 DEF SetSeatBlocked, Ledger!Block, Ledger!Unblock
<1>4. ASSUME NEW b \in Booking, HoldExpiryPasses(b) PROVE TypeOK'
  BY <1>4 DEF HoldExpiryPasses
<1>5. CASE Departure
  BY <1>5 DEF Departure
<1> QED
  BY <1>1, <1>2, <1>3, <1>4, <1>5 DEF WorldNext

LEMMA BookingType ==
  ASSUME TypeOK, NEW b \in Booking, BookingNext(b)
  PROVE  TypeOK'
<1> USE DEF TypeOK, ledgerVars, seatVars, paymentVars, timeVars, Status
<1>1. ASSUME NEW h \in Hold, CreateBooking(b, h) PROVE TypeOK'
  BY <1>1 DEF CreateBooking, Ledger!Claim
<1>2. CASE MarkTicketIssued(b)
  BY <1>2 DEF MarkTicketIssued
<1>3. CASE CheckInTicket(b)
  BY <1>3 DEF CheckInTicket
<1> QED
  BY <1>1, <1>2, <1>3 DEF BookingNext

LEMMA StartType ==
  ASSUME TypeOK, RowInv, NEW w \in Worker, NEW b \in Booking, Start(w, b)
  PROVE  TypeOK'
<1> USE DEF TypeOK, ledgerVars, seatVars, paymentVars, rowVars, timeVars, Begin, Command
<1>1. ASSUME NEW k \in Key, StartPayment(w, b, k) PROVE TypeOK'
  BY <1>1 DEF StartPayment
<1>2. ASSUME NEW k \in Key, StartCancel(w, b, k) PROVE TypeOK'
  BY <1>2 DEF StartCancel
<1>3. CASE ReconcileExpired(w, b)
  BY <1>3 DEF ReconcileExpired
<1>4. CASE ResumeRelease(w, b)
  BY <1>4 DEF ResumeRelease, RowInv
<1> QED
  BY <1>1, <1>2, <1>3, <1>4 DEF Start

LEMMA AttemptedType ==
  ASSUME TypeOK, NEW r \in Request, NEW o \in Outcome
  PROVE  Attempted(r, o) \subseteq Attempt
  BY DEF TypeOK, Attempted, Attempt, Request

LEMMA PaymentRequestType ==
  ASSUME TypeOK, NEW w \in Worker, worker[w].pc = "paying"
  PROVE  PaymentRequest(w) \in Request
  BY WorkerType DEF PaymentRequest, Request

LEMMA ProgressType ==
  ASSUME TypeOK, NEW w \in Worker, Progress(w)
  PROVE  TypeOK'
<1> USE DEF ledgerVars, seatVars, paymentVars, rowVars, timeVars, Command, Confirmation
<1>1. ASSUME NEW c \in Call, PaymentSucceeds(w, c) PROVE TypeOK'
  <2>1. attempts' \subseteq Attempt
    BY <1>1, PaymentRequestType, AttemptedType DEF PaymentSucceeds, Outcome
  <2>2. /\ worker[w].pc = "paying"
        /\ worker' = [worker EXCEPT ![w].pc = "confirming"]
        /\ call' = [call EXCEPT ![c] = [pc |-> "sent", booking |-> worker[w].booking, waiter |-> w]]
        /\ UNCHANGED <<ledgerVars, seatVars, latePay, rowVars, timeVars, lateRelease>>
    BY <1>1 DEF PaymentSucceeds, Goto
  <2>3. worker[w].booking \in Booking /\ worker[w].key \in Key /\ worker[w].locked \in BOOLEAN
    BY <2>2, WorkerType
  <2> QED
    BY <2>1, <2>2, <2>3 DEF TypeOK, Resting, Command
<1>2. CASE PaymentFails(w)
  <2>1. attempts' \subseteq Attempt
    BY <1>2, PaymentRequestType, AttemptedType DEF PaymentFails, Outcome
  <2> QED
    BY <1>2, <2>1 DEF PaymentFails, Return, TypeOK
<1>3. CASE MarkPaid(w)
  BY <1>3, WorkerType DEF MarkPaid, Return, TypeOK, Status
<1>4. CASE MarkExpired(w)
  BY <1>4, WorkerType DEF MarkExpired, Return, Goto, TypeOK, Status, Resting
<1>5. CASE DropHold(w)
  BY <1>5 DEF DropHold, Return, TypeOK
<1>6. CASE MarkCancelled(w)
  BY <1>6, WorkerType DEF MarkCancelled, Return, Goto, TypeOK, Status, Resting
<1>7. CASE ReleaseBookedSeats(w)
  <2>1. worker[w].booking \in Booking /\ worker[w].key \in Key
    BY <1>7, WorkerType DEF ReleaseBookedSeats
  <2> QED
    BY <1>7, <2>1 DEF ReleaseBookedSeats, Release, Ledger!Vacate, Goto, TypeOK, Resting
<1>8. CASE MarkCancellationSeatsReleased(w)
  BY <1>8, WorkerType DEF MarkCancellationSeatsReleased, Return, TypeOK
<1>9. CASE GiveUp(w)
  <2> DEFINE r == [booking |-> worker[w].booking, key |-> worker[w].key]
  <2>1. worker[w].pc \in {"paying", "vacating"} => r \in Request
    BY WorkerType DEF Request
  <2>2. latePay' \subseteq Request /\ lateRelease' \subseteq Request
    BY <1>9, <2>1 DEF GiveUp, TypeOK
  <2>3. call' \in [Call -> {NoCall} \cup Confirmation]
    BY <1>9 DEF GiveUp, TypeOK, NoCall
  <2> QED
    BY <1>9, <2>2, <2>3 DEF GiveUp, Return, TypeOK
<1> QED
  BY <1>1, <1>2, <1>3, <1>4, <1>5, <1>6, <1>7, <1>8, <1>9 DEF Progress

LEMMA AnswerType ==
  ASSUME TypeOK, FlightInv, NEW c \in Call, call[c].pc # "idle",
         NEW pc \in {"confirmed", "expiring"}, Answer(c, pc)
  PROVE  /\ worker' \in [Worker -> {Resting} \cup Command]
         /\ call' \in [Call -> {NoCall} \cup Confirmation]
<1>1. ASSUME NEW w \in Worker, w = call[c].waiter
      PROVE  [worker[w] EXCEPT !.pc = pc] \in Command
  <2>1. worker[w].pc = "confirming"
    BY <1>1, NullAssumption DEF FlightInv, CallInv
  <2>2. worker[w] \in Command
    BY <2>1 DEF TypeOK, Resting
  <2> QED
    BY <2>1, <2>2 DEF Command
<1>2. worker' \in [Worker -> {Resting} \cup Command]
  BY <1>1 DEF Answer, TypeOK
<1>3. call' \in [Call -> {NoCall} \cup Confirmation]
  BY DEF Answer, TypeOK
<1> QED
  BY <1>2, <1>3

LEMMA CallNextType ==
  ASSUME TypeOK, FlightInv, NEW c \in Call, CallNext(c)
  PROVE  TypeOK'
<1> USE DEF ledgerVars, seatVars, paymentVars, rowVars, timeVars, Command, Confirmation
<1>1. CASE ConfirmReplays(c)
  BY <1>1, AnswerType DEF ConfirmReplays, TypeOK
<1>2. CASE ConfirmStarts(c)
  BY <1>2 DEF ConfirmStarts, TypeOK, NoCall
<1>3. CASE ConfirmReadsHold(c)
  BY <1>3 DEF ConfirmReadsHold, TypeOK, NoCall
<1>4. CASE ConfirmFindsNoHold(c)
  BY <1>4, AnswerType DEF ConfirmFindsNoHold, TypeOK
<1>5. CASE ConfirmPersists(c)
  <2>1. call[c].booking \in Booking
    BY <1>5, CallType DEF ConfirmPersists
  <2>2. owner' \in [Seat -> Booking \cup {Free, Blocked}] /\ UNCHANGED <<claim, vacated>>
    BY <1>5, <2>1 DEF ConfirmPersists, Ledger!Take, TypeOK
  <2> QED
    BY <1>5, <2>1, <2>2, AnswerType DEF ConfirmPersists, TypeOK
<1>6. CASE ConfirmEnds(c)
  BY <1>6 DEF ConfirmEnds, TypeOK
<1> QED
  BY <1>1, <1>2, <1>3, <1>4, <1>5, <1>6 DEF CallNext

LEMMA TypeStep ==
  ASSUME Inv, [Next]_vars
  PROVE  TypeOK'
<1> USE DEF Inv, ledgerVars, seatVars, paymentVars, rowVars, timeVars
<1>1. ASSUME NEW w \in Worker, LoseLock(w) PROVE TypeOK'
  <2>1. worker[w] # Resting /\ worker' = [worker EXCEPT ![w].locked = FALSE]
    BY <1>1 DEF LoseLock, Resting
  <2>2. worker' \in [Worker -> {Resting} \cup Command]
    <3>1. worker[w] \in Command
      BY <2>1 DEF TypeOK
    <3>2. [worker[w] EXCEPT !.locked = FALSE] \in Command
      BY <3>1 DEF Command
    <3> QED
      BY <2>1, <3>2 DEF TypeOK
  <2> QED
    BY <1>1, <2>2 DEF LoseLock, TypeOK
<1>2. ASSUME NEW r \in latePay, NEW o \in Outcome, PaymentArrivesLate(r, o) PROVE TypeOK'
  <2>1. attempts' \subseteq Attempt
    BY <1>2, AttemptedType DEF PaymentArrivesLate, TypeOK
  <2> QED
    BY <1>2, <2>1 DEF PaymentArrivesLate, TypeOK
<1>3. ASSUME NEW r \in lateRelease, ReleaseArrivesLate(r) PROVE TypeOK'
  BY <1>3 DEF ReleaseArrivesLate, Release, Ledger!Vacate, TypeOK, Request
<1>4. CASE UNCHANGED vars
  BY <1>4 DEF vars, TypeOK
<1> QED
  BY WorldType, BookingType, StartType, ProgressType, CallNextType,
     <1>1, <1>2, <1>3, <1>4 DEF Next, LateNext

-----------------------------------------------------------------------------
(***************************************************************************)
(* Which steps change the rows, and which facts no step undoes.            *)
(***************************************************************************)
LEMMA RowSteps ==
  ASSUME [Next]_vars
  PROVE  \/ UNCHANGED <<status, claim, cancelKey, confirmed>>
         \/ \E b \in Booking : BookingNext(b)
         \/ \E w \in Worker : MarkPaid(w) \/ MarkExpired(w) \/ MarkCancelled(w)
         \/ \E c \in Call : ConfirmPersists(c)
<1> USE DEF ledgerVars, seatVars, rowVars
<1>1. CASE WorldNext
  BY <1>1 DEF WorldNext, AcquireHold, HoldEnds, SetSeatBlocked, HoldExpiryPasses, Departure,
              Ledger!Block, Ledger!Unblock
<1>2. ASSUME NEW w \in Worker, NEW b \in Booking, Start(w, b)
      PROVE  UNCHANGED <<status, claim, cancelKey, confirmed>>
  BY <1>2 DEF Start, StartPayment, StartCancel, ReconcileExpired, ResumeRelease
<1>3. ASSUME NEW w \in Worker, Progress(w) \/ LoseLock(w)
      PROVE  \/ UNCHANGED <<status, claim, cancelKey, confirmed>>
             \/ MarkPaid(w) \/ MarkExpired(w) \/ MarkCancelled(w)
  BY <1>3 DEF Progress, LoseLock, PaymentSucceeds, PaymentFails, DropHold, ReleaseBookedSeats,
              Release, Ledger!Vacate, MarkCancellationSeatsReleased, GiveUp
<1>4. ASSUME NEW c \in Call, CallNext(c)
      PROVE  UNCHANGED <<status, claim, cancelKey, confirmed>> \/ ConfirmPersists(c)
  BY <1>4 DEF CallNext, ConfirmReplays, ConfirmStarts, ConfirmReadsHold, ConfirmFindsNoHold,
              ConfirmEnds
<1>5. CASE LateNext
  BY <1>5 DEF LateNext, PaymentArrivesLate, ReleaseArrivesLate, Release, Ledger!Vacate
<1>6. CASE UNCHANGED vars
  BY <1>6 DEF vars
<1> QED
  BY <1>1, <1>2, <1>3, <1>4, <1>5, <1>6 DEF Next

LEMMA SeatSteps ==
  ASSUME [Next]_vars
  PROVE  \/ UNCHANGED <<ledgerVars, confirmed, releaseKey>>
         \/ \E S \in SUBSET Seat : SetSeatBlocked(S)
         \/ \E b \in Booking, h \in Hold : CreateBooking(b, h)
         \/ \E c \in Call : ConfirmPersists(c)
         \/ \E w \in Worker : ReleaseBookedSeats(w)
         \/ \E r \in lateRelease : ReleaseArrivesLate(r)
<1> USE DEF seatVars
<1>1. CASE WorldNext
  BY <1>1 DEF WorldNext, AcquireHold, HoldEnds, HoldExpiryPasses, Departure
<1>2. ASSUME NEW w \in Worker, NEW b \in Booking, Start(w, b)
      PROVE  UNCHANGED <<ledgerVars, confirmed, releaseKey>>
  BY <1>2 DEF Start, StartPayment, StartCancel, ReconcileExpired, ResumeRelease
<1>3. ASSUME NEW w \in Worker, Progress(w) \/ LoseLock(w)
      PROVE  UNCHANGED <<ledgerVars, confirmed, releaseKey>> \/ ReleaseBookedSeats(w)
  BY <1>3 DEF Progress, LoseLock, PaymentSucceeds, PaymentFails, MarkPaid, MarkExpired,
              DropHold, MarkCancelled, MarkCancellationSeatsReleased, GiveUp
<1>4. ASSUME NEW c \in Call, CallNext(c)
      PROVE  UNCHANGED <<ledgerVars, confirmed, releaseKey>> \/ ConfirmPersists(c)
  BY <1>4 DEF CallNext, ConfirmReplays, ConfirmStarts, ConfirmReadsHold, ConfirmFindsNoHold,
              ConfirmEnds
<1>5. ASSUME NEW b \in Booking, BookingNext(b)
      PROVE  \/ UNCHANGED <<ledgerVars, confirmed, releaseKey>>
             \/ \E h \in Hold : CreateBooking(b, h)
  BY <1>5 DEF BookingNext, MarkTicketIssued, CheckInTicket
<1>6. CASE LateNext
  BY <1>6 DEF LateNext, PaymentArrivesLate
<1>7. CASE UNCHANGED vars
  BY <1>7 DEF vars
<1> QED
  BY <1>1, <1>2, <1>3, <1>4, <1>5, <1>6, <1>7 DEF Next

(* Payment only adds attempts. *)
LEMMA AttemptsGrow ==
  ASSUME [Next]_vars
  PROVE  attempts \subseteq attempts'
<1> USE DEF paymentVars
<1>1. CASE WorldNext
  BY <1>1 DEF WorldNext, AcquireHold, HoldEnds, SetSeatBlocked, HoldExpiryPasses, Departure
<1>2. ASSUME NEW w \in Worker, NEW b \in Booking, Start(w, b) PROVE UNCHANGED attempts
  BY <1>2 DEF Start, StartPayment, StartCancel, ReconcileExpired, ResumeRelease
<1>3. ASSUME NEW w \in Worker, Progress(w) \/ LoseLock(w) PROVE attempts \subseteq attempts'
  BY <1>3 DEF Progress, LoseLock, PaymentSucceeds, PaymentFails, Attempted, MarkPaid,
              MarkExpired, DropHold, MarkCancelled, ReleaseBookedSeats,
              MarkCancellationSeatsReleased, GiveUp
<1>4. ASSUME NEW c \in Call, CallNext(c) PROVE UNCHANGED attempts
  BY <1>4 DEF CallNext, ConfirmReplays, ConfirmStarts, ConfirmReadsHold, ConfirmFindsNoHold,
              ConfirmPersists, ConfirmEnds
<1>5. ASSUME NEW b \in Booking, BookingNext(b) PROVE UNCHANGED attempts
  BY <1>5 DEF BookingNext, CreateBooking, MarkTicketIssued, CheckInTicket
<1>6. CASE LateNext
  BY <1>6 DEF LateNext, PaymentArrivesLate, ReleaseArrivesLate, Attempted
<1>7. CASE UNCHANGED vars
  BY <1>7 DEF vars
<1> QED
  BY <1>1, <1>2, <1>3, <1>4, <1>5, <1>6, <1>7 DEF Next

LEMMA ChargedStable ==
  ASSUME [Next]_vars, NEW b \in Booking, Charged(b)
  PROVE  Charged(b)'
  BY AttemptsGrow DEF Charged

(* A booking exists for good with its seats, a cancelled one stays cancelled
   with its key, and confirmations and releases are never forgotten. *)
LEMMA RowStable ==
  ASSUME TypeOK, RowInv, [Next]_vars, NEW b \in Booking
  PROVE  /\ status[b] # "none" => status'[b] # "none" /\ claim'[b] = claim[b]
         /\ status[b] = "CANCELLED" => status'[b] = "CANCELLED" /\ cancelKey'[b] = cancelKey[b]
         /\ b \in confirmed => b \in confirmed'
<1>1. ASSUME NEW d \in Booking, BookingNext(d)
      PROVE  /\ status[b] # "none" => status'[b] # "none" /\ claim'[b] = claim[b]
             /\ status[b] = "CANCELLED" => status'[b] = "CANCELLED" /\ cancelKey'[b] = cancelKey[b]
             /\ b \in confirmed => b \in confirmed'
  BY <1>1 DEF BookingNext, CreateBooking, MarkTicketIssued, CheckInTicket, Ledger!Claim,
              TypeOK, seatVars, ledgerVars
<1>2. ASSUME NEW w \in Worker, MarkPaid(w) \/ MarkExpired(w) \/ MarkCancelled(w)
      PROVE  /\ status[b] # "none" => status'[b] # "none" /\ claim'[b] = claim[b]
             /\ status[b] = "CANCELLED" => status'[b] = "CANCELLED" /\ cancelKey'[b] = cancelKey[b]
             /\ b \in confirmed => b \in confirmed'
  BY <1>2 DEF MarkPaid, MarkExpired, MarkCancelled, TypeOK, seatVars, ledgerVars
<1>3. ASSUME NEW c \in Call, ConfirmPersists(c)
      PROVE  UNCHANGED <<status, claim, cancelKey>> /\ confirmed \subseteq confirmed'
  BY <1>3 DEF ConfirmPersists, Ledger!Take, rowVars
<1> QED
  BY RowSteps, <1>1, <1>2, <1>3

(* One request frees the seats of a booking; its key is kept. *)
LEMMA ReleaseEffect ==
  ASSUME TypeOK, SeatInv, NEW b \in Booking, NEW k \in Key, Release(b, k)
  PROVE  /\ vacated' = vacated \cup {b}
         /\ releaseKey'[b] = k
         /\ releaseKey' \in [Booking -> Key \cup {NoKey}]
         /\ \A d \in Booking \ {b} : releaseKey'[d] = releaseKey[d]
         /\ b \in vacated => releaseKey'[b] = releaseKey[b]
         /\ claim' = claim
         /\ \A s \in Seat : owner'[s] # owner[s] => owner[s] = b /\ owner'[s] = Free
<1>1. CASE Ledger!Vacate(b) /\ releaseKey' = [releaseKey EXCEPT ![b] = k]
  BY <1>1 DEF Ledger!Vacate, TypeOK
<1>2. CASE releaseKey[b] = k /\ UNCHANGED <<ledgerVars, releaseKey>>
  <2>1. b \in vacated
    BY <1>2, NullAssumption DEF SeatInv
  <2> QED
    BY <1>2, <2>1 DEF ledgerVars, TypeOK
<1> QED
  BY <1>1, <1>2 DEF Release

LEMMA ReleaseStable ==
  ASSUME Inv, [Next]_vars, NEW b \in Booking, b \in vacated
  PROVE  b \in vacated' /\ releaseKey'[b] = releaseKey[b]
<1> USE DEF Inv
<1>1. ASSUME NEW w \in Worker, ReleaseBookedSeats(w)
      PROVE  b \in vacated' /\ releaseKey'[b] = releaseKey[b]
  BY <1>1, WorkerType, ReleaseEffect DEF ReleaseBookedSeats
<1>2. ASSUME NEW r \in lateRelease, ReleaseArrivesLate(r)
      PROVE  b \in vacated' /\ releaseKey'[b] = releaseKey[b]
  <2>1. r.booking \in Booking /\ r.key \in Key
    BY DEF TypeOK, Request
  <2> QED
    BY <1>2, <2>1, ReleaseEffect DEF ReleaseArrivesLate
<1>3. ASSUME NEW S \in SUBSET Seat, SetSeatBlocked(S)
      PROVE  b \in vacated' /\ releaseKey'[b] = releaseKey[b]
  BY <1>3 DEF SetSeatBlocked, Ledger!Block, Ledger!Unblock, seatVars
<1>4. ASSUME NEW d \in Booking, NEW h \in Hold, CreateBooking(d, h)
      PROVE  b \in vacated' /\ releaseKey'[b] = releaseKey[b]
  BY <1>4 DEF CreateBooking, Ledger!Claim, seatVars
<1>5. ASSUME NEW c \in Call, ConfirmPersists(c)
      PROVE  b \in vacated' /\ releaseKey'[b] = releaseKey[b]
  BY <1>5 DEF ConfirmPersists, Ledger!Take
<1> QED
  BY SeatSteps, <1>1, <1>2, <1>3, <1>4, <1>5 DEF ledgerVars

-----------------------------------------------------------------------------
(***************************************************************************)
(* The inductive step.                                                     *)
(***************************************************************************)
LEMMA RowStep ==
  ASSUME Inv, [Next]_vars
  PROVE  RowInv'
<1> USE DEF Inv
<1>1. CASE UNCHANGED <<status, claim, cancelKey, confirmed>>
  BY <1>1 DEF RowInv
<1>2. ASSUME NEW d \in Booking, BookingNext(d) PROVE RowInv'
  <2>1. ASSUME NEW h \in Hold, CreateBooking(d, h) PROVE RowInv'
    BY <2>1 DEF CreateBooking, Ledger!Claim, RowInv, TypeOK, Valid, seatVars
  <2>2. CASE MarkTicketIssued(d)
    BY <2>2 DEF MarkTicketIssued, RowInv, TypeOK, Valid, seatVars, ledgerVars
  <2>3. CASE CheckInTicket(d)
    BY <2>3 DEF CheckInTicket, RowInv, TypeOK, Valid, seatVars, ledgerVars
  <2> QED
    BY <1>2, <2>1, <2>2, <2>3 DEF BookingNext
<1>3. ASSUME NEW w \in Worker, MarkPaid(w) PROVE RowInv'
  <2>1. worker[w].booking \in Booking /\ worker[w].booking \in confirmed
    BY <1>3, WorkerType DEF MarkPaid, FlightInv, WorkerInv
  <2> QED
    BY <1>3, <2>1 DEF MarkPaid, RowInv, TypeOK, Valid, seatVars, ledgerVars
<1>4. ASSUME NEW w \in Worker, MarkExpired(w) PROVE RowInv'
  BY <1>4, WorkerType DEF MarkExpired, RowInv, TypeOK, Valid, seatVars, ledgerVars
<1>5. ASSUME NEW w \in Worker, MarkCancelled(w) PROVE RowInv'
  <2>1. worker[w].booking \in Booking /\ worker[w].key \in Key
    BY <1>5, WorkerType DEF MarkCancelled
  <2> QED
    BY <1>5, <2>1 DEF MarkCancelled, RowInv, TypeOK, Valid, seatVars, ledgerVars
<1>6. ASSUME NEW c \in Call, ConfirmPersists(c) PROVE RowInv'
  BY <1>6 DEF ConfirmPersists, Ledger!Take, RowInv, rowVars
<1> QED
  BY RowSteps, <1>1, <1>2, <1>3, <1>4, <1>5, <1>6

(* The confirmations and their seats. *)
LEMMA BackedStep ==
  ASSUME Inv, [Next]_vars
  PROVE  /\ \A b \in confirmed' \ vacated' : Owns(b)'
         /\ \A b \in Booking, s \in Seat : owner'[s] = b => b \in confirmed' /\ s \in claim'[b]
<1> DEFINE Goal == /\ \A b \in confirmed' \ vacated' : Owns(b)'
                   /\ \A b \in Booking, s \in Seat :
                        owner'[s] = b => b \in confirmed' /\ s \in claim'[b]
<1> USE DEF Inv
<1>0. TypeOK /\ SeatInv /\ RowInv
  OBVIOUS
<1>1. CASE UNCHANGED <<ledgerVars, confirmed, releaseKey>>
  BY <1>0, <1>1 DEF SeatInv, Owns, ledgerVars
<1>2. ASSUME NEW S \in SUBSET Seat, SetSeatBlocked(S) PROVE Goal
  <2>1. /\ UNCHANGED <<claim, vacated, confirmed>>
        /\ \A s \in Seat : owner'[s] # owner[s] =>
             owner[s] \notin Booking /\ owner'[s] \notin Booking
    BY <1>2, NullAssumption DEF SetSeatBlocked, Ledger!Block, Ledger!Unblock, seatVars, TypeOK
  <2>2. \A b \in Booking, s \in Seat : owner'[s] = b <=> owner[s] = b
    BY <2>1
  <2>3. confirmed \subseteq Booking /\ \A b \in Booking : claim[b] \subseteq Seat
    BY DEF TypeOK
  <2> QED
    BY <1>0, <2>1, <2>2, <2>3 DEF SeatInv, Owns
<1>3. ASSUME NEW d \in Booking, NEW h \in Hold, CreateBooking(d, h) PROVE Goal
  <2>1. claim[d] = {} /\ UNCHANGED <<owner, vacated, confirmed>>
    BY <1>3 DEF CreateBooking, Ledger!Claim, seatVars
  <2>2. d \notin confirmed \ vacated /\ \A b \in Booking \ {d} : claim'[b] = claim[b]
    BY <1>0, <1>3, <2>1 DEF SeatInv, Owns, CreateBooking, Ledger!Claim, TypeOK
  <2>3. confirmed \subseteq Booking
    BY DEF TypeOK
  <2> QED
    BY <1>0, <2>1, <2>2, <2>3 DEF SeatInv, Owns
<1>4. ASSUME NEW c \in Call, ConfirmPersists(c) PROVE Goal
  <2> DEFINE d == call[c].booking
  <2>1. d \in Booking
    BY <1>4, CallType DEF ConfirmPersists
  <2>2. /\ claim[d] # {} /\ \A s \in claim[d] : owner[s] \in {Free, d}
        /\ owner' = [s \in Seat |-> IF s \in claim[d] THEN d ELSE owner[s]]
        /\ UNCHANGED <<claim, vacated>> /\ confirmed' = confirmed \cup {d}
    BY <1>4 DEF ConfirmPersists, Ledger!Take
  <2>3. confirmed \subseteq Booking /\ \A b \in Booking : claim[b] \subseteq Seat
    BY DEF TypeOK
  <2>4. ASSUME NEW b \in confirmed' \ vacated' PROVE Owns(b)'
    <3>1. CASE b = d
      BY <2>1, <2>2, <2>3, <3>1 DEF Owns
    <3>2. CASE b # d
      <4>1. b \in Booking /\ Owns(b)
        BY <1>0, <2>2, <2>3, <3>2 DEF SeatInv
      <4>2. \A s \in claim[b] : s \in Seat /\ s \notin claim[d]
        BY <2>2, <2>3, <3>2, <4>1, NullAssumption DEF Owns
      <4> QED
        BY <2>2, <4>1, <4>2 DEF Owns
    <3> QED
      BY <3>1, <3>2
  <2>5. ASSUME NEW b \in Booking, NEW s \in Seat, owner'[s] = b
        PROVE  b \in confirmed' /\ s \in claim'[b]
    BY <1>0, <2>2, <2>5 DEF SeatInv
  <2> QED
    BY <2>4, <2>5
<1>5. ASSUME NEW d \in Booking, NEW k \in Key, Release(d, k), UNCHANGED confirmed PROVE Goal
  <2>1. /\ vacated' = vacated \cup {d} /\ claim' = claim
        /\ \A s \in Seat : owner'[s] # owner[s] => owner[s] = d /\ owner'[s] = Free
    BY <1>5, ReleaseEffect
  <2>2. confirmed \subseteq Booking /\ \A b \in Booking : claim[b] \subseteq Seat
    BY DEF TypeOK
  <2>3. ASSUME NEW b \in confirmed' \ vacated' PROVE Owns(b)'
    <3>1. b \in confirmed \ vacated /\ b # d /\ b \in Booking
      BY <1>5, <2>1, <2>2
    <3> QED
      BY <1>0, <2>1, <2>2, <3>1 DEF SeatInv, Owns
  <2>4. ASSUME NEW b \in Booking, NEW s \in Seat, owner'[s] = b
        PROVE  b \in confirmed' /\ s \in claim'[b]
    BY <1>0, <1>5, <2>1, <2>4, NullAssumption DEF SeatInv
  <2> QED
    BY <2>3, <2>4
<1>6. ASSUME NEW w \in Worker, ReleaseBookedSeats(w) PROVE Goal
  BY <1>5, <1>6, WorkerType DEF ReleaseBookedSeats
<1>7. ASSUME NEW r \in lateRelease, ReleaseArrivesLate(r) PROVE Goal
  <2>1. r.booking \in Booking /\ r.key \in Key
    BY DEF TypeOK, Request
  <2> QED
    BY <1>5, <1>7, <2>1 DEF ReleaseArrivesLate
<1> QED
  BY SeatSteps, <1>1, <1>2, <1>3, <1>4, <1>6, <1>7

(* Every confirmed booking was charged before. *)
LEMMA ChargedStep ==
  ASSUME Inv, [Next]_vars
  PROVE  \A b \in confirmed' : Charged(b)'
<1> USE DEF Inv
<1>1. \A b \in confirmed : b \in Booking /\ Charged(b)
  BY DEF TypeOK, SeatInv
<1>2. CASE UNCHANGED confirmed
  BY <1>1, <1>2, ChargedStable
<1>3. ASSUME NEW c \in Call, ConfirmPersists(c) PROVE \A b \in confirmed' : Charged(b)'
  <2>1. call[c].booking \in Booking /\ Charged(call[c].booking)
    BY <1>3, CallType DEF ConfirmPersists, FlightInv, CallInv
  <2> QED
    BY <1>1, <1>3, <2>1, ChargedStable DEF ConfirmPersists
<1>4. CASE \E b \in Booking : BookingNext(b)
  BY <1>2, <1>4 DEF BookingNext, CreateBooking, MarkTicketIssued, CheckInTicket, seatVars
<1>5. CASE \E w \in Worker : MarkPaid(w) \/ MarkExpired(w) \/ MarkCancelled(w)
  BY <1>2, <1>5 DEF MarkPaid, MarkExpired, MarkCancelled, seatVars
<1> QED
  BY RowSteps, <1>2, <1>3, <1>4, <1>5

(* Seats are vacated by a release only, which records its key and is sent
   for a cancelled booking. *)
LEMMA VacatedStep ==
  ASSUME Inv, [Next]_vars
  PROVE  /\ \A b \in Booking : b \in vacated' <=> releaseKey'[b] # NoKey
         /\ OnlyCancelledIsReleased'
<1> DEFINE Goal == /\ \A b \in Booking : b \in vacated' <=> releaseKey'[b] # NoKey
                   /\ OnlyCancelledIsReleased'
<1> USE DEF Inv
<1>1. \A b \in Booking : status[b] = "CANCELLED" => status'[b] = "CANCELLED"
  BY RowStable
<1>2. CASE UNCHANGED <<vacated, releaseKey>>
  BY <1>1, <1>2 DEF SeatInv, OnlyCancelledIsReleased
<1>3. ASSUME NEW b \in Booking, NEW k \in Key, Release(b, k), status[b] = "CANCELLED" PROVE Goal
  BY <1>1, <1>3, ReleaseEffect, NullAssumption DEF SeatInv, OnlyCancelledIsReleased
<1>4. ASSUME NEW w \in Worker, ReleaseBookedSeats(w) PROVE Goal
  BY <1>3, <1>4, WorkerType DEF ReleaseBookedSeats, FlightInv, WorkerInv
<1>5. ASSUME NEW r \in lateRelease, ReleaseArrivesLate(r) PROVE Goal
  <2>1. r.booking \in Booking /\ r.key \in Key
    BY DEF TypeOK, Request
  <2> QED
    BY <1>3, <1>5, <2>1 DEF ReleaseArrivesLate, FlightInv, LateInv
<1>6. CASE \E S \in SUBSET Seat : SetSeatBlocked(S)
  BY <1>2, <1>6 DEF SetSeatBlocked, Ledger!Block, Ledger!Unblock, seatVars
<1>7. CASE \E b \in Booking, h \in Hold : CreateBooking(b, h)
  BY <1>2, <1>7 DEF CreateBooking, Ledger!Claim, seatVars
<1>8. CASE \E c \in Call : ConfirmPersists(c)
  BY <1>2, <1>8 DEF ConfirmPersists, Ledger!Take
<1> QED
  BY SeatSteps, <1>2, <1>4, <1>5, <1>6, <1>7, <1>8 DEF ledgerVars

LEMMA AcknowledgedSteps ==
  ASSUME [Next]_vars
  PROVE  UNCHANGED seatsReleased \/ \E w \in Worker : MarkCancellationSeatsReleased(w)
<1> USE DEF rowVars
<1>1. CASE WorldNext
  BY <1>1 DEF WorldNext, AcquireHold, HoldEnds, SetSeatBlocked, HoldExpiryPasses, Departure
<1>2. ASSUME NEW w \in Worker, NEW b \in Booking, Start(w, b) PROVE UNCHANGED seatsReleased
  BY <1>2 DEF Start, StartPayment, StartCancel, ReconcileExpired, ResumeRelease
<1>3. ASSUME NEW w \in Worker, Progress(w) \/ LoseLock(w)
      PROVE  UNCHANGED seatsReleased \/ MarkCancellationSeatsReleased(w)
  BY <1>3 DEF Progress, LoseLock, PaymentSucceeds, PaymentFails, MarkPaid, MarkExpired,
              DropHold, MarkCancelled, ReleaseBookedSeats, GiveUp
<1>4. ASSUME NEW c \in Call, CallNext(c) PROVE UNCHANGED seatsReleased
  BY <1>4 DEF CallNext, ConfirmReplays, ConfirmStarts, ConfirmReadsHold, ConfirmFindsNoHold,
              ConfirmPersists, ConfirmEnds
<1>5. ASSUME NEW b \in Booking, BookingNext(b) PROVE UNCHANGED seatsReleased
  BY <1>5 DEF BookingNext, CreateBooking, MarkTicketIssued, CheckInTicket
<1>6. CASE LateNext
  BY <1>6 DEF LateNext, PaymentArrivesLate, ReleaseArrivesLate
<1>7. CASE UNCHANGED vars
  BY <1>7 DEF vars
<1> QED
  BY <1>1, <1>2, <1>3, <1>4, <1>5, <1>6, <1>7 DEF Next

LEMMA AcknowledgedStep ==
  ASSUME Inv, [Next]_vars
  PROVE  AcknowledgedIsReleased'
<1> USE DEF Inv
<1>1. ASSUME NEW b \in Booking, b \in vacated, releaseKey[b] = cancelKey[b], status[b] = "CANCELLED"
      PROVE  b \in vacated' /\ releaseKey'[b] = cancelKey'[b]
  BY <1>1, RowStable, ReleaseStable
<1>2. CASE UNCHANGED seatsReleased
  BY <1>1, <1>2 DEF SeatInv, AcknowledgedIsReleased, OnlyCancelledIsReleased, TypeOK
<1>3. ASSUME NEW w \in Worker, MarkCancellationSeatsReleased(w) PROVE AcknowledgedIsReleased'
  <2>1. worker[w].booking \in Booking
    BY <1>3, WorkerType DEF MarkCancellationSeatsReleased
  <2>2. ASSUME NEW b \in seatsReleased'
        PROVE  b \in Booking /\ b \in vacated /\ releaseKey[b] = cancelKey[b] /\ status[b] = "CANCELLED"
    <3>1. CASE b \in seatsReleased
      BY <3>1 DEF SeatInv, AcknowledgedIsReleased, OnlyCancelledIsReleased, TypeOK
    <3>2. CASE b \notin seatsReleased
      BY <1>3, <2>1, <3>2 DEF MarkCancellationSeatsReleased, FlightInv, WorkerInv
    <3> QED
      BY <3>1, <3>2
  <2> QED
    BY <1>1, <2>2 DEF AcknowledgedIsReleased
<1> QED
  BY AcknowledgedSteps, <1>2, <1>3

LEMMA SeatStep ==
  ASSUME Inv, [Next]_vars
  PROVE  SeatInv'
  BY BackedStep, ChargedStep, VacatedStep, AcknowledgedStep DEF SeatInv

(* What a command relies on stays true while others run. *)
LEMMA WorkerKept ==
  ASSUME Inv, [Next]_vars, NEW w \in Worker,
         worker'[w].pc = worker[w].pc, worker'[w].booking = worker[w].booking,
         worker'[w].key = worker[w].key
  PROVE  WorkerInv(w)'
<1> USE DEF Inv
<1>1. CASE worker[w].pc = "idle"
  BY <1>1 DEF WorkerInv
<1>2. CASE worker[w].pc # "idle"
  <2>1. worker[w].booking \in Booking /\ WorkerInv(w)
    BY <1>2, WorkerType DEF FlightInv
  <2> QED
    BY <2>1, RowStable, ReleaseStable DEF WorkerInv
<1> QED
  BY <1>1, <1>2

LEMMA WorkerStep ==
  ASSUME Inv, [Next]_vars, NEW w \in Worker
  PROVE  WorkerInv(w)'
<1> DEFINE b == worker[w].booking
<1> USE DEF Inv
<1>1. CASE worker'[w] = Resting
  BY <1>1 DEF WorkerInv, Resting
<1>2. CASE worker'[w] = worker[w]
  BY <1>2, WorkerKept
<1>3. worker \in [Worker -> {Resting} \cup Command]
  BY DEF TypeOK
<1>4. ASSUME NEW v \in Worker, NEW d \in Booking, Start(v, d) PROVE WorkerInv(w)'
  <2>1. CASE v = w
    <3>1. UNCHANGED rowVars /\ status[d] # "none" /\ worker'[w].booking = d
      BY <1>3, <1>4, <2>1 DEF Start, StartPayment, StartCancel, ReconcileExpired, ResumeRelease, Begin
    <3>2. \/ worker'[w].pc \in {"expiring", "paying", "cancelling"}
          \/ worker'[w].pc = "vacating" /\ status[d] = "CANCELLED"
      BY <1>3, <1>4, <2>1 DEF Start, StartPayment, StartCancel, ReconcileExpired, ResumeRelease, Begin
    <3> QED
      BY <3>1, <3>2 DEF WorkerInv, rowVars
  <2>2. CASE v # w
    BY <1>2, <1>3, <1>4, <2>2 DEF Start, StartPayment, StartCancel, ReconcileExpired, ResumeRelease, Begin
  <2> QED
    BY <2>1, <2>2
<1>5. ASSUME NEW v \in Worker, v # w, Progress(v) \/ LoseLock(v) PROVE WorkerInv(w)'
  BY <1>2, <1>3, <1>5 DEF Progress, LoseLock, PaymentSucceeds, PaymentFails, MarkPaid, MarkExpired,
     DropHold, MarkCancelled, ReleaseBookedSeats, MarkCancellationSeatsReleased, GiveUp, Goto, Return
<1>6. CASE LoseLock(w)
  <2>1. worker[w] \in Command
    BY <1>3, <1>6 DEF LoseLock, Resting
  <2> QED
    BY <1>3, <1>6, <2>1, WorkerKept DEF LoseLock, Command
<1>7. CASE Progress(w)
  <2>1. CASE \E c \in Call : PaymentSucceeds(w, c)
    <3>1. /\ worker[w].pc = "paying" /\ UNCHANGED <<status, confirmed>>
          /\ worker' = [worker EXCEPT ![w].pc = "confirming"]
      BY <2>1 DEF PaymentSucceeds, Goto, seatVars, rowVars
    <3>2. worker[w] \in Command
      BY <1>3, <3>1 DEF Resting
    <3>3. worker'[w].pc = "confirming" /\ worker'[w].booking = b
      BY <1>3, <3>1, <3>2 DEF Command
    <3> QED
      BY <3>1, <3>3 DEF WorkerInv, FlightInv
  <2>2. CASE MarkExpired(w)
    <3>1. CASE worker'[w] # Resting
      <4>1. worker[w].pc = "expiring" /\ worker' = [worker EXCEPT ![w].pc = "dropping"]
        BY <1>3, <2>2, <3>1 DEF MarkExpired, Goto, Return
      <4>2. worker[w] \in Command
        BY <1>3, <4>1 DEF Resting
      <4>3. worker'[w].pc = "dropping" /\ worker'[w].booking = b
        BY <1>3, <4>1, <4>2 DEF Command
      <4>4. b \in Booking /\ status[b] # "none"
        BY <4>1, WorkerType DEF FlightInv, WorkerInv
      <4> QED
        BY <4>3, <4>4, RowStable DEF WorkerInv
    <3> QED
      BY <1>1, <3>1
  <2>3. CASE MarkCancelled(w)
    <3>1. CASE worker'[w] # Resting
      <4>1. /\ worker[w].pc = "cancelling" /\ status'[b] = "CANCELLED"
            /\ worker' = [worker EXCEPT ![w].pc = "vacating"]
        BY <1>3, <2>3, <3>1 DEF MarkCancelled, Goto, Return
      <4>2. worker[w] \in Command
        BY <1>3, <4>1 DEF Resting
      <4>3. worker'[w].pc = "vacating" /\ worker'[w].booking = b
        BY <1>3, <4>1, <4>2 DEF Command
      <4> QED
        BY <4>1, <4>3 DEF WorkerInv
    <3> QED
      BY <1>1, <3>1
  <2>4. CASE ReleaseBookedSeats(w)
    <3>1. /\ worker[w].pc = "vacating" /\ Release(b, worker[w].key) /\ UNCHANGED status
          /\ worker' = [worker EXCEPT ![w].pc = "acknowledged"]
      BY <2>4 DEF ReleaseBookedSeats, Goto, rowVars
    <3>2. worker[w] \in Command /\ b \in Booking /\ worker[w].key \in Key
      BY <1>3, <3>1, WorkerType DEF Resting
    <3>3. worker'[w].pc = "acknowledged" /\ worker'[w].booking = b /\ worker'[w].key = worker[w].key
      BY <1>3, <3>1, <3>2 DEF Command
    <3>4. b \in vacated' /\ releaseKey'[b] = worker[w].key
      BY <3>1, <3>2, ReleaseEffect
    <3> QED
      BY <3>1, <3>3, <3>4 DEF WorkerInv, FlightInv
  <2>5. CASE \/ PaymentFails(w) \/ MarkPaid(w) \/ DropHold(w)
             \/ MarkCancellationSeatsReleased(w) \/ GiveUp(w)
    BY <1>1, <1>3, <2>5 DEF PaymentFails, MarkPaid, DropHold, MarkCancellationSeatsReleased,
       GiveUp, Return
  <2> QED
    BY <1>7, <2>1, <2>2, <2>3, <2>4, <2>5 DEF Progress
<1>8. ASSUME NEW c \in Call, call[c].waiter = w, call[c].pc # "idle", NEW pc \in {"confirmed", "expiring"},
             Answer(c, pc), pc = "confirmed" => call[c].booking \in confirmed'
      PROVE  WorkerInv(w)'
  <2>1. worker[w].pc = "confirming" /\ b = call[c].booking
    BY <1>8, NullAssumption DEF FlightInv, CallInv
  <2>2. worker[w] \in Command /\ b \in Booking /\ status[b] # "none"
    BY <1>3, <2>1, WorkerType DEF Resting, FlightInv, WorkerInv
  <2>3. worker'[w] = [worker[w] EXCEPT !.pc = pc]
    BY <1>8 DEF Answer
  <2>4. worker'[w].pc = pc /\ worker'[w].booking = b
    BY <2>2, <2>3 DEF Command
  <2> QED
    BY <1>8, <2>1, <2>2, <2>4, RowStable DEF WorkerInv
<1>9. ASSUME NEW c \in Call, CallNext(c) PROVE WorkerInv(w)'
  <2>1. CASE call[c].waiter # w \/ call[c].pc = "idle"
    BY <1>2, <1>3, <1>9, <2>1 DEF CallNext, ConfirmReplays, ConfirmStarts, ConfirmReadsHold,
       ConfirmFindsNoHold, ConfirmPersists, ConfirmEnds, Answer
  <2>2. CASE call[c].waiter = w /\ call[c].pc # "idle"
    <3>1. CASE ConfirmReplays(c)
      BY <1>8, <2>2, <3>1 DEF ConfirmReplays, seatVars
    <3>2. CASE ConfirmFindsNoHold(c)
      <4>1. Answer(c, "expiring")
        BY <3>2 DEF ConfirmFindsNoHold
      <4> QED
        BY <1>8, <2>2, <4>1
    <3>3. CASE ConfirmPersists(c)
      BY <1>8, <2>2, <3>3 DEF ConfirmPersists
    <3>4. CASE ConfirmStarts(c) \/ ConfirmReadsHold(c) \/ ConfirmEnds(c)
      BY <1>2, <3>4 DEF ConfirmStarts, ConfirmReadsHold, ConfirmEnds
    <3> QED
      BY <1>9, <3>1, <3>2, <3>3, <3>4 DEF CallNext
  <2> QED
    BY <2>1, <2>2
<1>10. CASE WorldNext \/ (\E d \in Booking : BookingNext(d)) \/ LateNext \/ UNCHANGED vars
  BY <1>2, <1>10 DEF WorldNext, AcquireHold, HoldEnds, SetSeatBlocked, HoldExpiryPasses, Departure,
     BookingNext, CreateBooking, MarkTicketIssued, CheckInTicket, LateNext, PaymentArrivesLate,
     ReleaseArrivesLate, vars
<1> QED
  BY <1>4, <1>5, <1>6, <1>7, <1>9, <1>10 DEF Next

(* A command that waits for an answer goes on only when it is answered, or
   gives up and is waited for no more. *)
LEMMA CallKept ==
  ASSUME Inv, [Next]_vars, NEW c \in Call,
         call'[c].pc # "idle" =>
           /\ call[c].pc # "idle"
           /\ call'[c].booking = call[c].booking
           /\ call'[c].waiter # NoWorker =>
                /\ call'[c].waiter = call[c].waiter
                /\ worker'[call[c].waiter].pc = worker[call[c].waiter].pc
                /\ worker'[call[c].waiter].booking = worker[call[c].waiter].booking
  PROVE  CallInv(c)'
<1> USE DEF Inv
<1>1. CASE call'[c].pc # "idle"
  <2>1. call[c].booking \in Booking /\ CallInv(c) /\ call[c].pc # "idle"
    BY <1>1, CallType DEF FlightInv
  <2>2. \A b \in Booking : b = call[c].booking => status'[b] # "none" /\ Charged(b)'
    BY <2>1, RowStable, ChargedStable DEF CallInv
  <2> QED
    BY <1>1, <2>1, <2>2 DEF CallInv
<1> QED
  BY <1>1 DEF CallInv

LEMMA CallStep ==
  ASSUME Inv, [Next]_vars
  PROVE  (\A c \in Call : CallInv(c)') /\ OneCall'
<1> DEFINE Goal == (\A c \in Call : CallInv(c)') /\ OneCall'
<1> USE DEF Inv
<1>1. /\ worker \in [Worker -> {Resting} \cup Command]
      /\ call \in [Call -> {NoCall} \cup Confirmation]
      /\ (\A c \in Call : CallInv(c)) /\ OneCall
  BY DEF TypeOK, FlightInv
<1>2. \A c \in Call : /\ call[c].waiter \in Worker \cup {NoWorker}
                      /\ call[c].pc = "idle" <=> call[c] = NoCall
                      /\ call[c].waiter # NoWorker =>
                           /\ call[c].pc # "idle"
                           /\ worker[call[c].waiter].pc = "confirming"
  BY <1>1 DEF NoCall, Confirmation, CallInv
<1>3. ASSUME UNCHANGED call,
             \A w \in Worker : worker[w].pc = "confirming" =>
               worker'[w].pc = worker[w].pc /\ worker'[w].booking = worker[w].booking
      PROVE  Goal
  <2>1. \A c \in Call : CallInv(c)'
    BY <1>2, <1>3, CallKept
  <2> QED
    BY <1>1, <1>3, <2>1 DEF OneCall
<1>4. CASE UNCHANGED <<call, worker>>
  BY <1>3, <1>4
<1>5. ASSUME NEW w \in Worker, NEW b \in Booking, Start(w, b) PROVE Goal
  BY <1>1, <1>3, <1>5 DEF Start, StartPayment, StartCancel, ReconcileExpired, ResumeRelease, Begin,
     Resting
<1>6. ASSUME NEW w \in Worker, LoseLock(w) PROVE Goal
  <2>1. worker[w] \in Command
    BY <1>1, <1>6 DEF LoseLock, Resting
  <2> QED
    BY <1>1, <1>3, <1>6, <2>1 DEF LoseLock, Command
<1>7. ASSUME NEW w \in Worker, NEW c \in Call, PaymentSucceeds(w, c) PROVE Goal
  <2>0. PICK b \in Booking : b = worker[w].booking
    BY <1>7, WorkerType DEF PaymentSucceeds
  <2>1. /\ worker[w].pc = "paying" /\ call[c] = NoCall
        /\ attempts' = Attempted(PaymentRequest(w), "SUCCEEDED")
        /\ call' = [call EXCEPT ![c] = [pc |-> "sent", booking |-> b, waiter |-> w]]
        /\ worker' = [worker EXCEPT ![w].pc = "confirming"]
        /\ UNCHANGED status
    BY <1>7, <2>0 DEF PaymentSucceeds, Goto, rowVars
  <2>2. worker[w] \in Command /\ status[b] # "none"
    BY <1>1, <2>0, <2>1 DEF Resting, FlightInv, WorkerInv
  <2>3. Charged(b)'
    <3>1. CASE Charged(b)
      BY <3>1, ChargedStable
    <3>2. CASE ~Charged(b)
      <4>1. [booking |-> b, key |-> worker[w].key, outcome |-> "SUCCEEDED"] \in attempts'
        BY <2>0, <2>1, <3>2 DEF Attempted, PaymentRequest
      <4> QED
        BY <4>1 DEF Charged
    <3> QED
      BY <3>1, <3>2
  <2>4. worker'[w].pc = "confirming" /\ worker'[w].booking = b
    BY <1>1, <2>0, <2>1, <2>2 DEF Command
  <2>5. \A d \in Call : call[d].waiter # w
    BY <1>2, <2>1, NullAssumption
  <2>6. ASSUME NEW d \in Call PROVE CallInv(d)'
    <3>1. CASE d = c
      BY <1>1, <2>1, <2>2, <2>3, <2>4, <3>1 DEF CallInv
    <3>2. CASE d # c
      <4>1. call'[d] = call[d] /\ \A v \in Worker \ {w} : worker'[v] = worker[v]
        BY <1>1, <2>1, <3>2
      <4> QED
        BY <1>2, <2>5, <4>1, CallKept
    <3> QED
      BY <3>1, <3>2
  <2>7. OneCall'
    BY <1>1, <2>1, <2>5 DEF OneCall
  <2> QED
    BY <2>6, <2>7
<1>8. ASSUME NEW w \in Worker, GiveUp(w) PROVE Goal
  <2>1. /\ call' = [c \in Call |-> IF call[c].waiter = w
                                   THEN [call[c] EXCEPT !.waiter = NoWorker] ELSE call[c]]
        /\ worker' = [worker EXCEPT ![w] = Resting]
    BY <1>8 DEF GiveUp, Return
  <2>2. ASSUME NEW c \in Call
        PROVE  /\ call[c].waiter = w =>
                    /\ call'[c].waiter = NoWorker /\ call'[c].pc = call[c].pc
                    /\ call'[c].booking = call[c].booking
               /\ call[c].waiter # w => call'[c] = call[c]
    BY <1>1, <2>1 DEF NoCall, Confirmation
  <2>3. ASSUME NEW c \in Call PROVE CallInv(c)'
    BY <1>1, <1>2, <2>1, <2>2, CallKept
  <2>4. OneCall'
    BY <1>1, <2>2 DEF OneCall
  <2> QED
    BY <2>3, <2>4
<1>9. ASSUME NEW w \in Worker, Progress(w) PROVE Goal
  <2>1. CASE \/ PaymentFails(w) \/ MarkPaid(w) \/ MarkExpired(w) \/ DropHold(w)
             \/ MarkCancelled(w) \/ ReleaseBookedSeats(w) \/ MarkCancellationSeatsReleased(w)
    <3>1. UNCHANGED call /\ worker[w].pc # "confirming" /\ \A v \in Worker \ {w} : worker'[v] = worker[v]
      BY <1>1, <2>1 DEF PaymentFails, MarkPaid, MarkExpired, DropHold, MarkCancelled,
         ReleaseBookedSeats, MarkCancellationSeatsReleased, Return, Goto
    <3> QED
      BY <1>3, <3>1
  <2> QED
    BY <1>7, <1>8, <1>9, <2>1 DEF Progress
<1>10. ASSUME NEW c \in Call, CallNext(c) PROVE Goal
  <2>1. ASSUME call[c].pc # "idle", NEW pc, Answer(c, pc) PROVE Goal
    <3>1. /\ call' = [call EXCEPT ![c] = NoCall]
          /\ \A w \in Worker : w # call[c].waiter => worker'[w] = worker[w]
      BY <2>1 DEF Answer
    <3>2. \A d \in Call \ {c} : call[d].waiter # NoWorker => call[d].waiter # call[c].waiter
      BY <1>1 DEF OneCall
    <3>3. ASSUME NEW d \in Call PROVE CallInv(d)'
      BY <1>1, <1>2, <3>1, <3>2, CallKept DEF NoCall
    <3>4. OneCall'
      BY <1>1, <3>1 DEF OneCall, NoCall
    <3> QED
      BY <3>3, <3>4
  <2>2. CASE ConfirmReplays(c) \/ ConfirmFindsNoHold(c) \/ ConfirmPersists(c)
    BY <2>1, <2>2 DEF ConfirmReplays, ConfirmFindsNoHold, ConfirmPersists
  <2>3. ASSUME call[c].pc # "idle", UNCHANGED worker,
               \/ call' = [call EXCEPT ![c] = NoCall]
               \/ \E pc \in {"fresh", "held"} : call' = [call EXCEPT ![c].pc = pc]
        PROVE  Goal
    <3>1. ASSUME NEW d \in Call
          PROVE  /\ call'[d].pc # "idle" => call[d].pc # "idle" /\ call'[d].booking = call[d].booking
                 /\ call'[d].waiter # NoWorker => call'[d].waiter = call[d].waiter
      BY <1>1, <2>3 DEF NoCall, Confirmation
    <3>2. ASSUME NEW d \in Call PROVE CallInv(d)'
      BY <2>3, <3>1, CallKept
    <3>3. OneCall'
      BY <1>1, <3>1 DEF OneCall
    <3> QED
      BY <3>2, <3>3
  <2>4. CASE ConfirmStarts(c) \/ ConfirmReadsHold(c) \/ ConfirmEnds(c)
    BY <1>2, <2>3, <2>4 DEF ConfirmStarts, ConfirmReadsHold, ConfirmEnds
  <2> QED
    BY <1>10, <2>2, <2>4 DEF CallNext
<1>11. CASE WorldNext \/ (\E d \in Booking : BookingNext(d)) \/ LateNext \/ UNCHANGED vars
  BY <1>4, <1>11 DEF WorldNext, AcquireHold, HoldEnds, SetSeatBlocked, HoldExpiryPasses, Departure,
     BookingNext, CreateBooking, MarkTicketIssued, CheckInTicket, LateNext, PaymentArrivesLate,
     ReleaseArrivesLate, vars
<1> QED
  BY <1>5, <1>6, <1>9, <1>10, <1>11 DEF Next

LEMMA LateStep ==
  ASSUME Inv, [Next]_vars
  PROVE  LateInv'
<1> USE DEF Inv
<1>1. /\ \A r \in latePay : r.booking \in Booking /\ status[r.booking] # "none"
      /\ \A r \in lateRelease : r.booking \in Booking /\ status[r.booking] = "CANCELLED"
  BY DEF TypeOK, Request, FlightInv, LateInv
<1>2. CASE latePay' \subseteq latePay /\ lateRelease' \subseteq lateRelease
  BY <1>1, <1>2, RowStable DEF LateInv
<1>3. ASSUME NEW w \in Worker, GiveUp(w) PROVE LateInv'
  <2> DEFINE r == [booking |-> worker[w].booking, key |-> worker[w].key]
  <2>1. UNCHANGED status /\ latePay' \subseteq latePay \cup {r} /\ lateRelease' \subseteq lateRelease \cup {r}
    BY <1>3 DEF GiveUp, rowVars
  <2>2. worker[w].pc # "paying" => latePay' = latePay
    BY <1>3 DEF GiveUp
  <2>3. worker[w].pc # "vacating" => lateRelease' = lateRelease
    BY <1>3 DEF GiveUp
  <2>4. /\ worker[w].pc = "paying" => status[r.booking] # "none"
        /\ worker[w].pc = "vacating" => status[r.booking] = "CANCELLED"
    BY DEF FlightInv, WorkerInv
  <2> QED
    BY <1>1, <2>1, <2>2, <2>3, <2>4 DEF LateInv
<1>4. ASSUME NEW w \in Worker, Progress(w) \/ LoseLock(w) PROVE LateInv'
  <2>1. UNCHANGED <<latePay, lateRelease>> \/ GiveUp(w)
    BY <1>4 DEF Progress, LoseLock, PaymentSucceeds, PaymentFails, MarkPaid, MarkExpired,
       DropHold, MarkCancelled, ReleaseBookedSeats, MarkCancellationSeatsReleased, paymentVars
  <2> QED
    BY <1>2, <1>3, <2>1
<1>5. ASSUME NEW c \in Call, CallNext(c) PROVE LateInv'
  BY <1>2, <1>5 DEF CallNext, ConfirmReplays, ConfirmStarts, ConfirmReadsHold,
     ConfirmFindsNoHold, ConfirmPersists, ConfirmEnds, paymentVars
<1>6. ASSUME NEW w \in Worker, NEW b \in Booking, Start(w, b) PROVE LateInv'
  BY <1>2, <1>6 DEF Start, StartPayment, StartCancel, ReconcileExpired, ResumeRelease, paymentVars
<1>7. CASE WorldNext \/ (\E d \in Booking : BookingNext(d)) \/ LateNext \/ UNCHANGED vars
  BY <1>2, <1>7 DEF WorldNext, AcquireHold, HoldEnds, SetSeatBlocked, HoldExpiryPasses, Departure,
     BookingNext, CreateBooking, MarkTicketIssued, CheckInTicket, LateNext, PaymentArrivesLate,
     ReleaseArrivesLate, paymentVars, vars
<1> QED
  BY <1>4, <1>5, <1>6, <1>7 DEF Next

LEMMA InvStep == Inv /\ [Next]_vars => Inv'
<1> SUFFICES ASSUME Inv, [Next]_vars PROVE Inv'
  OBVIOUS
<1>1. FlightInv'
  BY WorkerStep, CallStep, LateStep DEF FlightInv
<1> QED
  BY <1>1, TypeStep, RowStep, SeatStep DEF Inv

LEMMA Invariance == Spec => []Inv
<1> QED
  BY InitInv, InvStep, PTL DEF Spec

-----------------------------------------------------------------------------
(***************************************************************************)
(* The theorems.                                                           *)
(***************************************************************************)

(* The columns, requests and commands of checkout always have their types:
   Booking Service and its schema (booking.repository.ts). *)
THEOREM CheckoutTypeCorrect == Spec => []TypeOK
<1>1. Inv => TypeOK
  BY DEF Inv
<1> QED
  BY <1>1, Invariance, PTL

(* A booking that is paid, ticketed or checked in owns every seat it names,
   whichever requests were lost, late or repeated and even if its advisory
   lock was lost on the way (simulatePaymentLocked, markPaid). *)
THEOREM PaidBookingsHaveTheirSeats == Spec => []PaidSeatsAreBooked
<1>1. Inv => PaidSeatsAreBooked
  <2> SUFFICES ASSUME Inv, NEW b \in Booking, status[b] \in Valid PROVE Owns(b)
    BY DEF PaidSeatsAreBooked
  <2>1. b \in confirmed
    BY DEF Inv, RowInv
  <2>2. b \notin vacated
    BY DEF Inv, SeatInv, OnlyCancelledIsReleased, Valid
  <2> QED
    BY <2>1, <2>2 DEF Inv, SeatInv
<1> QED
  BY <1>1, Invariance, PTL

(* No seat is sold to a booking without a successful payment attempt: the
   payment precedes the confirmation and is never undone (simulatePaymentLocked,
   createOrReplay of payment.repository.ts). *)
THEOREM NoSeatWithoutPayment == Spec => []SoldSeatsAreCharged
<1>1. Inv => SoldSeatsAreCharged
  BY DEF Inv, SeatInv, SoldSeatsAreCharged
<1> QED
  BY <1>1, Invariance, PTL

(* Only a cancelled booking gives its seats back, late requests included
   (cancelBookingLocked, releaseCancelledSeats). *)
THEOREM ReleasesAreCancellations == Spec => []OnlyCancelledIsReleased
<1>1. Inv => OnlyCancelledIsReleased
  BY DEF Inv, SeatInv
<1> QED
  BY <1>1, Invariance, PTL

(* An acknowledged release happened, under the key of the cancellation
   (markCancellationSeatsReleased, releaseBookedSeats of seat-state.repository.ts). *)
THEOREM AcknowledgementsAreTrue == Spec => []AcknowledgedIsReleased
<1>1. Inv => AcknowledgedIsReleased
  BY DEF Inv, SeatInv
<1> QED
  BY <1>1, Invariance, PTL

-----------------------------------------------------------------------------
(***************************************************************************)
(* The lock, while no lock session dies.                                   *)
(***************************************************************************)
Paying == {"paying", "confirming", "confirmed"}

LockInv ==
  ~LockLoss =>
    /\ \A w \in Worker : worker[w] # Resting => worker[w].locked
    /\ \A v, w \in Worker :
         worker[v] # Resting /\ worker[w] # Resting /\ worker[v].booking = worker[w].booking
           => v = w
    /\ \A w \in Worker :
         worker[w].pc \in Paying => status[worker[w].booking] = "PENDING_PAYMENT"

(* What one step may do to the commands. *)
LEMMA WorkerMoves ==
  ASSUME Inv, [Next]_vars, ~LockLoss, NEW w \in Worker
  PROVE  \/ worker'[w] \in {worker[w], Resting}
         \/ \E b \in Booking : Start(w, b)
         \/ /\ worker[w] # Resting
            /\ worker'[w].booking = worker[w].booking /\ worker'[w].locked = worker[w].locked
            /\ worker'[w].pc \in Paying => worker[w].pc \in Paying
<1> USE DEF Inv
<1>1. worker \in [Worker -> {Resting} \cup Command]
  BY DEF TypeOK
<1>2. ASSUME worker[w].pc # "idle", NEW pc, worker'[w] = [worker[w] EXCEPT !.pc = pc],
             pc \in Paying => worker[w].pc \in Paying
      PROVE  /\ worker[w] # Resting
             /\ worker'[w].booking = worker[w].booking /\ worker'[w].locked = worker[w].locked
             /\ worker'[w].pc \in Paying => worker[w].pc \in Paying
  <2>1. worker[w] \in Command
    BY <1>1, <1>2 DEF Resting
  <2> QED
    BY <1>2, <2>1 DEF Command, Resting
<1>3. ASSUME NEW v \in Worker, NEW b \in Booking, Start(v, b), v # w PROVE worker'[w] = worker[w]
  BY <1>1, <1>3 DEF Start, StartPayment, StartCancel, ReconcileExpired, ResumeRelease, Begin
<1>4. ASSUME NEW v \in Worker, Progress(v), v # w PROVE worker'[w] = worker[w]
  BY <1>1, <1>4 DEF Progress, PaymentSucceeds, PaymentFails, MarkPaid, MarkExpired, DropHold,
     MarkCancelled, ReleaseBookedSeats, MarkCancellationSeatsReleased, GiveUp, Goto, Return
<1>5. CASE Progress(w)
  <2>1. \/ worker'[w] = Resting
        \/ worker[w].pc = "paying" /\ worker'[w] = [worker[w] EXCEPT !.pc = "confirming"]
        \/ worker[w].pc = "expiring" /\ worker'[w] = [worker[w] EXCEPT !.pc = "dropping"]
        \/ worker[w].pc = "cancelling" /\ worker'[w] = [worker[w] EXCEPT !.pc = "vacating"]
        \/ worker[w].pc = "vacating" /\ worker'[w] = [worker[w] EXCEPT !.pc = "acknowledged"]
    BY <1>1, <1>5 DEF Progress, PaymentSucceeds, PaymentFails, MarkPaid, MarkExpired, DropHold,
       MarkCancelled, ReleaseBookedSeats, MarkCancellationSeatsReleased, GiveUp, Goto, Return
  <2> QED
    BY <1>2, <2>1 DEF Paying
<1>6. ASSUME NEW c \in Call, CallNext(c), worker'[w] # worker[w]
      PROVE  /\ worker[w].pc = "confirming"
             /\ \E pc \in {"confirmed", "expiring"} : worker'[w] = [worker[w] EXCEPT !.pc = pc]
  <2>1. call[c].waiter = w
    BY <1>6 DEF CallNext, ConfirmReplays, ConfirmStarts, ConfirmReadsHold, ConfirmFindsNoHold,
       ConfirmPersists, ConfirmEnds, Answer
  <2>2. call[c].pc # "idle"
    BY <2>1, NullAssumption DEF TypeOK, NoCall, Confirmation
  <2>3. worker[w].pc = "confirming"
    BY <2>1, <2>2, NullAssumption DEF FlightInv, CallInv
  <2>4. \E pc \in {"confirmed", "expiring"} : worker'[w] = [worker[w] EXCEPT !.pc = pc]
    BY <1>6, <2>1 DEF CallNext, ConfirmReplays, ConfirmStarts, ConfirmReadsHold,
       ConfirmFindsNoHold, ConfirmPersists, ConfirmEnds, Answer
  <2> QED
    BY <2>3, <2>4
<1>7. ASSUME NEW c \in Call, CallNext(c), worker'[w] # worker[w]
      PROVE  /\ worker[w] # Resting
             /\ worker'[w].booking = worker[w].booking /\ worker'[w].locked = worker[w].locked
             /\ worker'[w].pc \in Paying => worker[w].pc \in Paying
  BY <1>2, <1>6, <1>7 DEF Paying
<1>8. ASSUME NEW v \in Worker, LoseLock(v) PROVE FALSE
  BY <1>8 DEF LoseLock
<1>9. CASE WorldNext \/ (\E d \in Booking : BookingNext(d)) \/ LateNext \/ UNCHANGED vars
  BY <1>9 DEF WorldNext, AcquireHold, HoldEnds, SetSeatBlocked, HoldExpiryPasses, Departure,
     BookingNext, CreateBooking, MarkTicketIssued, CheckInTicket, LateNext, PaymentArrivesLate,
     ReleaseArrivesLate, vars
<1> QED
  BY <1>3, <1>4, <1>5, <1>7, <1>8, <1>9, Zenon DEF Next

(* Only a command of the booking moves it on from pending. *)
LEMMA PendingStable ==
  ASSUME Inv, [Next]_vars, NEW b \in Booking, status[b] = "PENDING_PAYMENT",
         status'[b] # "PENDING_PAYMENT"
  PROVE  \E v \in Worker : worker[v].booking = b /\ worker[v] # Resting /\ worker'[v].pc \notin Paying
<1> USE DEF Inv
<1>1. ASSUME NEW d \in Booking, BookingNext(d) PROVE FALSE
  BY <1>1 DEF BookingNext, CreateBooking, MarkTicketIssued, CheckInTicket, TypeOK
<1>2. ASSUME NEW c \in Call, ConfirmPersists(c) PROVE FALSE
  BY <1>2 DEF ConfirmPersists, rowVars
<1>3. ASSUME NEW v \in Worker, MarkPaid(v) \/ MarkExpired(v) \/ MarkCancelled(v)
      PROVE  worker[v].booking = b /\ worker[v] # Resting /\ worker'[v].pc \notin Paying
  <2>1. worker[v].booking = b /\ worker[v] # Resting
    BY <1>3 DEF MarkPaid, MarkExpired, MarkCancelled, TypeOK, Resting
  <2>2. worker[v] \in Command /\ worker \in [Worker -> {Resting} \cup Command]
    BY <2>1 DEF TypeOK
  <2>3. \/ worker'[v] = Resting
        \/ \E pc \in {"dropping", "vacating"} : worker'[v] = [worker[v] EXCEPT !.pc = pc]
    BY <1>3, <2>2 DEF MarkPaid, MarkExpired, MarkCancelled, Goto, Return
  <2> QED
    BY <2>1, <2>2, <2>3 DEF Resting, Command, Paying
<1> QED
  BY RowSteps, <1>1, <1>2, <1>3

LEMMA LockStep == Inv /\ LockInv /\ [Next]_vars => LockInv'
<1> SUFFICES ASSUME Inv, LockInv, [Next]_vars, ~LockLoss
             PROVE  /\ \A w \in Worker : worker'[w] # Resting => worker'[w].locked
                    /\ \A v, w \in Worker :
                         worker'[v] # Resting /\ worker'[w] # Resting
                           /\ worker'[v].booking = worker'[w].booking => v = w
                    /\ \A w \in Worker :
                         worker'[w].pc \in Paying => status'[worker'[w].booking] = "PENDING_PAYMENT"
  BY DEF LockInv
<1>1. TypeOK /\ worker \in [Worker -> {Resting} \cup Command]
  BY DEF Inv, TypeOK
<1>2. ASSUME NEW w \in Worker, NEW b \in Booking, Start(w, b)
      PROVE  /\ worker'[w].booking = b /\ worker'[w].locked
             /\ worker'[w].pc \in Paying => status'[b] = "PENDING_PAYMENT"
             /\ \A v \in Worker \ {w} : worker'[v] = worker[v]
             /\ \A v \in Worker : worker[v] # Resting => worker[v].booking # b
  <2>1. UNCHANGED status /\ Unlocked(b)
    BY <1>2 DEF Start, StartPayment, StartCancel, ReconcileExpired, ResumeRelease, Begin, rowVars
  <2>2. /\ worker'[w].booking = b /\ worker'[w].locked
        /\ worker'[w].pc \in Paying => status[b] = "PENDING_PAYMENT"
        /\ \A v \in Worker \ {w} : worker'[v] = worker[v]
    BY <1>1, <1>2 DEF Start, StartPayment, StartCancel, ReconcileExpired, ResumeRelease, Begin, Paying
  <2>3. \A v \in Worker : worker[v] # Resting => worker[v].booking # b
    BY <2>1 DEF Unlocked, LockInv
  <2> QED
    BY <1>1, <2>1, <2>2, <2>3
<1>3. ASSUME NEW w \in Worker, worker'[w] # Resting PROVE worker'[w].locked
  BY <1>2, <1>3, WorkerMoves DEF LockInv
<1>4. ASSUME NEW v \in Worker, NEW w \in Worker, worker'[v] # Resting, worker'[w] # Resting,
             worker'[v].booking = worker'[w].booking
      PROVE  v = w
  <2>1. CASE \E b \in Booking : Start(v, b)
    BY <1>2, <1>4, <2>1
  <2>2. CASE \E b \in Booking : Start(w, b)
    BY <1>2, <1>4, <2>2
  <2>3. CASE ~(\E b \in Booking : Start(v, b)) /\ ~(\E b \in Booking : Start(w, b))
    <3>1. worker[v] # Resting /\ worker'[v].booking = worker[v].booking
      BY <1>4, <2>3, WorkerMoves
    <3>2. worker[w] # Resting /\ worker'[w].booking = worker[w].booking
      BY <1>4, <2>3, WorkerMoves
    <3> QED
      BY <1>4, <3>1, <3>2 DEF LockInv
  <2> QED
    BY <2>1, <2>2, <2>3
<1>5. ASSUME NEW w \in Worker, worker'[w].pc \in Paying
      PROVE  status'[worker'[w].booking] = "PENDING_PAYMENT"
  <2>1. CASE \E b \in Booking : Start(w, b)
    BY <1>2, <1>5, <2>1
  <2>2. CASE ~\E b \in Booking : Start(w, b)
    <3>1. worker'[w] # Resting
      BY <1>5 DEF Resting, Paying
    <3>2. worker[w] # Resting /\ worker'[w].booking = worker[w].booking /\ worker[w].pc \in Paying
      BY <1>5, <2>2, <3>1, WorkerMoves
    <3>3. PICK b \in Booking : b = worker[w].booking
      BY <1>1, <3>2, WorkerType DEF Paying
    <3>4. status[b] = "PENDING_PAYMENT"
      BY <3>2, <3>3 DEF LockInv
    <3>5. status'[b] = "PENDING_PAYMENT"
      <4>1. SUFFICES ASSUME status'[b] # "PENDING_PAYMENT" PROVE FALSE
        OBVIOUS
      <4>2. PICK v \in Worker : worker[v].booking = b /\ worker[v] # Resting /\ worker'[v].pc \notin Paying
        BY <3>4, <4>1, PendingStable
      <4>3. v = w
        BY <3>2, <3>3, <4>2 DEF LockInv
      <4> QED
        BY <1>5, <4>2, <4>3
    <3> QED
      BY <3>2, <3>3, <3>5
  <2> QED
    BY <2>1, <2>2
<1> QED
  BY <1>3, <1>4, <1>5

(* As docs/ARCHITECTURE.md:289-291 says of the advisory lock, and as long as
   it is held: no expiry and no other payment overtakes a payment command that
   still runs (withPaymentCommandLock, transitionExpired, markPaid). *)
THEOREM TheLockKeepsPaymentsInOrder == Spec => []PaymentsAreNotOvertaken
<1>1. Init => LockInv
  BY DEF Init, LockInv, Resting, Paying
<1>2. LockInv => PaymentsAreNotOvertaken
  BY DEF LockInv, PaymentsAreNotOvertaken, Paying
<1> QED
  BY <1>1, <1>2, LockStep, Invariance, PTL DEF Spec

-----------------------------------------------------------------------------
(***************************************************************************)
(* The keys of releases, while no lock session dies.                       *)
(***************************************************************************)
Releasing == {"cancelling", "vacating", "acknowledged"}

(* A cancelled booking was confirmed, so it has seats to release. *)
CancelledInv == \A b \in Booking : status[b] = "CANCELLED" => b \in confirmed

(* Every release, done, under way or late, has the key of the cancellation:
   the command that holds the lock is the only one that can cancel. *)
KeyInv ==
  ~LockLoss =>
    /\ \A b \in Booking : releaseKey[b] # NoKey => releaseKey[b] = cancelKey[b]
    /\ \A w \in Worker :
         /\ worker[w].pc = "cancelling" => status[worker[w].booking] # "CANCELLED"
         /\ worker[w].pc \in {"vacating", "acknowledged"} =>
              worker[w].key = cancelKey[worker[w].booking]
    /\ \A r \in lateRelease : r.key = cancelKey[r.booking]

LEMMA CancelledBy ==
  ASSUME Inv, [Next]_vars, NEW b \in Booking, status[b] # "CANCELLED", status'[b] = "CANCELLED"
  PROVE  \E w \in Worker :
           /\ MarkCancelled(w) /\ worker[w].booking = b
           /\ status[b] \in {"PAID", "TICKET_ISSUED"} /\ cancelKey'[b] = worker[w].key
<1> USE DEF Inv
<1>1. ASSUME NEW d \in Booking, BookingNext(d) PROVE FALSE
  BY <1>1 DEF BookingNext, CreateBooking, MarkTicketIssued, CheckInTicket, TypeOK
<1>2. ASSUME NEW c \in Call, ConfirmPersists(c) PROVE FALSE
  BY <1>2 DEF ConfirmPersists, rowVars
<1>3. ASSUME NEW w \in Worker, MarkPaid(w) \/ MarkExpired(w) PROVE FALSE
  BY <1>3 DEF MarkPaid, MarkExpired, TypeOK
<1>4. ASSUME NEW w \in Worker, MarkCancelled(w)
      PROVE  /\ worker[w].booking = b
             /\ status[b] \in {"PAID", "TICKET_ISSUED"} /\ cancelKey'[b] = worker[w].key
  BY <1>4 DEF MarkCancelled, TypeOK
<1> QED
  BY RowSteps, <1>1, <1>2, <1>3, <1>4

LEMMA CancelledStep == Inv /\ CancelledInv /\ [Next]_vars => CancelledInv'
<1> SUFFICES ASSUME Inv, CancelledInv, [Next]_vars, NEW b \in Booking, status'[b] = "CANCELLED"
             PROVE  b \in confirmed'
  BY DEF CancelledInv
<1>1. TypeOK /\ RowInv
  BY DEF Inv
<1>2. b \in confirmed
  BY <1>1, CancelledBy DEF CancelledInv, RowInv, Valid
<1> QED
  BY <1>1, <1>2, RowStable

(* The steps of a command that is about to release, or has released. *)
LEMMA ReleasingMoves ==
  ASSUME Inv, [Next]_vars, NEW w \in Worker, worker'[w].pc \in Releasing
  PROVE  \/ /\ worker'[w].pc = worker[w].pc
            /\ worker'[w].booking = worker[w].booking /\ worker'[w].key = worker[w].key
         \/ \E b \in Booking, k \in Key : StartCancel(w, b, k)
         \/ \E b \in Booking : ResumeRelease(w, b)
         \/ MarkCancelled(w)
         \/ ReleaseBookedSeats(w)
<1> DEFINE Kept == /\ worker'[w].pc = worker[w].pc
                   /\ worker'[w].booking = worker[w].booking /\ worker'[w].key = worker[w].key
<1> USE DEF Inv
<1>1. worker \in [Worker -> {Resting} \cup Command] /\ worker'[w] # Resting
  BY DEF TypeOK, Releasing, Resting
<1>2. ASSUME NEW v \in Worker, NEW b \in Booking, Start(v, b), v # w PROVE worker'[w] = worker[w]
  BY <1>1, <1>2 DEF Start, StartPayment, StartCancel, ReconcileExpired, ResumeRelease, Begin
<1>3. ASSUME NEW b \in Booking, Start(w, b)
      PROVE  (\E k \in Key : StartCancel(w, b, k)) \/ ResumeRelease(w, b)
  BY <1>1, <1>3 DEF Start, StartPayment, ReconcileExpired, Begin, Releasing
<1>4. ASSUME NEW v \in Worker, Progress(v), v # w PROVE worker'[w] = worker[w]
  BY <1>1, <1>4 DEF Progress, PaymentSucceeds, PaymentFails, MarkPaid, MarkExpired, DropHold,
     MarkCancelled, ReleaseBookedSeats, MarkCancellationSeatsReleased, GiveUp, Goto, Return
<1>5. CASE Progress(w)
  <2>1. ASSUME NEW c \in Call, PaymentSucceeds(w, c) PROVE FALSE
    BY <1>1, <2>1 DEF PaymentSucceeds, Goto, Releasing, Command
  <2>2. CASE MarkExpired(w)
    <3>1. worker[w] \in Command
      BY <1>1, <2>2 DEF MarkExpired, Resting
    <3>2. worker'[w] = [worker[w] EXCEPT !.pc = "dropping"]
      BY <1>1, <2>2, Zenon DEF MarkExpired, Goto, Return
    <3> QED
      BY <3>1, <3>2 DEF Releasing, Command
  <2>3. CASE \/ PaymentFails(w) \/ MarkPaid(w) \/ DropHold(w) \/ MarkCancellationSeatsReleased(w)
             \/ GiveUp(w)
    BY <1>1, <2>3 DEF PaymentFails, MarkPaid, DropHold, MarkCancellationSeatsReleased, GiveUp, Return
  <2> QED
    BY <1>5, <2>1, <2>2, <2>3 DEF Progress
<1>6. ASSUME NEW c \in Call, CallNext(c) PROVE worker'[w] = worker[w]
  <2>1. ASSUME NEW pc \in {"confirmed", "expiring"}, Answer(c, pc), call[c].pc # "idle",
               worker'[w] # worker[w]
        PROVE  FALSE
    <3>1. worker[w].pc = "confirming" /\ worker'[w] = [worker[w] EXCEPT !.pc = pc]
      BY <2>1, NullAssumption DEF Answer, FlightInv, CallInv
    <3>2. worker[w] \in Command
      BY <1>1, <3>1 DEF Resting
    <3> QED
      BY <3>1, <3>2 DEF Command, Releasing
  <2> QED
    BY <1>6, <2>1 DEF CallNext, ConfirmReplays, ConfirmStarts, ConfirmReadsHold,
       ConfirmFindsNoHold, ConfirmPersists, ConfirmEnds
<1>7. ASSUME NEW v \in Worker, LoseLock(v) PROVE Kept
  BY <1>1, <1>7 DEF LoseLock, Command, Resting
<1>8. CASE WorldNext \/ (\E d \in Booking : BookingNext(d)) \/ LateNext \/ UNCHANGED vars
  BY <1>8 DEF WorldNext, AcquireHold, HoldEnds, SetSeatBlocked, HoldExpiryPasses, Departure,
     BookingNext, CreateBooking, MarkTicketIssued, CheckInTicket, LateNext, PaymentArrivesLate,
     ReleaseArrivesLate, vars
<1> QED
  BY <1>2, <1>3, <1>4, <1>5, <1>6, <1>7, <1>8, Zenon DEF Next

(* Who records the key of a release, and who leaves a release request behind. *)
LEMMA ReleasedBy ==
  ASSUME Inv, [Next]_vars, NEW b \in Booking, releaseKey'[b] # releaseKey[b]
  PROVE  \/ \E w \in Worker : /\ worker[w].pc = "vacating" /\ worker[w].booking = b
                              /\ releaseKey'[b] = worker[w].key
         \/ \E r \in lateRelease : r.booking = b /\ releaseKey'[b] = r.key
<1> USE DEF Inv
<1>1. ASSUME NEW w \in Worker, ReleaseBookedSeats(w)
      PROVE  worker[w].pc = "vacating" /\ worker[w].booking = b /\ releaseKey'[b] = worker[w].key
  <2>1. worker[w].pc = "vacating" /\ worker[w].booking \in Booking /\ worker[w].key \in Key
    BY <1>1, WorkerType DEF ReleaseBookedSeats
  <2>2. Release(worker[w].booking, worker[w].key)
    BY <1>1 DEF ReleaseBookedSeats
  <2> QED
    BY <2>1, <2>2, ReleaseEffect
<1>2. ASSUME NEW r \in lateRelease, ReleaseArrivesLate(r)
      PROVE  r.booking = b /\ releaseKey'[b] = r.key
  <2>1. r.booking \in Booking /\ r.key \in Key /\ Release(r.booking, r.key)
    BY <1>2 DEF TypeOK, Request, ReleaseArrivesLate
  <2> QED
    BY <2>1, ReleaseEffect
<1>3. ASSUME \/ \E S \in SUBSET Seat : SetSeatBlocked(S)
             \/ \E d \in Booking, h \in Hold : CreateBooking(d, h)
             \/ \E c \in Call : ConfirmPersists(c)
      PROVE  FALSE
  BY <1>3 DEF SetSeatBlocked, CreateBooking, ConfirmPersists, seatVars
<1> QED
  BY SeatSteps, <1>1, <1>2, <1>3

LEMMA LeftBehindBy ==
  ASSUME [Next]_vars, NEW r \in lateRelease', r \notin lateRelease
  PROVE  \E w \in Worker :
           /\ worker[w].pc = "vacating" /\ UNCHANGED cancelKey
           /\ r.booking = worker[w].booking /\ r.key = worker[w].key
<1>1. ASSUME NEW w \in Worker, GiveUp(w)
      PROVE  /\ worker[w].pc = "vacating" /\ UNCHANGED cancelKey
             /\ r.booking = worker[w].booking /\ r.key = worker[w].key
  BY <1>1 DEF GiveUp, rowVars
<1>2. ASSUME NEW w \in Worker, Progress(w) \/ LoseLock(w), ~GiveUp(w) PROVE FALSE
  BY <1>2 DEF Progress, LoseLock, PaymentSucceeds, PaymentFails, MarkPaid, MarkExpired,
     DropHold, MarkCancelled, ReleaseBookedSeats, MarkCancellationSeatsReleased
<1>3. ASSUME NEW c \in Call, CallNext(c) PROVE FALSE
  BY <1>3 DEF CallNext, ConfirmReplays, ConfirmStarts, ConfirmReadsHold, ConfirmFindsNoHold,
     ConfirmPersists, ConfirmEnds
<1>4. ASSUME NEW w \in Worker, NEW b \in Booking, Start(w, b) PROVE FALSE
  BY <1>4 DEF Start, StartPayment, StartCancel, ReconcileExpired, ResumeRelease
<1>5. ASSUME WorldNext \/ (\E d \in Booking : BookingNext(d)) \/ LateNext \/ UNCHANGED vars
      PROVE  FALSE
  BY <1>5 DEF WorldNext, AcquireHold, HoldEnds, SetSeatBlocked, HoldExpiryPasses, Departure,
     BookingNext, CreateBooking, MarkTicketIssued, CheckInTicket, LateNext, PaymentArrivesLate,
     ReleaseArrivesLate, vars
<1> QED
  BY <1>1, <1>2, <1>3, <1>4, <1>5 DEF Next

LEMMA KeyStep == Inv /\ LockInv /\ KeyInv /\ [Next]_vars => KeyInv'
<1> SUFFICES ASSUME Inv, LockInv, KeyInv, [Next]_vars, ~LockLoss
             PROVE  /\ \A b \in Booking : releaseKey'[b] # NoKey => releaseKey'[b] = cancelKey'[b]
                    /\ \A w \in Worker :
                         /\ worker'[w].pc = "cancelling" => status'[worker'[w].booking] # "CANCELLED"
                         /\ worker'[w].pc \in {"vacating", "acknowledged"} =>
                              worker'[w].key = cancelKey'[worker'[w].booking]
                    /\ \A r \in lateRelease' : r.key = cancelKey'[r.booking]
  BY DEF KeyInv
<1>1. TypeOK /\ RowInv /\ SeatInv /\ FlightInv /\ worker \in [Worker -> {Resting} \cup Command]
  BY DEF Inv, TypeOK
(* A release under way or late is of a booking that stays cancelled as it is. *)
<1>2. ASSUME NEW w \in Worker, worker[w].pc \in {"vacating", "acknowledged"}
      PROVE  /\ worker[w].booking \in Booking
             /\ worker[w].key = cancelKey[worker[w].booking]
             /\ cancelKey'[worker[w].booking] = cancelKey[worker[w].booking]
  BY <1>1, <1>2, WorkerType, RowStable DEF KeyInv, FlightInv, WorkerInv
<1>3. ASSUME NEW r \in lateRelease
      PROVE  r.booking \in Booking /\ r.key = cancelKey[r.booking]
             /\ cancelKey'[r.booking] = cancelKey[r.booking]
  BY <1>1, RowStable DEF KeyInv, FlightInv, LateInv, TypeOK, Request
<1>4. ASSUME NEW b \in Booking, releaseKey'[b] # NoKey PROVE releaseKey'[b] = cancelKey'[b]
  <2>1. CASE releaseKey'[b] # releaseKey[b]
    BY <1>2, <1>3, <2>1, ReleasedBy
  <2>2. CASE releaseKey'[b] = releaseKey[b]
    <3>1. status[b] = "CANCELLED"
      BY <1>1, <1>4, <2>2 DEF SeatInv, OnlyCancelledIsReleased
    <3> QED
      BY <1>1, <1>4, <2>2, <3>1, RowStable DEF KeyInv
  <2> QED
    BY <2>1, <2>2
<1>5. ASSUME NEW w \in Worker, MarkCancelled(w), worker'[w].pc \in Releasing
      PROVE  /\ worker'[w].pc = "vacating"
             /\ worker'[w].key = cancelKey'[worker'[w].booking]
  <2>1. PICK b \in Booking : b = worker[w].booking
    BY <1>1, <1>5, WorkerType DEF MarkCancelled
  <2>2. /\ worker[w] \in Command /\ worker[w].pc = "cancelling"
        /\ status[b] # "CANCELLED" /\ status'[b] = "CANCELLED"
        /\ worker' = [worker EXCEPT ![w].pc = "vacating"]
    BY <1>1, <1>5, <2>1 DEF MarkCancelled, Goto, Return, KeyInv, Resting, Releasing
  <2>3. status[b] \in {"PAID", "TICKET_ISSUED"}
    BY <2>2, CancelledBy
  <2>4. cancelKey'[b] = worker[w].key
    BY <1>1, <1>5, <2>1, <2>3 DEF MarkCancelled, TypeOK
  <2> QED
    BY <1>1, <2>1, <2>2, <2>4 DEF Command
<1>6. ASSUME NEW w \in Worker, worker'[w].pc = "cancelling"
      PROVE  status'[worker'[w].booking] # "CANCELLED"
  <2>1. CASE /\ worker'[w].pc = worker[w].pc
             /\ worker'[w].booking = worker[w].booking /\ worker'[w].key = worker[w].key
    <3>1. PICK b \in Booking : b = worker[w].booking
      BY <1>1, <1>6, <2>1, WorkerType
    <3>2. status[b] # "CANCELLED" /\ worker[w] # Resting
      BY <1>6, <2>1, <3>1 DEF KeyInv, Resting
    <3>3. SUFFICES ASSUME status'[b] = "CANCELLED" PROVE FALSE
      BY <2>1, <3>1
    <3>4. PICK v \in Worker : MarkCancelled(v) /\ worker[v].booking = b
      BY <3>2, <3>3, CancelledBy
    <3>5. v = w
      BY <3>1, <3>2, <3>4 DEF LockInv, MarkCancelled, Resting
    <3> QED
      BY <1>5, <1>6, <3>4, <3>5 DEF Releasing
  <2>2. ASSUME NEW b \in Booking, NEW k \in Key, StartCancel(w, b, k)
        PROVE  status'[worker'[w].booking] # "CANCELLED"
    BY <1>1, <2>2 DEF StartCancel, Begin, rowVars
  <2>3. ASSUME NEW b \in Booking, ResumeRelease(w, b) PROVE FALSE
    BY <1>1, <1>6, <2>3 DEF ResumeRelease, Begin
  <2>4. CASE ReleaseBookedSeats(w)
    <3>1. worker[w] \in Command /\ worker'[w] = [worker[w] EXCEPT !.pc = "acknowledged"]
      BY <1>1, <2>4 DEF ReleaseBookedSeats, Goto, Resting
    <3> QED
      BY <1>6, <3>1 DEF Command
  <2> QED
    BY <1>5, <1>6, <2>1, <2>2, <2>3, <2>4, ReleasingMoves DEF Releasing
<1>7. ASSUME NEW w \in Worker, worker'[w].pc \in {"vacating", "acknowledged"}
      PROVE  worker'[w].key = cancelKey'[worker'[w].booking]
  <2>1. CASE /\ worker'[w].pc = worker[w].pc
             /\ worker'[w].booking = worker[w].booking /\ worker'[w].key = worker[w].key
    BY <1>2, <1>7, <2>1
  <2>2. ASSUME NEW b \in Booking, NEW k \in Key, StartCancel(w, b, k) PROVE FALSE
    BY <1>1, <1>7, <2>2 DEF StartCancel, Begin
  <2>3. ASSUME NEW b \in Booking, ResumeRelease(w, b)
        PROVE  worker'[w].key = cancelKey'[worker'[w].booking]
    BY <1>1, <2>3 DEF ResumeRelease, Begin, rowVars
  <2>4. CASE ReleaseBookedSeats(w)
    <3>1. /\ worker[w] \in Command /\ worker[w].pc = "vacating"
          /\ worker'[w] = [worker[w] EXCEPT !.pc = "acknowledged"]
      BY <1>1, <2>4 DEF ReleaseBookedSeats, Goto, Resting
    <3>2. worker'[w].key = worker[w].key /\ worker'[w].booking = worker[w].booking
      BY <3>1 DEF Command
    <3> QED
      BY <1>2, <3>1, <3>2
  <2> QED
    BY <1>5, <1>7, <2>1, <2>2, <2>3, <2>4, ReleasingMoves DEF Releasing
<1>8. ASSUME NEW r \in lateRelease' PROVE r.key = cancelKey'[r.booking]
  BY <1>2, <1>3, LeftBehindBy
<1> QED
  BY <1>4, <1>6, <1>7, <1>8

(* As long as the lock is held, the release of a cancelled booking is never
   refused: the booking has all its seats and no release on record, or the one
   on record has the key of the cancellation, which every release, resumed,
   repeated or late, is sent with (cancelBookingLocked, releaseCancelledSeats,
   releaseBookedSeats of seat-state.repository.ts). *)
THEOREM ReleasesGoThrough == Spec => []ReleasesAreAccepted
<1>1. Init => LockInv /\ CancelledInv /\ KeyInv
  BY DEF Init, LockInv, CancelledInv, KeyInv, Resting, Paying
<1>2. Inv /\ CancelledInv /\ KeyInv => ReleasesAreAccepted
  <2> SUFFICES ASSUME Inv, CancelledInv, KeyInv, ~LockLoss, NEW b \in Booking, status[b] = "CANCELLED"
               PROVE  \/ Owns(b) /\ releaseKey[b] = NoKey
                      \/ releaseKey[b] = cancelKey[b]
    BY DEF ReleasesAreAccepted
  <2>1. b \in confirmed
    BY DEF CancelledInv
  <2>2. releaseKey[b] = NoKey => Owns(b)
    BY <2>1 DEF Inv, SeatInv
  <2> QED
    BY <2>2 DEF KeyInv
<1> QED
  BY <1>1, <1>2, LockStep, CancelledStep, KeyStep, Invariance, PTL DEF Spec

-----------------------------------------------------------------------------
(***************************************************************************)
(* Checkout implements the booking lifecycle.                              *)
(***************************************************************************)
ChargedBookings == {b \in Booking : Charged(b)}
SeatedBookings  == {b \in Booking : Owns(b)}

(* A step that keeps the attempts, or the seats and claims, keeps the image. *)
LEMMA ChargedFrame ==
  ASSUME UNCHANGED attempts
  PROVE  UNCHANGED ChargedBookings
  BY DEF ChargedBookings, Charged

LEMMA SeatedFrame ==
  ASSUME UNCHANGED <<owner, claim>>
  PROVE  UNCHANGED SeatedBookings
  BY DEF SeatedBookings, Owns

(* An attempt charges its booking or nobody. *)
LEMMA ChargedEffect ==
  ASSUME NEW r, r.booking \in Booking, NEW o, attempts' = Attempted(r, o)
  PROVE  UNCHANGED ChargedBookings \/ ChargedBookings' = ChargedBookings \cup {r.booking}
<1>1. CASE attempts' = attempts
  BY <1>1, ChargedFrame
<1>2. CASE attempts' = attempts \cup {[booking |-> r.booking, key |-> r.key, outcome |-> o]}
  <2>1. ASSUME NEW b \in Booking
        PROVE  Charged(b)' <=> Charged(b) \/ (b = r.booking /\ o = "SUCCEEDED")
    <3> DEFINE a == [booking |-> r.booking, key |-> r.key, outcome |-> o]
    <3>1. a.booking = r.booking /\ a.outcome = o
      OBVIOUS
    <3>2. attempts' = attempts \cup {a}
      BY <1>2
    <3> HIDE DEF a
    <3> QED
      BY <3>1, <3>2 DEF Charged
  <2> QED
    BY <2>1 DEF ChargedBookings
<1> QED
  BY <1>1, <1>2 DEF Attempted

LEMMA SeatedByConfirmation ==
  ASSUME Inv, NEW c \in Call, ConfirmPersists(c)
  PROVE  /\ call[c].booking \in ChargedBookings
         /\ SeatedBookings' = SeatedBookings \cup {call[c].booking}
<1> USE DEF Inv
<1>0. PICK d \in Booking : d = call[c].booking
  BY CallType DEF ConfirmPersists
<1>1. Charged(d)
  BY <1>0 DEF ConfirmPersists, FlightInv, CallInv
<1>2. /\ claim[d] # {} /\ \A s \in claim[d] : owner[s] \in {Free, d}
      /\ owner' = [s \in Seat |-> IF s \in claim[d] THEN d ELSE owner[s]]
      /\ claim' = claim /\ \A b \in Booking : claim[b] \subseteq Seat
  BY <1>0 DEF ConfirmPersists, Ledger!Take, TypeOK
<1>3. ASSUME NEW b \in Booking PROVE Owns(b)' <=> Owns(b) \/ b = d
  <2>1. CASE b = d
    BY <1>2, <2>1 DEF Owns
  <2>2. CASE b # d
    <3>1. \A s \in Seat : owner'[s] = b <=> owner[s] = b
      BY <1>2, <2>2, NullAssumption
    <3> QED
      BY <1>2, <2>2, <3>1 DEF Owns
  <2> QED
    BY <2>1, <2>2
<1> QED
  BY <1>0, <1>1, <1>3 DEF ChargedBookings, SeatedBookings

LEMMA UnseatedByRelease ==
  ASSUME Inv, NEW d \in Booking, NEW k \in Key, Release(d, k)
  PROVE  UNCHANGED SeatedBookings \/ SeatedBookings' = SeatedBookings \ {d}
<1> USE DEF Inv
<1>1. CASE Ledger!Vacate(d)
  <2>1. /\ claim[d] # {} /\ \A s \in claim[d] : owner[s] = d
        /\ owner' = [s \in Seat |-> IF s \in claim[d] THEN Free ELSE owner[s]]
        /\ claim' = claim /\ \A b \in Booking : claim[b] \subseteq Seat
    BY <1>1 DEF Ledger!Vacate, TypeOK
  <2>2. ASSUME NEW b \in Booking PROVE Owns(b)' <=> Owns(b) /\ b # d
    <3>1. CASE b = d
      BY <2>1, <3>1, NullAssumption DEF Owns
    <3>2. CASE b # d
      <4>1. \A s \in Seat : owner'[s] = b <=> owner[s] = b
        BY <2>1, <3>2, NullAssumption
      <4> QED
        BY <2>1, <3>2, <4>1 DEF Owns
    <3> QED
      BY <3>1, <3>2
  <2> QED
    BY <2>2 DEF SeatedBookings
<1>2. CASE UNCHANGED ledgerVars
  BY <1>2, SeatedFrame DEF ledgerVars
<1> QED
  BY <1>1, <1>2 DEF Release

LEMMA LifecycleStep ==
  ASSUME Inv, [Next]_vars
  PROVE  [Lifecycle!Next]_<<status, ChargedBookings, SeatedBookings>>
<1> DEFINE Goal == [Lifecycle!Next]_<<status, ChargedBookings, SeatedBookings>>
<1> USE DEF Inv
<1>1. CASE UNCHANGED <<status, attempts, owner, claim>>
  BY <1>1, ChargedFrame, SeatedFrame
<1>2. ASSUME NEW d \in Booking, BookingNext(d) PROVE Goal
  <2>1. ASSUME NEW h \in Hold, CreateBooking(d, h) PROVE Goal
    <3>1. /\ status[d] = "none" /\ status' = [status EXCEPT ![d] = "PENDING_PAYMENT"]
          /\ UNCHANGED <<owner, attempts>> /\ holdSeats[h] # {}
          /\ claim[d] = {} /\ claim' = [claim EXCEPT ![d] = holdSeats[h]]
      BY <2>1 DEF CreateBooking, Ledger!Claim, paymentVars
    <3>2. ASSUME NEW b \in Booking PROVE Owns(b)' <=> Owns(b)
      <4>1. CASE b = d
        <5>1. holdSeats[h] \subseteq Seat /\ claim'[d] = holdSeats[h]
          BY <3>1 DEF TypeOK
        <5>2. \A s \in Seat : owner[s] # d
          BY <3>1 DEF SeatInv
        <5> QED
          BY <3>1, <4>1, <5>1, <5>2 DEF Owns
      <4>2. CASE b # d
        BY <3>1, <4>2 DEF Owns, TypeOK
      <4> QED
        BY <4>1, <4>2
    <3>3. UNCHANGED SeatedBookings
      BY <3>2 DEF SeatedBookings
    <3>4. Lifecycle!Create(d)
      BY <3>1, <3>3, ChargedFrame DEF Lifecycle!Create, Lifecycle!Move, ChargedBookings, SeatedBookings
    <3> QED
      BY <3>4 DEF Lifecycle!Next
  <2>2. CASE MarkTicketIssued(d)
    <3>1. UNCHANGED <<ChargedBookings, SeatedBookings>>
      BY <2>2, ChargedFrame, SeatedFrame DEF MarkTicketIssued, paymentVars, ledgerVars
    <3>2. Lifecycle!Issue(d)
      BY <2>2, <3>1 DEF MarkTicketIssued, Lifecycle!Issue, Lifecycle!Move, ChargedBookings, SeatedBookings
    <3> QED
      BY <3>2 DEF Lifecycle!Next
  <2>3. CASE CheckInTicket(d)
    <3>1. UNCHANGED <<ChargedBookings, SeatedBookings>>
      BY <2>3, ChargedFrame, SeatedFrame DEF CheckInTicket, paymentVars, ledgerVars
    <3>2. Lifecycle!CheckIn(d)
      BY <2>3, <3>1 DEF CheckInTicket, Lifecycle!CheckIn, Lifecycle!Move, ChargedBookings, SeatedBookings
    <3> QED
      BY <3>2 DEF Lifecycle!Next
  <2> QED
    BY <1>2, <2>1, <2>2, <2>3 DEF BookingNext
<1>3. ASSUME NEW w \in Worker, MarkPaid(w) \/ MarkExpired(w) \/ MarkCancelled(w) PROVE Goal
  <2>1. PICK d \in Booking : d = worker[w].booking
    BY <1>3, WorkerType DEF MarkPaid, MarkExpired, MarkCancelled
  <2>2. UNCHANGED <<ChargedBookings, SeatedBookings>>
    BY <1>3, ChargedFrame, SeatedFrame DEF MarkPaid, MarkExpired, MarkCancelled, paymentVars, ledgerVars
  <2>3. CASE MarkPaid(w) /\ status[d] = "PENDING_PAYMENT"
    <3>1. d \in SeatedBookings
      <4>1. d \in confirmed
        BY <2>1, <2>3 DEF MarkPaid, FlightInv, WorkerInv
      <4>2. d \notin vacated
        BY <2>3 DEF SeatInv, OnlyCancelledIsReleased
      <4> QED
        BY <4>1, <4>2 DEF SeatInv, SeatedBookings
    <3>2. Lifecycle!Pay(d)
      BY <2>1, <2>2, <2>3, <3>1 DEF MarkPaid, Lifecycle!Pay, Lifecycle!Move, ChargedBookings, SeatedBookings
    <3> QED
      BY <3>2 DEF Lifecycle!Next
  <2>4. CASE MarkExpired(w) /\ status[d] = "PENDING_PAYMENT"
    <3>1. Lifecycle!Expire(d)
      BY <2>1, <2>2, <2>4 DEF MarkExpired, Lifecycle!Expire, Lifecycle!Move, ChargedBookings, SeatedBookings
    <3> QED
      BY <3>1 DEF Lifecycle!Next
  <2>5. CASE MarkCancelled(w) /\ status[d] \in {"PAID", "TICKET_ISSUED"}
    <3>1. Lifecycle!Cancel(d)
      BY <2>1, <2>2, <2>5 DEF MarkCancelled, Lifecycle!Cancel, Lifecycle!Move, ChargedBookings, SeatedBookings
    <3> QED
      BY <3>1 DEF Lifecycle!Next
  <2> QED
    BY <1>3, <2>1, <2>2, <2>3, <2>4, <2>5 DEF MarkPaid, MarkExpired, MarkCancelled
<1>4. ASSUME NEW r, r.booking \in Booking, status[r.booking] # "none", NEW o,
             attempts' = Attempted(r, o), UNCHANGED <<status, owner, claim>>
      PROVE  Goal
  <2>1. CASE ChargedBookings' = ChargedBookings \cup {r.booking}
    <3>1. Lifecycle!Charge(r.booking)
      BY <1>4, <2>1, SeatedFrame DEF Lifecycle!Charge, ChargedBookings, SeatedBookings
    <3> QED
      BY <1>4, <3>1 DEF Lifecycle!Next
  <2> QED
    BY <1>4, <2>1, ChargedEffect, SeatedFrame
<1>5. ASSUME NEW d \in Booking, NEW k \in Key, Release(d, k), status[d] = "CANCELLED",
             UNCHANGED <<status, attempts>>
      PROVE  Goal
  <2>1. CASE SeatedBookings' = SeatedBookings \ {d}
    <3>1. Lifecycle!GiveBack(d)
      BY <1>5, <2>1, ChargedFrame DEF Lifecycle!GiveBack, ChargedBookings, SeatedBookings
    <3> QED
      BY <3>1 DEF Lifecycle!Next
  <2> QED
    BY <1>5, <2>1, UnseatedByRelease, ChargedFrame
<1>6. ASSUME NEW w \in Worker, Progress(w) PROVE Goal
  <2>1. CASE (\E c \in Call : PaymentSucceeds(w, c)) \/ PaymentFails(w)
    <3>1. /\ worker[w].pc = "paying" /\ \E o \in Outcome : attempts' = Attempted(PaymentRequest(w), o)
          /\ UNCHANGED <<status, owner, claim>>
      BY <2>1 DEF PaymentSucceeds, PaymentFails, Outcome, rowVars, ledgerVars
    <3>2. PaymentRequest(w).booking \in Booking /\ status[PaymentRequest(w).booking] # "none"
      BY <3>1, WorkerType DEF PaymentRequest, FlightInv, WorkerInv
    <3> QED
      BY <1>4, <3>1, <3>2
  <2>2. CASE ReleaseBookedSeats(w)
    <3>1. /\ worker[w].pc = "vacating" /\ Release(worker[w].booking, worker[w].key)
          /\ UNCHANGED <<status, attempts>>
      BY <2>2 DEF ReleaseBookedSeats, rowVars, paymentVars
    <3>2. worker[w].booking \in Booking /\ worker[w].key \in Key /\ status[worker[w].booking] = "CANCELLED"
      BY <3>1, WorkerType DEF FlightInv, WorkerInv
    <3> QED
      BY <1>5, <3>1, <3>2
  <2>3. CASE DropHold(w) \/ MarkCancellationSeatsReleased(w) \/ GiveUp(w)
    BY <1>1, <2>3 DEF DropHold, MarkCancellationSeatsReleased, GiveUp, rowVars, paymentVars, ledgerVars
  <2> QED
    BY <1>3, <1>6, <2>1, <2>2, <2>3 DEF Progress
<1>7. ASSUME NEW c \in Call, CallNext(c) PROVE Goal
  <2>1. CASE ConfirmPersists(c)
    <3>1. UNCHANGED <<status, attempts>> /\ call[c].booking \in Booking
      BY <2>1, CallType DEF ConfirmPersists, rowVars, paymentVars
    <3>2. Lifecycle!TakeSeats(call[c].booking)
      BY <2>1, <3>1, SeatedByConfirmation, ChargedFrame DEF Lifecycle!TakeSeats, ChargedBookings, SeatedBookings
    <3> QED
      BY <3>1, <3>2 DEF Lifecycle!Next
  <2>2. CASE ~ConfirmPersists(c)
    BY <1>1, <1>7, <2>2 DEF CallNext, ConfirmReplays, ConfirmStarts, ConfirmReadsHold,
       ConfirmFindsNoHold, ConfirmEnds, rowVars, paymentVars, ledgerVars
  <2> QED
    BY <2>1, <2>2
<1>8. CASE LateNext
  <2>1. ASSUME NEW r \in latePay, NEW o \in Outcome, PaymentArrivesLate(r, o) PROVE Goal
    <3>1. r.booking \in Booking /\ status[r.booking] # "none"
      BY DEF TypeOK, Request, FlightInv, LateInv
    <3> QED
      BY <1>4, <2>1, <3>1 DEF PaymentArrivesLate, rowVars, ledgerVars
  <2>2. ASSUME NEW r \in lateRelease, ReleaseArrivesLate(r) PROVE Goal
    <3>1. r.booking \in Booking /\ r.key \in Key /\ status[r.booking] = "CANCELLED"
      BY DEF TypeOK, Request, FlightInv, LateInv
    <3> QED
      BY <1>5, <2>2, <3>1 DEF ReleaseArrivesLate, rowVars, paymentVars
  <2> QED
    BY <1>8, <2>1, <2>2 DEF LateNext
<1>9. ASSUME NEW S \in SUBSET Seat, SetSeatBlocked(S) PROVE Goal
  <2>1. /\ UNCHANGED <<status, attempts, claim>>
        /\ \A s \in Seat, b \in Booking : owner'[s] = b <=> owner[s] = b
    BY <1>9, NullAssumption DEF SetSeatBlocked, Ledger!Block, Ledger!Unblock, rowVars, paymentVars, TypeOK
  <2>2. \A b \in Booking : Owns(b)' <=> Owns(b)
    BY <2>1 DEF Owns, TypeOK
  <2>3. UNCHANGED SeatedBookings
    BY <2>2 DEF SeatedBookings
  <2> QED
    BY <2>1, <2>3, ChargedFrame
<1>10. CASE WorldNext
  BY <1>1, <1>9, <1>10 DEF WorldNext, AcquireHold, HoldEnds, HoldExpiryPasses, Departure,
     rowVars, paymentVars, ledgerVars
<1>11. ASSUME NEW w \in Worker, (\E b \in Booking : Start(w, b)) \/ LoseLock(w) PROVE Goal
  BY <1>1, <1>11 DEF Start, StartPayment, StartCancel, ReconcileExpired, ResumeRelease, LoseLock,
     rowVars, paymentVars, ledgerVars
<1>12. CASE UNCHANGED vars
  BY <1>1, <1>12 DEF vars, rowVars, paymentVars, ledgerVars
<1> QED
  BY <1>2, <1>6, <1>7, <1>8, <1>10, <1>11, <1>12 DEF Next

(* Every behaviour of checkout, with its services, locks, lost and late
   requests, is a behaviour of the booking lifecycle: paid only while seated,
   seated only once charged, unseated only once cancelled, and final when
   expired or cancelled (booking.service.ts, seat-inventory.service.ts,
   payment.service.ts). *)
THEOREM CheckoutImplementsLifecycle == Spec => ImplementsLifecycle
<1>1. Init => Lifecycle!Init
  <2> SUFFICES ASSUME Init PROVE Lifecycle!Init
    OBVIOUS
  <2>1. \A b \in Booking : ~Charged(b) /\ ~Owns(b)
    BY DEF Init, Ledger!Init, Charged, Owns
  <2> QED
    BY <2>1 DEF Init, Lifecycle!Init
<1>2. Inv /\ [Next]_vars => [Lifecycle!Next]_Lifecycle!lifecycleVars
  BY LifecycleStep DEF Lifecycle!lifecycleVars, ChargedBookings, SeatedBookings
<1> QED
  BY <1>1, <1>2, Invariance, PTL DEF Spec, ImplementsLifecycle, Lifecycle!Spec

=============================================================================
