------------------------------- MODULE CheckIn -------------------------------
(***************************************************************************)
(* Ticket references and check-in at boarding, in booking-service.  Staff  *)
(* check the tickets of one booking in, at several desks and with retries, *)
(* while the ticket worker registers the tickets and the customer cancels. *)
(*                                                                         *)
(* A check-in's SELECT ... FOR UPDATE may wait for the booking's row.  The *)
(* row it then locks is read afresh; the check-ins it joins are those of   *)
(* the time it began, so that the check-in of another desk may be missed.  *)
(***************************************************************************)
EXTENDS Naturals

CONSTANTS
  Ticket,      \* the tickets of the booking
  Desk,        \* check-in requests in flight
  CheckInKey,  \* an actor and an idempotency key
  NoTicket, NoKey, NoDesk

ASSUME BoardingNullAssumption == NoKey \notin CheckInKey /\ NoDesk \notin Desk

VARIABLES
  bookingStatus,  \* booking.bookings.status
  ticketRef,      \* booking.issued_ticket_refs
  checkIn,        \* booking.ticket_check_ins: the key of each ticket's check-in
  checkInRows,    \* number of TICKET_ISSUED -> CHECKED_IN rows in status_history
  rowLock,        \* the request that holds the row locks
  desk            \* what each request does, its ticket and key, and what its
                  \* SELECT has read

boardingRows == <<bookingStatus, ticketRef, checkIn, checkInRows>>
boardingVars == <<boardingRows, rowLock, desk>>

NoCheckIn == [pc |-> "idle", ticket |-> NoTicket, key |-> NoKey, seen |-> FALSE,
              status |-> "PAID"]

BookingStatus == {"PAID", "TICKET_ISSUED", "CHECKED_IN", "CANCELLED"}

BoardingTypeOK ==
  /\ bookingStatus \in BookingStatus
  /\ ticketRef \subseteq Ticket
  /\ checkIn \in [Ticket -> CheckInKey \cup {NoKey}]
  /\ checkInRows \in Nat
  /\ rowLock \in Desk \cup {NoDesk}
  /\ desk \in [Desk -> [pc : {"idle", "select", "decide", "transitioned", "unchanged", "refused",
                              "conflict", "failed"},
                        ticket : Ticket \cup {NoTicket}, key : CheckInKey \cup {NoKey},
                        seen : BOOLEAN, status : BookingStatus]]

BoardingInit ==
  /\ bookingStatus = "PAID"
  /\ ticketRef = {}
  /\ checkIn = [t \in Ticket |-> NoKey]
  /\ checkInRows = 0
  /\ rowLock = NoDesk
  /\ desk = [d \in Desk |-> NoCheckIn]

-----------------------------------------------------------------------------
(* The worker registers all tickets; again once they are. *)
markTicketIssued ==
  /\ rowLock = NoDesk
  /\ bookingStatus = "PAID"
  /\ bookingStatus' = "TICKET_ISSUED"
  /\ ticketRef' = Ticket
  /\ UNCHANGED <<checkIn, checkInRows, rowLock, desk>>

markCancelled ==
  /\ rowLock = NoDesk
  /\ bookingStatus \in {"PAID", "TICKET_ISSUED"}
  /\ bookingStatus' = "CANCELLED"
  /\ UNCHANGED <<ticketRef, checkIn, checkInRows, rowLock, desk>>

(* The advisory lock on the actor and the key, held to the end. *)
KeyIsFree(k) == \A d \in Desk : desk[d].pc \in {"select", "decide"} => desk[d].key # k

(* The statement begins, and takes its snapshot. *)
checkInTicket(d, t, k) ==
  /\ desk[d] = NoCheckIn
  /\ KeyIsFree(k)
  /\ t \in ticketRef
  /\ desk' = [desk EXCEPT ![d] = [NoCheckIn EXCEPT !.pc = "select", !.ticket = t, !.key = k,
                                                   !.seen = checkIn[t] # NoKey]]
  /\ UNCHANGED <<boardingRows, rowLock>>

(* Mutation: FOR UPDATE OF ticket_ref alone. *)
LockTicketOnly(d) ==
  /\ desk[d].pc = "select"
  /\ \A e \in Desk : desk[e].pc = "decide" => desk[e].ticket # desk[d].ticket
  /\ desk' = [desk EXCEPT ![d].pc = "decide", ![d].status = bookingStatus]
  /\ UNCHANGED <<boardingRows, rowLock>>

(* FOR UPDATE OF ticket_ref, booking, which reads the status anew: who has the
   booking's row has the ticket's. *)
LockRows(d) ==
  /\ desk[d].pc = "select"
  /\ rowLock = NoDesk
  /\ rowLock' = d
  /\ desk' = [desk EXCEPT ![d].pc = "decide", ![d].status = bookingStatus]
  /\ UNCHANGED boardingRows

Conclude(d, answer) ==
  /\ desk' = [desk EXCEPT ![d].pc = answer, ![d].status = "PAID", ![d].seen = FALSE]
  /\ rowLock' = IF rowLock = d THEN NoDesk ELSE rowLock

(* Mutation: the key is looked up without the ticket it was spent on. *)
ReplayAny(d) ==
  /\ desk[d].pc = "decide"
  /\ \E t \in Ticket : checkIn[t] = desk[d].key
  /\ Conclude(d, "transitioned")
  /\ UNCHANGED boardingRows

(* The key has a check-in: of this ticket, or of another. *)
Replay(d) ==
  /\ desk[d].pc = "decide"
  /\ \E t \in Ticket :
       /\ checkIn[t] = desk[d].key
       /\ Conclude(d, IF t = desk[d].ticket THEN "transitioned" ELSE "conflict")
  /\ UNCHANGED boardingRows

KeyIsNew(d) == \A t \in Ticket : checkIn[t] # desk[d].key

RefuseStatus(d) ==
  /\ desk[d].pc = "decide"
  /\ KeyIsNew(d)
  /\ desk[d].status \notin {"TICKET_ISSUED", "CHECKED_IN"}
  /\ Conclude(d, "refused")
  /\ UNCHANGED boardingRows

IsCheckedIn(d) ==
  /\ desk[d].pc = "decide"
  /\ KeyIsNew(d)
  /\ desk[d].status \in {"TICKET_ISSUED", "CHECKED_IN"}
  /\ desk[d].seen
  /\ Conclude(d, "unchanged")
  /\ UNCHANGED boardingRows

(* INSERT, UPDATE ... WHERE status = 'TICKET_ISSUED', history: one transaction. *)
InsertCheckIn(d) ==
  LET t == desk[d].ticket IN
  /\ desk[d].pc = "decide"
  /\ KeyIsNew(d)
  /\ desk[d].status \in {"TICKET_ISSUED", "CHECKED_IN"}
  /\ ~desk[d].seen
  /\ checkIn[t] = NoKey
  /\ checkIn' = [checkIn EXCEPT ![t] = desk[d].key]
  /\ bookingStatus' = IF desk[d].status = "TICKET_ISSUED" /\ bookingStatus = "TICKET_ISSUED"
                       THEN "CHECKED_IN" ELSE bookingStatus
  /\ checkInRows' = IF desk[d].status = "TICKET_ISSUED" THEN checkInRows + 1 ELSE checkInRows
  /\ Conclude(d, "transitioned")
  /\ UNCHANGED ticketRef

(* The ticket has been checked in since the snapshot: the primary key refuses
   the row, and the request fails with an error that nobody maps. *)
InsertCheckInFails(d) ==
  /\ desk[d].pc = "decide"
  /\ KeyIsNew(d)
  /\ desk[d].status \in {"TICKET_ISSUED", "CHECKED_IN"}
  /\ ~desk[d].seen
  /\ checkIn[desk[d].ticket] # NoKey
  /\ Conclude(d, "failed")
  /\ UNCHANGED boardingRows

(* The answer goes out; or the process dies and its transaction with it. *)
EndCheckIn(d) ==
  /\ desk[d].pc # "idle"
  /\ desk' = [desk EXCEPT ![d] = NoCheckIn]
  /\ rowLock' = IF rowLock = d THEN NoDesk ELSE rowLock
  /\ UNCHANGED boardingRows

-----------------------------------------------------------------------------
BoardingNext ==
  \/ markTicketIssued
  \/ markCancelled
  \/ \E d \in Desk :
       \/ \E t \in Ticket, k \in CheckInKey : checkInTicket(d, t, k)
       \/ LockRows(d)
       \/ Replay(d)
       \/ RefuseStatus(d)
       \/ IsCheckedIn(d)
       \/ InsertCheckIn(d)
       \/ InsertCheckInFails(d)
       \/ EndCheckIn(d)

BoardingSpec == BoardingInit /\ [][BoardingNext]_boardingVars

-----------------------------------------------------------------------------
(* A booking is CHECKED_IN from its first check-in on, which the history has
   once however many desks made it the first; nobody boards on a booking that
   was cancelled. *)
CheckInsMatchBooking ==
  /\ bookingStatus = "CHECKED_IN" <=> \E t \in Ticket : checkIn[t] # NoKey
  /\ checkInRows = (IF bookingStatus = "CHECKED_IN" THEN 1 ELSE 0)

(* Staff are told what is so: that a ticket is checked in with this key, or with
   another.  A request fails only because another desk has just checked its
   ticket in. *)
CheckInAnswersAreTrue ==
  \A d \in Desk :
    LET key == checkIn[desk[d].ticket] IN
    /\ desk[d].pc = "transitioned" => key = desk[d].key
    /\ desk[d].pc \in {"unchanged", "failed"} => key \notin {NoKey, desk[d].key}

(* Whatever the desks have read before they locked the row, check-in boards
   each ticket once, under one key, and only on a booking that is still valid. *)
Board == INSTANCE Boarding WITH
  Key <- CheckInKey, status <- bookingStatus, refs <- ticketRef, boarded <- checkIn,
  rows <- checkInRows

ImplementsBoarding == Board!Spec
=============================================================================
