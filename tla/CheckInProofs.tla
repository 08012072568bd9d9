---------------------------- MODULE CheckInProofs ----------------------------
(***************************************************************************)
(* What booking-service promises of check-ins, for any number of tickets,  *)
(* desks and keys.  The argument rests on the lock of the booking's row:   *)
(* while a request decides, the status it has read is the booking's.  What *)
(* it has read of the check-ins may be old, but check-ins are never        *)
(* deleted, so that one it has seen is there still.                        *)
(***************************************************************************)
EXTENDS CheckIn, TLAPS

DeskState == [pc : {"idle", "select", "decide", "transitioned", "unchanged", "refused",
                    "conflict", "failed"},
              ticket : Ticket \cup {NoTicket}, key : CheckInKey \cup {NoKey},
              seen : BOOLEAN, status : BookingStatus]

(* What a request may rely on where it stands. *)
DeskKnows(d) ==
  LET r == desk[d] IN
  /\ r.pc # "idle" => r.ticket \in Ticket /\ r.key \in CheckInKey
  /\ r.pc \in {"select", "decide"} /\ r.seen => checkIn[r.ticket] # NoKey
  /\ r.pc = "decide" => rowLock = d /\ r.status = bookingStatus

(* One desk's part of CheckInAnswersAreTrue. *)
AnswerIsTrue(d) ==
  /\ desk[d].pc = "transitioned" => checkIn[desk[d].ticket] = desk[d].key
  /\ desk[d].pc \in {"unchanged", "failed"} =>
       checkIn[desk[d].ticket] \notin {NoKey, desk[d].key}

DesksKnow == \A d \in Desk : DeskKnows(d) /\ AnswerIsTrue(d)

BoardingInv == BoardingTypeOK /\ CheckInsMatchBooking /\ DesksKnow

-----------------------------------------------------------------------------
LEMMA DeskFields ==
  ASSUME BoardingInv, NEW d \in Desk
  PROVE  desk[d] \in DeskState /\ DeskKnows(d) /\ AnswerIsTrue(d)
BY DEF BoardingInv, BoardingTypeOK, DesksKnow, DeskState

LEMMA IdleIsState == NoCheckIn \in DeskState
BY DEF NoCheckIn, DeskState, BookingStatus

LEMMA BoardingInitIsSound == BoardingInit => BoardingInv
<1> SUFFICES ASSUME BoardingInit PROVE BoardingInv
  OBVIOUS
<1>1. \A d \in Desk : desk[d] = NoCheckIn
  BY DEF BoardingInit
<1>2. BoardingTypeOK
  BY IdleIsState DEF BoardingInit, BoardingTypeOK, BookingStatus, DeskState
<1>3. CheckInsMatchBooking
  BY DEF BoardingInit, CheckInsMatchBooking
<1>4. DesksKnow
  BY <1>1 DEF DesksKnow, DeskKnows, AnswerIsTrue, NoCheckIn
<1> QED BY <1>2, <1>3, <1>4 DEF BoardingInv

(* A desk whose request is as it was knows what it knew, if no check-in is
   deleted, and nobody changed the status under its lock. *)
LEMMA OthersKnow ==
  ASSUME BoardingInv, NEW d \in Desk, desk'[d] = desk[d],
         \A t \in Ticket : checkIn[t] # NoKey => checkIn'[t] = checkIn[t],
         desk[d].pc = "decide" => rowLock' = rowLock /\ bookingStatus' = bookingStatus
  PROVE  DeskKnows(d)' /\ AnswerIsTrue(d)'
<1>1. desk[d] \in DeskState /\ DeskKnows(d) /\ AnswerIsTrue(d)
  BY DeskFields
<1>2. CASE desk[d].pc = "idle"
  BY <1>1, <1>2 DEF DeskKnows, AnswerIsTrue
<1>3. CASE desk[d].pc # "idle"
  <2>1. desk[d].ticket \in Ticket /\ desk[d].key \in CheckInKey /\ desk[d].key # NoKey
    BY <1>1, <1>3, BoardingNullAssumption DEF DeskKnows
  <2>2. DeskKnows(d)'
    BY <1>1, <1>3, <2>1 DEF DeskKnows
  <2>3. AnswerIsTrue(d)'
    BY <1>1, <1>3, <2>1 DEF AnswerIsTrue
  <2> QED BY <2>2, <2>3
<1> QED BY <1>2, <1>3

(* A step of one desk that leaves the booking as it is. *)
LEMMA DeskStepKeeps ==
  ASSUME BoardingInv, NEW d \in Desk, NEW r \in DeskState,
         desk' = [desk EXCEPT ![d] = r], rowLock' \in Desk \cup {NoDesk},
         \A e \in Desk \ {d} : desk[e].pc = "decide" => rowLock' = rowLock,
         UNCHANGED boardingRows, (DeskKnows(d) /\ AnswerIsTrue(d))'
  PROVE  BoardingInv'
<1>1. \A e \in Desk : desk'[e] = IF e = d THEN r ELSE desk[e]
  BY DEF BoardingInv, BoardingTypeOK
<1>2. BoardingTypeOK'
  BY DEF BoardingInv, BoardingTypeOK, boardingRows, DeskState
<1>3. CheckInsMatchBooking'
  BY DEF BoardingInv, CheckInsMatchBooking, boardingRows
<1>4. ASSUME NEW e \in Desk, e # d PROVE DeskKnows(e)' /\ AnswerIsTrue(e)'
  BY <1>1, <1>4, OthersKnow DEF boardingRows
<1>5. DesksKnow'
  BY <1>4 DEF DesksKnow
<1> QED BY <1>2, <1>3, <1>5 DEF BoardingInv

(* The ticket worker and the customer wait for the row: no desk decides. *)
LEMMA BookingKeeps ==
  ASSUME BoardingInv, markTicketIssued \/ markCancelled PROVE BoardingInv'
<1>1. rowLock = NoDesk /\ UNCHANGED <<checkIn, checkInRows, rowLock, desk>>
      /\ bookingStatus \in {"PAID", "TICKET_ISSUED"}
      /\ bookingStatus' \in {"TICKET_ISSUED", "CANCELLED"}
      /\ ticketRef' \in {ticketRef, Ticket}
  BY DEF markTicketIssued, markCancelled
<1>2. BoardingTypeOK'
  BY <1>1 DEF BoardingInv, BoardingTypeOK, BookingStatus
<1>3. CheckInsMatchBooking'
  BY <1>1 DEF BoardingInv, CheckInsMatchBooking
<1>4. ASSUME NEW d \in Desk PROVE DeskKnows(d)' /\ AnswerIsTrue(d)'
  <2>1. desk[d].pc # "decide"
    BY <1>1, DeskFields, BoardingNullAssumption DEF DeskKnows
  <2> QED BY <1>1, <2>1, OthersKnow
<1> QED BY <1>2, <1>3, <1>4 DEF BoardingInv, DesksKnow

LEMMA SelectKeeps ==
  ASSUME BoardingInv, NEW d \in Desk, NEW t \in Ticket, NEW k \in CheckInKey,
         checkInTicket(d, t, k)
  PROVE  BoardingInv'
<1> DEFINE r == [NoCheckIn EXCEPT !.pc = "select", !.ticket = t, !.key = k,
                                  !.seen = checkIn[t] # NoKey]
<1>1. r \in DeskState /\ r.pc = "select" /\ r.ticket = t /\ r.key = k
      /\ (r.seen => checkIn[t] # NoKey)
  BY DEF NoCheckIn, DeskState, BookingStatus
<1>2. desk' = [desk EXCEPT ![d] = r] /\ UNCHANGED <<boardingRows, rowLock>>
  BY DEF checkInTicket
<1>3. desk'[d] = r /\ checkIn' = checkIn /\ rowLock' \in Desk \cup {NoDesk}
  BY <1>2 DEF BoardingInv, BoardingTypeOK, boardingRows
<1> HIDE DEF r
<1>4. (DeskKnows(d) /\ AnswerIsTrue(d))'
  BY <1>1, <1>3 DEF DeskKnows, AnswerIsTrue
<1> QED BY <1>1, <1>2, <1>3, <1>4, DeskStepKeeps

LEMMA LockKeeps ==
  ASSUME BoardingInv, NEW d \in Desk, LockRows(d) PROVE BoardingInv'
<1> DEFINE r == [desk[d] EXCEPT !.pc = "decide", !.status = bookingStatus]
<1>1. desk[d] \in DeskState /\ DeskKnows(d) /\ desk[d].pc = "select"
  BY DeskFields DEF LockRows
<1>2. r \in DeskState /\ r.pc = "decide" /\ r.status = bookingStatus
      /\ r.ticket = desk[d].ticket /\ r.key = desk[d].key /\ r.seen = desk[d].seen
  BY <1>1 DEF DeskState, BoardingInv, BoardingTypeOK
<1>3. desk' = [desk EXCEPT ![d] = r] /\ UNCHANGED boardingRows /\ rowLock' = d
  BY DEF LockRows, BoardingInv, BoardingTypeOK
<1>4. desk'[d] = r /\ checkIn' = checkIn /\ bookingStatus' = bookingStatus
  BY <1>3 DEF BoardingInv, BoardingTypeOK, boardingRows
<1> HIDE DEF r
<1>5. (DeskKnows(d) /\ AnswerIsTrue(d))'
  BY <1>1, <1>2, <1>3, <1>4 DEF DeskKnows, AnswerIsTrue
<1>6. \A e \in Desk : desk[e].pc # "decide"
  BY DeskFields, BoardingNullAssumption DEF DeskKnows, LockRows
<1> QED BY <1>2, <1>3, <1>5, <1>6, DeskStepKeeps

(* Whoever concludes had decided, and so is the only one who had. *)
LEMMA ConcludeFields ==
  ASSUME BoardingInv, NEW d \in Desk, desk[d].pc = "decide",
         NEW answer \in {"transitioned", "unchanged", "refused", "conflict", "failed"},
         Conclude(d, answer)
  PROVE  /\ desk' \in [Desk -> DeskState] /\ rowLock' \in Desk \cup {NoDesk}
         /\ desk'[d].pc = answer
         /\ desk'[d].ticket = desk[d].ticket /\ desk'[d].key = desk[d].key
         /\ desk[d].ticket \in Ticket /\ desk[d].key \in CheckInKey /\ desk[d].key # NoKey
         /\ \A e \in Desk \ {d} : desk'[e] = desk[e] /\ desk[e].pc # "decide"
<1> DEFINE r == [desk[d] EXCEPT !.pc = answer, !.status = "PAID", !.seen = FALSE]
<1>1. desk[d] \in DeskState /\ DeskKnows(d) /\ rowLock = d
  BY DeskFields DEF DeskKnows
<1>2. r \in DeskState /\ r.pc = answer /\ r.ticket = desk[d].ticket /\ r.key = desk[d].key
  BY <1>1 DEF DeskState, BookingStatus
<1>3. desk \in [Desk -> DeskState]
  BY DEF BoardingInv, BoardingTypeOK, DeskState
<1>4. desk' = [desk EXCEPT ![d] = r] /\ rowLock' = NoDesk
  BY <1>1, <1>3 DEF Conclude
<1>5. \A e \in Desk \ {d} : desk[e].pc # "decide"
  BY <1>1, DeskFields DEF DeskKnows
<1>6. desk[d].ticket \in Ticket /\ desk[d].key \in CheckInKey /\ desk[d].key # NoKey
  BY <1>1, BoardingNullAssumption DEF DeskKnows
<1> HIDE DEF r
<1> QED BY <1>2, <1>3, <1>4, <1>5, <1>6

(* An answer that is true, and changes nothing. *)
LEMMA AnswerKeeps ==
  ASSUME BoardingInv, NEW d \in Desk, desk[d].pc = "decide",
         NEW answer \in {"transitioned", "unchanged", "refused", "conflict", "failed"},
         Conclude(d, answer), UNCHANGED boardingRows,
         answer = "transitioned" => checkIn[desk[d].ticket] = desk[d].key,
         answer \in {"unchanged", "failed"} =>
           checkIn[desk[d].ticket] \notin {NoKey, desk[d].key}
  PROVE  BoardingInv'
<1>1. /\ desk' \in [Desk -> DeskState] /\ rowLock' \in Desk \cup {NoDesk}
      /\ desk'[d].pc = answer
      /\ desk'[d].ticket = desk[d].ticket /\ desk'[d].key = desk[d].key
      /\ desk[d].ticket \in Ticket /\ desk[d].key \in CheckInKey
      /\ \A e \in Desk \ {d} : desk'[e] = desk[e] /\ desk[e].pc # "decide"
  BY ConcludeFields
<1>2. BoardingTypeOK'
  BY <1>1 DEF BoardingInv, BoardingTypeOK, boardingRows, DeskState
<1>3. CheckInsMatchBooking'
  BY DEF BoardingInv, CheckInsMatchBooking, boardingRows
<1>4. DeskKnows(d)' /\ AnswerIsTrue(d)'
  BY <1>1 DEF DeskKnows, AnswerIsTrue, boardingRows
<1>5. ASSUME NEW e \in Desk, e # d PROVE DeskKnows(e)' /\ AnswerIsTrue(e)'
  BY <1>1, <1>5, OthersKnow DEF boardingRows
<1>6. DesksKnow'
  BY <1>4, <1>5 DEF DesksKnow
<1> QED BY <1>2, <1>3, <1>6 DEF BoardingInv

LEMMA DecideKeeps ==
  ASSUME BoardingInv, NEW d \in Desk,
         Replay(d) \/ RefuseStatus(d) \/ IsCheckedIn(d) \/ InsertCheckInFails(d)
  PROVE  BoardingInv'
<1>1. DeskKnows(d) /\ desk[d].pc = "decide" /\ desk[d].ticket \in Ticket
  BY DeskFields DEF DeskKnows, Replay, RefuseStatus, IsCheckedIn, InsertCheckInFails
<1>2. CASE Replay(d)
  <2>1. PICK t \in Ticket :
          /\ checkIn[t] = desk[d].key
          /\ Conclude(d, IF t = desk[d].ticket THEN "transitioned" ELSE "conflict")
    BY <1>2 DEF Replay
  <2>2. UNCHANGED boardingRows
    BY <1>2 DEF Replay
  <2>3. CASE t = desk[d].ticket
    <3>1. Conclude(d, "transitioned") /\ checkIn[desk[d].ticket] = desk[d].key
      BY <2>1, <2>3
    <3> QED BY <1>1, <2>2, <3>1, AnswerKeeps
  <2>4. CASE t # desk[d].ticket
    <3>1. Conclude(d, "conflict")
      BY <2>1, <2>4
    <3> QED BY <1>1, <2>2, <3>1, AnswerKeeps
  <2> QED BY <2>3, <2>4
<1>3. CASE RefuseStatus(d)
  BY <1>1, <1>3, AnswerKeeps DEF RefuseStatus
<1>4. CASE IsCheckedIn(d)
  <2>1. checkIn[desk[d].ticket] \notin {NoKey, desk[d].key}
    BY <1>1, <1>4 DEF IsCheckedIn, KeyIsNew, DeskKnows
  <2> QED BY <1>1, <1>4, <2>1, AnswerKeeps DEF IsCheckedIn
<1>5. CASE InsertCheckInFails(d)
  <2>1. checkIn[desk[d].ticket] \notin {NoKey, desk[d].key}
    BY <1>1, <1>5 DEF InsertCheckInFails, KeyIsNew
  <2> QED BY <1>1, <1>5, <2>1, AnswerKeeps DEF InsertCheckInFails
<1> QED BY <1>2, <1>3, <1>4, <1>5

LEMMA InsertKeeps ==
  ASSUME BoardingInv, NEW d \in Desk, InsertCheckIn(d) PROVE BoardingInv'
<1> DEFINE t == desk[d].ticket
<1>1. /\ desk' \in [Desk -> DeskState] /\ rowLock' \in Desk \cup {NoDesk}
      /\ desk'[d].pc = "transitioned"
      /\ desk'[d].ticket = t /\ desk'[d].key = desk[d].key
      /\ t \in Ticket /\ desk[d].key \in CheckInKey /\ desk[d].key # NoKey
      /\ \A e \in Desk \ {d} : desk'[e] = desk[e] /\ desk[e].pc # "decide"
  BY ConcludeFields DEF InsertCheckIn
<1>2. desk[d].status = bookingStatus /\ bookingStatus \in {"TICKET_ISSUED", "CHECKED_IN"}
  BY DeskFields DEF DeskKnows, InsertCheckIn
<1>3. bookingStatus' = "CHECKED_IN" /\ checkIn[t] = NoKey /\ ticketRef' = ticketRef
      /\ checkIn' = [checkIn EXCEPT ![t] = desk[d].key]
      /\ checkInRows' = IF bookingStatus = "TICKET_ISSUED" THEN checkInRows + 1 ELSE checkInRows
  BY <1>2 DEF InsertCheckIn
<1>4. checkIn' \in [Ticket -> CheckInKey \cup {NoKey}] /\ checkIn'[t] = desk[d].key
      /\ \A u \in Ticket : checkIn[u] # NoKey => checkIn'[u] = checkIn[u]
  BY <1>1, <1>3 DEF BoardingInv, BoardingTypeOK
<1> HIDE DEF t
<1>5. BoardingTypeOK'
  BY <1>1, <1>3, <1>4 DEF BoardingInv, BoardingTypeOK, BookingStatus, DeskState
<1>6. CheckInsMatchBooking'
  BY <1>1, <1>2, <1>3, <1>4 DEF BoardingInv, CheckInsMatchBooking
<1>7. DeskKnows(d)' /\ AnswerIsTrue(d)'
  BY <1>1, <1>4 DEF DeskKnows, AnswerIsTrue
<1>8. ASSUME NEW e \in Desk, e # d PROVE DeskKnows(e)' /\ AnswerIsTrue(e)'
  BY <1>1, <1>4, <1>8, OthersKnow
<1>9. DesksKnow'
  BY <1>7, <1>8 DEF DesksKnow
<1> QED BY <1>5, <1>6, <1>9 DEF BoardingInv

LEMMA EndKeeps ==
  ASSUME BoardingInv, NEW d \in Desk, EndCheckIn(d) PROVE BoardingInv'
<1>1. desk' = [desk EXCEPT ![d] = NoCheckIn] /\ UNCHANGED boardingRows
      /\ rowLock' = IF rowLock = d THEN NoDesk ELSE rowLock
  BY DEF EndCheckIn
<1>2. rowLock' \in Desk \cup {NoDesk} /\ desk'[d] = NoCheckIn
  BY <1>1 DEF BoardingInv, BoardingTypeOK
<1>3. \A e \in Desk \ {d} : desk[e].pc = "decide" => rowLock' = rowLock
  BY <1>1, DeskFields DEF DeskKnows
<1>4. (DeskKnows(d) /\ AnswerIsTrue(d))'
  BY <1>2 DEF DeskKnows, AnswerIsTrue, NoCheckIn
<1> QED BY <1>1, <1>2, <1>3, <1>4, IdleIsState, DeskStepKeeps

LEMMA BoardingStepKeeps == BoardingInv /\ [BoardingNext]_boardingVars => BoardingInv'
<1> SUFFICES ASSUME BoardingInv, [BoardingNext]_boardingVars PROVE BoardingInv'
  OBVIOUS
<1>1. CASE UNCHANGED boardingVars
  BY <1>1 DEF boardingVars, boardingRows, BoardingInv, BoardingTypeOK, CheckInsMatchBooking,
     DesksKnow, DeskKnows, AnswerIsTrue
<1>2. CASE markTicketIssued \/ markCancelled
  BY <1>2, BookingKeeps
<1>3. ASSUME NEW d \in Desk, NEW t \in Ticket, NEW k \in CheckInKey, checkInTicket(d, t, k)
      PROVE  BoardingInv'
  BY <1>3, SelectKeeps
<1>4. ASSUME NEW d \in Desk,
             \/ LockRows(d) \/ InsertCheckIn(d) \/ EndCheckIn(d)
             \/ Replay(d) \/ RefuseStatus(d) \/ IsCheckedIn(d) \/ InsertCheckInFails(d)
      PROVE  BoardingInv'
  BY <1>4, LockKeeps, InsertKeeps, EndKeeps, DecideKeeps
<1> QED BY <1>1, <1>2, <1>3, <1>4 DEF BoardingNext

(* The inductive invariant: a request that decides has the row, and knows the
   booking's status. *)
THEOREM BoardingInductive == BoardingSpec => []BoardingInv
BY BoardingInitIsSound, BoardingStepKeeps, PTL DEF BoardingSpec

(* The state of the booking, its tickets and the desks keeps its type. *)
THEOREM BoardingTypeCorrect == BoardingSpec => []BoardingTypeOK
<1>1. BoardingInv => BoardingTypeOK
  BY DEF BoardingInv
<1> QED BY <1>1, BoardingInductive, PTL

(* A booking is CHECKED_IN exactly from its first check-in on, and its history
   says so once, however many desks race. *)
THEOREM CheckInsMatch == BoardingSpec => []CheckInsMatchBooking
<1>1. BoardingInv => CheckInsMatchBooking
  BY DEF BoardingInv
<1> QED BY <1>1, BoardingInductive, PTL

(* Staff are told what is so, and a request fails only because another has just
   checked its ticket in. *)
THEOREM CheckInAnswersTrue == BoardingSpec => []CheckInAnswersAreTrue
<1>1. BoardingInv => CheckInAnswersAreTrue
  BY DEF BoardingInv, DesksKnow, AnswerIsTrue, CheckInAnswersAreTrue
<1> QED BY <1>1, BoardingInductive, PTL

-----------------------------------------------------------------------------
(***************************************************************************)
(* Check-in implements boarding.                                           *)
(***************************************************************************)

(* A request is about a registered ticket, and tickets are never struck off. *)
Registered == \A d \in Desk : desk[d].pc # "idle" => desk[d].ticket \in ticketRef

LEMMA RegisteredStays == BoardingInv /\ Registered /\ [BoardingNext]_boardingVars => Registered'
<1> SUFFICES ASSUME BoardingInv, Registered, [BoardingNext]_boardingVars PROVE Registered'
  OBVIOUS
<1>1. /\ desk \in [Desk -> DeskState]
      /\ \A d \in Desk : desk[d].pc # "idle" => desk[d].ticket \in Ticket
      /\ ticketRef \subseteq Ticket
  BY DeskFields DEF BoardingInv, BoardingTypeOK, DeskState, DeskKnows
<1>2. CASE UNCHANGED boardingVars
  BY <1>2 DEF boardingVars, boardingRows, Registered
<1>3. CASE markTicketIssued \/ markCancelled
  BY <1>1, <1>3 DEF markTicketIssued, markCancelled, Registered
<1>4. ASSUME NEW d \in Desk, NEW t \in Ticket, NEW k \in CheckInKey, checkInTicket(d, t, k)
      PROVE  Registered'
  BY <1>1, <1>4 DEF checkInTicket, Registered, boardingRows, NoCheckIn
<1>5. ASSUME NEW d \in Desk, LockRows(d) PROVE Registered'
  BY <1>1, <1>5 DEF LockRows, Registered, boardingRows, DeskState
<1>6. ASSUME NEW d \in Desk, EndCheckIn(d) PROVE Registered'
  BY <1>1, <1>6 DEF EndCheckIn, Registered, boardingRows, NoCheckIn
<1>7. ASSUME NEW d \in Desk, desk[d].pc = "decide", ticketRef' = ticketRef,
             NEW answer \in {"transitioned", "unchanged", "refused", "conflict", "failed"},
             Conclude(d, answer)
      PROVE  Registered'
  BY <1>7, ConcludeFields DEF Registered
<1>8. ASSUME NEW d \in Desk,
             \/ Replay(d) \/ RefuseStatus(d) \/ IsCheckedIn(d)
             \/ InsertCheckIn(d) \/ InsertCheckInFails(d)
      PROVE  Registered'
  <2>1. desk[d].pc = "decide" /\ ticketRef' = ticketRef
    BY <1>8 DEF Replay, RefuseStatus, IsCheckedIn, InsertCheckIn, InsertCheckInFails, boardingRows
  <2>2. \E answer \in {"transitioned", "unchanged", "refused", "conflict", "failed"} :
          Conclude(d, answer)
    BY <1>8 DEF Replay, RefuseStatus, IsCheckedIn, InsertCheckIn, InsertCheckInFails
  <2> QED BY <1>7, <2>1, <2>2
<1> QED BY <1>2, <1>3, <1>4, <1>5, <1>6, <1>8 DEF BoardingNext

(* Under the row lock the status a desk has read is the booking's, so that its
   INSERT is a check-in of boarding; every other step of a desk is a stutter. *)
LEMMA BoardingStep ==
  BoardingInv /\ Registered /\ [BoardingNext]_boardingVars => [Board!Next]_Board!bookingVars
<1> SUFFICES ASSUME BoardingInv, Registered, [BoardingNext]_boardingVars
             PROVE  [Board!Next]_Board!bookingVars
  OBVIOUS
<1>1. CASE UNCHANGED boardingRows
  BY <1>1 DEF boardingRows, Board!bookingVars
<1>2. CASE markTicketIssued
  BY <1>2 DEF markTicketIssued, Board!Register, Board!Next
<1>3. CASE markCancelled
  BY <1>3 DEF markCancelled, Board!Cancel, Board!Next
<1>4. ASSUME NEW d \in Desk, InsertCheckIn(d) PROVE Board!Next
  <2>1. /\ desk[d].pc = "decide" /\ desk[d].ticket \in ticketRef
        /\ desk[d].ticket \in Ticket /\ desk[d].key \in CheckInKey
        /\ desk[d].status = bookingStatus
    BY <1>4, DeskFields DEF InsertCheckIn, DeskKnows, Registered
  <2>2. Board!Board(desk[d].ticket, desk[d].key)
    BY <1>4, <2>1 DEF InsertCheckIn, KeyIsNew, Board!Board
  <2> QED BY <2>1, <2>2 DEF Board!Next
<1>5. CASE UNCHANGED boardingVars
  BY <1>1, <1>5 DEF boardingVars
<1>6. ASSUME NEW d \in Desk,
             \/ \E t \in Ticket, k \in CheckInKey : checkInTicket(d, t, k)
             \/ LockRows(d) \/ Replay(d) \/ RefuseStatus(d) \/ IsCheckedIn(d)
             \/ InsertCheckInFails(d) \/ EndCheckIn(d)
      PROVE  UNCHANGED boardingRows
  BY <1>6 DEF checkInTicket, LockRows, Replay, RefuseStatus, IsCheckedIn, InsertCheckInFails,
     EndCheckIn
<1> QED BY <1>1, <1>2, <1>3, <1>4, <1>5, <1>6 DEF BoardingNext

(* For any number of desks that retry and race, what they do to the booking is
   boarding: each registered ticket once and for good, under one key, on a
   booking that is still valid and that stays valid (checkInTicket of
   booking.repository.ts, markCancelled). *)
THEOREM CheckInImplementsBoarding == BoardingSpec => ImplementsBoarding
<1>1. BoardingInit => Board!Init /\ Registered
  BY DEF BoardingInit, Board!Init, Registered, NoCheckIn
<1> QED
  BY <1>1, BoardingInductive, RegisteredStays, BoardingStep, PTL
     DEF BoardingSpec, ImplementsBoarding, Board!Spec
=============================================================================
