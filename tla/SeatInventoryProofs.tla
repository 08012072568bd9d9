------------------------ MODULE SeatInventoryProofs ------------------------
(***************************************************************************)
(* Seat Inventory for any numbers of seats, owners, tokens, keys, bookings *)
(* and calls in flight: type correctness, the four safety invariants, the  *)
(* action property of sold seats, and the implementation of the ledger.    *)
(*                                                                         *)
(* Inv is inductive.  It adds to the invariants what they silently rest    *)
(* on: a live hold was acquired, is indexed and is named by its record;    *)
(* a booking's hold was acquired, and so no longer changes; a call in      *)
(* flight works for a booking that has a hold.                             *)
(***************************************************************************)
EXTENDS SeatInventory, TLAPS

(* A token is spoken for once its HoldSeats call has minted it. *)
MintedHolds ==
  \A t \in Token : holdPc[t] # "unused" => hold[t] \in Hold

(* A payload in Redis was written by the script that also wrote the index
   entry and the record, and the record cannot go before the payload. *)
LiveHoldsAreRecorded ==
  \A t \in alive :
    /\ holdPc[t] = "acquired"
    /\ t \in expiring
    /\ holdRecord[RecordOf(t)] = t

BookingsHaveHolds ==
  \A b \in Booking : bookingHold[b] # NoToken => holdPc[bookingHold[b]] = "acquired"

CallsHaveBookings ==
  \A c \in Call : call[c].pc # "idle" =>
    call[c].booking \in Booking /\ bookingHold[call[c].booking] # NoToken

HoldInv ==
  /\ TypeOK
  /\ MintedHolds
  /\ LiveHoldsAreRecorded
  /\ LiveHoldsOwnTheirSeats

SeatInv ==
  /\ BookingsHaveHolds
  /\ CallsHaveBookings
  /\ ConfirmedSeatsAreBooked
  /\ BookedAllOrNothing

Inv == HoldInv /\ SeatInv

-----------------------------------------------------------------------------
(***************************************************************************)
(* The initial states.                                                     *)
(***************************************************************************)
LEMMA InitHoldInv == Init => HoldInv
  BY NullAssumption
     DEF Init, HoldInv, TypeOK, MintedHolds, LiveHoldsAreRecorded,
         LiveHoldsOwnTheirSeats, Idle

LEMMA InitSeatInv == Init => SeatInv
  BY NullAssumption
     DEF Init, SeatInv, BookingsHaveHolds, CallsHaveBookings,
         ConfirmedSeatsAreBooked, BookedAllOrNothing, Idle

-----------------------------------------------------------------------------
(***************************************************************************)
(* Types.                                                                  *)
(***************************************************************************)

(* A sweep only ever drops entries whose payload is gone. *)
LEMMA BatchesAreGone == \A D \in Batches : D \subseteq Gone
  BY DEF Batches

LEMMA SweepType ==
  ASSUME TypeOK, NEW D \in Batches, SweepEffect(D)
  PROVE  /\ lease' \in [Seat -> Token \cup {NoToken}]
         /\ expiring' \subseteq Token
  BY DEF TypeOK, SweepEffect, WithoutLeasesOf

LEMMA CallType ==
  ASSUME TypeOK, NEW c \in Call, call[c].pc # "idle"
  PROVE  call[c].booking \in Booking
  BY DEF TypeOK, Idle

LEMMA HoldNextType ==
  ASSUME TypeOK, NEW t \in Token, HoldNext(t)
  PROVE  TypeOK'
<1>1. ASSUME NEW o \in Owner, NEW k \in HoldKey, NEW S \in SUBSET Seat, HoldSeats(t, o, k, S)
      PROVE  TypeOK'
  BY <1>1 DEF TypeOK, HoldSeats, Hold, durableVars, redisVars, recordVars
<1>2. ASSUME NEW D \in Batches, HoldSeatsSweep(t, D)
      PROVE  TypeOK'
  BY <1>2, SweepType DEF TypeOK, HoldSeatsSweep, durableVars, recordVars
<1>3. CASE AcquireHold(t)
  BY <1>3 DEF TypeOK, AcquireHold, durableVars
<1>4. CASE RefuseHold(t)
  BY <1>4 DEF TypeOK, RefuseHold, durableVars, redisVars, recordVars
<1>5. CASE Expire(t)
  BY <1>5 DEF TypeOK, Expire, WithoutLeasesOf, durableVars, recordVars
<1>6. ASSUME NEW o \in Owner, NEW k \in ReleaseKey, ReleaseInactive(t, o, k)
      PROVE  TypeOK'
  BY <1>6 DEF TypeOK, ReleaseInactive, durableVars, redisVars
<1>7. ASSUME NEW o \in Owner, NEW k \in ReleaseKey, ReleaseHold(t, o, k)
      PROVE  TypeOK'
  BY <1>7 DEF TypeOK, ReleaseHold, WithoutLeasesOf, durableVars
<1> QED
  BY <1>1, <1>2, <1>3, <1>4, <1>5, <1>6, <1>7 DEF HoldNext

LEMMA ConfirmNextType ==
  ASSUME TypeOK, NEW c \in Call, ConfirmNext(c)
  PROVE  TypeOK'
<1> USE DEF TypeOK, durableVars, redisVars, recordVars
<1>1. ASSUME NEW b \in Booking, ConfirmSeats(c, b)
      PROVE  TypeOK'
  BY <1>1 DEF ConfirmSeats, SetCall
<1>2. ASSUME NEW D \in Batches, ConfirmSweep(c, D)
      PROVE  TypeOK'
  BY <1>2, SweepType, CallType DEF ConfirmSweep, SetCall
<1>3. CASE ConfirmReadHold(c)
  BY <1>3, CallType DEF ConfirmReadHold, SetCall
<1>4. CASE ConfirmPersist(c)
  BY <1>4, CallType DEF ConfirmPersist, SetCall
<1>5. CASE ConfirmConsume(c)
  BY <1>5 DEF ConfirmConsume, WithoutLeasesOf, Idle
<1>6. CASE ConfirmEnds(c)
  BY <1>6 DEF ConfirmEnds, Idle
<1> QED
  BY <1>1, <1>2, <1>3, <1>4, <1>5, <1>6 DEF ConfirmNext

LEMMA TypeStep == TypeOK /\ [Next]_vars => TypeOK'
<1> SUFFICES ASSUME TypeOK, [Next]_vars PROVE TypeOK'
  OBVIOUS
<1>1. ASSUME NEW t \in Token, HoldNext(t) PROVE TypeOK'
  BY <1>1, HoldNextType
<1>2. ASSUME NEW D \in Batches, Sweep(D) PROVE TypeOK'
  BY <1>2, SweepType DEF TypeOK, Sweep, durableVars, recordVars
<1>3. CASE RecordNext
  BY <1>3 DEF TypeOK, RecordNext, HoldRecordExpires, ReleaseRecordExpires,
              durableVars, redisVars
<1>4. ASSUME NEW c \in Call, ConfirmNext(c) PROVE TypeOK'
  BY <1>4, ConfirmNextType
<1>5. ASSUME NEW b \in Booking, BookingNext(b) PROVE TypeOK'
  BY <1>5 DEF TypeOK, BookingNext, CreateBooking, ReleaseBookedSeats,
              durableVars, redisVars, recordVars
<1>6. CASE AdminNext
  BY <1>6 DEF TypeOK, AdminNext, BlockSeats, UnblockSeats, redisVars, recordVars
<1>7. CASE UNCHANGED vars
  BY <1>7 DEF TypeOK, vars, durableVars, redisVars, recordVars
<1> QED
  BY <1>1, <1>2, <1>3, <1>4, <1>5, <1>6, <1>7 DEF Next

(* Every reachable state has well-formed rows, keys and records. *)
THEOREM TypeCorrect == Spec => []TypeOK
<1>1. Init => TypeOK
  BY InitHoldInv DEF HoldInv
<1> QED
  BY <1>1, TypeStep, PTL DEF Spec

-----------------------------------------------------------------------------
(***************************************************************************)
(* Holds and leases.                                                       *)
(***************************************************************************)

(* While every lease belongs to a live hold, dropping the leases of tokens
   that are not live changes no lease: a sweep frees nobody's seat. *)
LEMMA SweepKeepsLeases ==
  ASSUME TypeOK, LiveHoldsOwnTheirSeats, NEW D \in Batches, SweepEffect(D)
  PROVE  lease' = lease
<1>1. D \cap alive = {}
  BY BatchesAreGone DEF Gone
<1>2. \A s \in Seat : lease[s] \notin D
  BY <1>1, NullAssumption, BatchesAreGone DEF LiveHoldsOwnTheirSeats, TypeOK, Gone
<1> QED
  BY <1>2 DEF SweepEffect, WithoutLeasesOf, TypeOK

(* The three things a sweep inside another command leaves in place. *)
LEMMA SweepHoldInv ==
  ASSUME HoldInv, NEW D \in Batches, SweepEffect(D),
         UNCHANGED <<hold, alive, holdRecord>>,
         \A t \in alive : holdPc'[t] = holdPc[t]
  PROVE  LiveHoldsAreRecorded' /\ LiveHoldsOwnTheirSeats'
<1>1. lease' = lease
  BY SweepKeepsLeases DEF HoldInv
<1>2. LiveHoldsOwnTheirSeats'
  BY <1>1 DEF HoldInv, LiveHoldsOwnTheirSeats
<1>3. \A t \in alive : t \in expiring'
  BY BatchesAreGone DEF HoldInv, LiveHoldsAreRecorded, SweepEffect, Gone
<1>4. LiveHoldsAreRecorded'
  BY <1>3 DEF HoldInv, LiveHoldsAreRecorded, RecordOf
<1> QED
  BY <1>2, <1>4

(* A hold that ends takes its own leases with it and no other's. *)
LEMMA EndOfHold ==
  ASSUME HoldInv, NEW t \in Token, t \in alive,
         alive' = alive \ {t}, lease' = WithoutLeasesOf({t}),
         expiring' \in {expiring, expiring \ {t}},
         UNCHANGED <<hold, holdPc, holdRecord>>
  PROVE  /\ MintedHolds'
         /\ LiveHoldsAreRecorded'
         /\ LiveHoldsOwnTheirSeats'
<1> USE DEF HoldInv
<1>1. MintedHolds'
  BY DEF MintedHolds
<1>2. LiveHoldsAreRecorded'
  BY DEF LiveHoldsAreRecorded, RecordOf
<1>3. LiveHoldsOwnTheirSeats'
  <2>1. \A u \in alive' : \A s \in hold'[u].seats \cap Seat : lease'[s] = u
    BY DEF LiveHoldsOwnTheirSeats, WithoutLeasesOf, TypeOK
  <2>2. \A u \in alive : hold[u].seats \subseteq Seat
    BY DEF MintedHolds, LiveHoldsAreRecorded, Hold, TypeOK
  <2>3. \A s \in Seat : lease'[s] # NoToken =>
          lease'[s] \in alive' /\ s \in hold'[lease'[s]].seats
    BY DEF LiveHoldsOwnTheirSeats, WithoutLeasesOf
  <2> QED
    BY <2>1, <2>2, <2>3 DEF LiveHoldsOwnTheirSeats
<1> QED
  BY <1>1, <1>2, <1>3

LEMMA HoldInvHold ==
  ASSUME HoldInv, NEW t \in Token, HoldNext(t)
  PROVE  /\ MintedHolds'
         /\ LiveHoldsAreRecorded'
         /\ LiveHoldsOwnTheirSeats'
<1> USE DEF HoldInv, durableVars, redisVars, recordVars
<1>1. ASSUME NEW o \in Owner, NEW k \in HoldKey, NEW S \in SUBSET Seat, HoldSeats(t, o, k, S)
      PROVE  MintedHolds' /\ LiveHoldsAreRecorded' /\ LiveHoldsOwnTheirSeats'
  <2>1. t \notin alive
    BY <1>1 DEF HoldSeats, LiveHoldsAreRecorded
  <2>2. MintedHolds'
    BY <1>1 DEF HoldSeats, MintedHolds, TypeOK, Hold
  <2>3. \A u \in alive : hold'[u] = hold[u] /\ holdPc'[u] = holdPc[u]
    BY <1>1, <2>1 DEF HoldSeats, TypeOK
  <2>4. LiveHoldsAreRecorded'
    BY <1>1, <2>3 DEF HoldSeats, LiveHoldsAreRecorded, RecordOf
  <2>5. LiveHoldsOwnTheirSeats'
    BY <1>1, <2>3 DEF HoldSeats, LiveHoldsOwnTheirSeats
  <2> QED
    BY <2>2, <2>4, <2>5
<1>2. ASSUME NEW D \in Batches, HoldSeatsSweep(t, D)
      PROVE  MintedHolds' /\ LiveHoldsAreRecorded' /\ LiveHoldsOwnTheirSeats'
  <2>1. MintedHolds'
    BY <1>2 DEF HoldSeatsSweep, MintedHolds, TypeOK
  <2>2. \A u \in alive : holdPc'[u] = holdPc[u]
    BY <1>2 DEF HoldSeatsSweep, LiveHoldsAreRecorded, TypeOK
  <2> QED
    BY <1>2, <2>1, <2>2, SweepHoldInv DEF HoldSeatsSweep
<1>3. CASE AcquireHold(t)
  <2>1. t \notin alive /\ hold[t] \in Hold
    BY <1>3 DEF AcquireHold, LiveHoldsAreRecorded, MintedHolds
  <2>2. RecordOf(t) \in Owner \X HoldKey
    BY <2>1 DEF RecordOf, Hold
  <2>3. MintedHolds'
    BY <1>3 DEF AcquireHold, MintedHolds, TypeOK
  <2>4. LiveHoldsAreRecorded'
    <3>1. \A u \in alive : RecordOf(u) # RecordOf(t)
      BY <1>3, NullAssumption DEF AcquireHold, CanAcquire, LiveHoldsAreRecorded, TypeOK
    <3>2. \A u \in alive : holdRecord'[RecordOf(u)] = u
      BY <1>3, <3>1 DEF AcquireHold, LiveHoldsAreRecorded, TypeOK
    <3>3. holdRecord'[RecordOf(t)] = t
      BY <1>3, <2>2 DEF AcquireHold, TypeOK
    <3>4. \A u \in Token : RecordOf(u)' = RecordOf(u)
      BY <1>3 DEF AcquireHold, RecordOf
    <3> QED
      BY <1>3, <3>2, <3>3, <3>4 DEF AcquireHold, LiveHoldsAreRecorded, TypeOK
  <2>5. LiveHoldsOwnTheirSeats'
    <3>1. \A u \in alive : hold[u].seats \cap hold[t].seats = {}
      BY <1>3, NullAssumption
         DEF AcquireHold, CanAcquire, LiveHoldsOwnTheirSeats, TypeOK
    <3>2. \A u \in alive : hold[u] \in Hold
      BY DEF MintedHolds, LiveHoldsAreRecorded, TypeOK
    <3>3. \A u \in alive : \A s \in hold[u].seats : lease'[s] = u
      BY <1>3, <3>1, <3>2 DEF AcquireHold, LiveHoldsOwnTheirSeats, Hold
    <3>4. \A s \in hold[t].seats : lease'[s] = t
      BY <1>3, <2>1 DEF AcquireHold, Hold
    <3>5. \A s \in Seat : lease'[s] # NoToken =>
            lease'[s] \in alive' /\ s \in hold[lease'[s]].seats
      BY <1>3 DEF AcquireHold, LiveHoldsOwnTheirSeats
    <3> QED
      BY <1>3, <3>3, <3>4, <3>5 DEF AcquireHold, LiveHoldsOwnTheirSeats
  <2> QED
    BY <2>3, <2>4, <2>5
<1>4. CASE RefuseHold(t)
  <2>1. t \notin alive
    BY <1>4 DEF RefuseHold, LiveHoldsAreRecorded
  <2> QED
    BY <1>4, <2>1 DEF RefuseHold, MintedHolds, LiveHoldsAreRecorded,
                      LiveHoldsOwnTheirSeats, RecordOf, TypeOK
<1>5. CASE Expire(t)
  BY <1>5, EndOfHold DEF Expire
<1>6. ASSUME NEW o \in Owner, NEW k \in ReleaseKey, ReleaseInactive(t, o, k)
      PROVE  MintedHolds' /\ LiveHoldsAreRecorded' /\ LiveHoldsOwnTheirSeats'
  BY <1>6 DEF ReleaseInactive, MintedHolds, LiveHoldsAreRecorded,
              LiveHoldsOwnTheirSeats, RecordOf
<1>7. ASSUME NEW o \in Owner, NEW k \in ReleaseKey, ReleaseHold(t, o, k)
      PROVE  MintedHolds' /\ LiveHoldsAreRecorded' /\ LiveHoldsOwnTheirSeats'
  BY <1>7, EndOfHold DEF ReleaseHold
<1> QED
  BY <1>1, <1>2, <1>3, <1>4, <1>5, <1>6, <1>7 DEF HoldNext

LEMMA HoldInvConfirm ==
  ASSUME HoldInv, NEW c \in Call, ConfirmNext(c)
  PROVE  /\ MintedHolds'
         /\ LiveHoldsAreRecorded'
         /\ LiveHoldsOwnTheirSeats'
<1> USE DEF HoldInv, durableVars, redisVars, recordVars
<1>1. ASSUME UNCHANGED <<hold, holdPc, alive, lease, expiring, holdRecord>>
      PROVE  MintedHolds' /\ LiveHoldsAreRecorded' /\ LiveHoldsOwnTheirSeats'
  BY <1>1 DEF MintedHolds, LiveHoldsAreRecorded, LiveHoldsOwnTheirSeats, RecordOf
<1>2. ASSUME NEW D \in Batches, ConfirmSweep(c, D)
      PROVE  MintedHolds' /\ LiveHoldsAreRecorded' /\ LiveHoldsOwnTheirSeats'
  BY <1>2, SweepHoldInv DEF ConfirmSweep, MintedHolds
<1>3. CASE ConfirmConsume(c)
  BY <1>3, EndOfHold DEF ConfirmConsume, TypeOK
<1> QED
  BY <1>1, <1>2, <1>3
     DEF ConfirmNext, ConfirmSeats, ConfirmReadHold, ConfirmPersist, ConfirmEnds

LEMMA HoldInvStep == HoldInv /\ [Next]_vars => HoldInv'
<1> SUFFICES ASSUME HoldInv, [Next]_vars PROVE HoldInv'
  OBVIOUS
<1> USE DEF durableVars, redisVars, recordVars
<1>1. TypeOK'
  BY TypeStep DEF HoldInv
<1>2. MintedHolds' /\ LiveHoldsAreRecorded' /\ LiveHoldsOwnTheirSeats'
  <2>1. ASSUME NEW t \in Token, HoldNext(t)
        PROVE  MintedHolds' /\ LiveHoldsAreRecorded' /\ LiveHoldsOwnTheirSeats'
    BY <2>1, HoldInvHold
  <2>2. ASSUME NEW c \in Call, ConfirmNext(c)
        PROVE  MintedHolds' /\ LiveHoldsAreRecorded' /\ LiveHoldsOwnTheirSeats'
    BY <2>2, HoldInvConfirm
  <2>3. ASSUME NEW D \in Batches, Sweep(D)
        PROVE  MintedHolds' /\ LiveHoldsAreRecorded' /\ LiveHoldsOwnTheirSeats'
    BY <2>3, SweepHoldInv DEF Sweep, HoldInv, MintedHolds
  <2>4. CASE RecordNext
    <3>1. CASE \E o \in Owner, k \in ReleaseKey : ReleaseRecordExpires(o, k)
      BY <3>1 DEF ReleaseRecordExpires, HoldInv,
                  MintedHolds, LiveHoldsAreRecorded, LiveHoldsOwnTheirSeats, RecordOf
    <3>2. ASSUME NEW o \in Owner, NEW k \in HoldKey, HoldRecordExpires(o, k)
          PROVE  MintedHolds' /\ LiveHoldsAreRecorded' /\ LiveHoldsOwnTheirSeats'
      <4>1. \A t \in alive : RecordOf(t) # <<o, k>>
        BY <3>2 DEF HoldRecordExpires, HoldInv, LiveHoldsAreRecorded
      <4>2. \A t \in alive : holdRecord'[RecordOf(t)] = holdRecord[RecordOf(t)]
        BY <3>2, <4>1 DEF HoldRecordExpires, HoldInv, TypeOK, RecordOf
      <4>3. LiveHoldsAreRecorded'
        BY <3>2, <4>2 DEF HoldRecordExpires, HoldInv, LiveHoldsAreRecorded, RecordOf
      <4> QED
        BY <3>2, <4>3 DEF HoldRecordExpires, HoldInv, MintedHolds, LiveHoldsOwnTheirSeats
    <3> QED
      BY <2>4, <3>1, <3>2 DEF RecordNext
  <2>5. ASSUME UNCHANGED <<hold, holdPc, alive, lease, expiring, holdRecord>>
        PROVE  MintedHolds' /\ LiveHoldsAreRecorded' /\ LiveHoldsOwnTheirSeats'
    BY <2>5 DEF HoldInv, MintedHolds, LiveHoldsAreRecorded, LiveHoldsOwnTheirSeats, RecordOf
  <2> QED
    BY <2>1, <2>2, <2>3, <2>4, <2>5
       DEF Next, BookingNext, CreateBooking, ReleaseBookedSeats, AdminNext,
           BlockSeats, UnblockSeats, vars
<1> QED
  BY <1>1, <1>2 DEF HoldInv

(* No interleaving of holds, expiries, sweeps, releases and confirmations
   lets two live holds share a seat or a lease outlive its hold. *)
THEOREM LeasesAreExclusive == Spec => []LiveHoldsOwnTheirSeats
<1>1. Init => HoldInv
  BY InitHoldInv
<1>2. HoldInv => LiveHoldsOwnTheirSeats
  BY DEF HoldInv
<1> QED
  BY <1>1, <1>2, HoldInvStep, PTL DEF Spec

(* A late retry of HoldSeats never acquires a second live hold. *)
THEOREM RetriesAcquireOnce == Spec => []OneLiveHoldPerKey
<1>1. Init => HoldInv
  BY InitHoldInv
<1>2. HoldInv => OneLiveHoldPerKey
  BY DEF HoldInv, LiveHoldsAreRecorded, OneLiveHoldPerKey
<1> QED
  BY <1>1, <1>2, HoldInvStep, PTL DEF Spec

-----------------------------------------------------------------------------
(***************************************************************************)
(* Durable seats.                                                          *)
(***************************************************************************)

(* Holds, sweeps and idempotency records leave durable seats, bookings and
   the confirmations in flight alone. *)
LEMMA DurableSteps ==
  ASSUME [Next]_vars
  PROVE  \/ UNCHANGED <<durableVars, bookingHold, call>>
         \/ \E c \in Call : ConfirmNext(c)
         \/ \E b \in Booking : BookingNext(b)
         \/ AdminNext
  BY DEF Next, HoldNext, HoldSeats, HoldSeatsSweep, AcquireHold, RefuseHold, Expire,
         ReleaseInactive, ReleaseHold, Sweep, RecordNext, HoldRecordExpires,
         ReleaseRecordExpires, vars

(* What a token was minted for, and that it was acquired, never changes. *)
LEMMA AcquiredStable ==
  ASSUME TypeOK, [Next]_vars, NEW t \in Token, holdPc[t] = "acquired"
  PROVE  holdPc'[t] = "acquired" /\ hold'[t] = hold[t]
<1>1. ASSUME NEW u \in Token, HoldNext(u)
      PROVE  holdPc'[t] = "acquired" /\ hold'[t] = hold[t]
  BY <1>1 DEF HoldNext, HoldSeats, HoldSeatsSweep, AcquireHold, RefuseHold, Expire,
              ReleaseInactive, ReleaseHold, TypeOK
<1>2. CASE UNCHANGED <<hold, holdPc>>
  BY <1>2
<1> QED
  BY <1>1, <1>2
     DEF Next, Sweep, RecordNext, HoldRecordExpires, ReleaseRecordExpires, ConfirmNext,
         ConfirmSeats, ConfirmSweep, ConfirmReadHold, ConfirmPersist, ConfirmConsume,
         ConfirmEnds, BookingNext, CreateBooking, ReleaseBookedSeats, AdminNext,
         BlockSeats, UnblockSeats, vars

(* The token of a booking is written once. *)
LEMMA BookingHoldStep ==
  ASSUME TypeOK, [Next]_vars, NEW b \in Booking, bookingHold'[b] # bookingHold[b]
  PROVE  \E t \in Token : CreateBooking(b, t) /\ bookingHold'[b] = t
<1>1. ASSUME NEW c \in Booking, NEW t \in Token, CreateBooking(c, t)
      PROVE  c = b /\ bookingHold'[b] = t
  BY <1>1 DEF CreateBooking, TypeOK
<1>2. \E c \in Booking, t \in Token : CreateBooking(c, t)
  BY DurableSteps
     DEF ConfirmNext, ConfirmSeats, ConfirmSweep, ConfirmReadHold, ConfirmPersist,
         ConfirmConsume, ConfirmEnds, BookingNext, ReleaseBookedSeats, AdminNext,
         BlockSeats, UnblockSeats
<1> QED
  BY <1>1, <1>2

(* The seats of a booking, once it has a hold, never change. *)
LEMMA SeatsOfStable ==
  ASSUME Inv, [Next]_vars, NEW b \in Booking, bookingHold[b] # NoToken
  PROVE  /\ bookingHold'[b] = bookingHold[b]
         /\ holdPc'[bookingHold[b]] = "acquired"
         /\ SeatsOf(b)' = SeatsOf(b)
<1>1. bookingHold[b] \in Token /\ holdPc[bookingHold[b]] = "acquired"
  BY DEF Inv, HoldInv, SeatInv, TypeOK, BookingsHaveHolds
<1>2. bookingHold'[b] = bookingHold[b]
  BY BookingHoldStep DEF Inv, HoldInv, CreateBooking
<1>3. hold'[bookingHold[b]] = hold[bookingHold[b]] /\ holdPc'[bookingHold[b]] = "acquired"
  BY <1>1, AcquiredStable DEF Inv, HoldInv
<1> QED
  BY <1>2, <1>3 DEF SeatsOf

LEMMA SeatsOfType ==
  ASSUME Inv, NEW b \in Booking
  PROVE  /\ SeatsOf(b) \subseteq Seat
         /\ SeatsOf(b) = {} <=> bookingHold[b] = NoToken
  BY DEF Inv, HoldInv, SeatInv, TypeOK, BookingsHaveHolds, MintedHolds, SeatsOf, Hold

LEMMA BookingsStep ==
  ASSUME Inv, [Next]_vars
  PROVE  BookingsHaveHolds'
<1>1. ASSUME NEW b \in Booking, bookingHold'[b] # bookingHold[b]
      PROVE  holdPc'[bookingHold'[b]] = "acquired"
  BY <1>1, BookingHoldStep DEF CreateBooking, Inv, HoldInv
<1> QED
  BY <1>1, SeatsOfStable DEF BookingsHaveHolds

LEMMA CallsStep ==
  ASSUME Inv, [Next]_vars
  PROVE  CallsHaveBookings'
<1> SUFFICES ASSUME NEW d \in Call, call'[d].pc # "idle"
             PROVE  call'[d].booking \in Booking /\ bookingHold'[call'[d].booking] # NoToken
  BY DEF CallsHaveBookings
<1> DEFINE Kept == call[d].pc # "idle" /\ call'[d].booking = call[d].booking
<1>1. CASE Kept
  <2>1. call[d].booking \in Booking /\ bookingHold[call[d].booking] # NoToken
    BY <1>1 DEF Inv, SeatInv, CallsHaveBookings
  <2> QED
    BY <1>1, <2>1, SeatsOfStable
<1>2. ASSUME NEW c \in Call, ConfirmNext(c), ~Kept
      PROVE  \E b \in Booking : ConfirmSeats(c, b) /\ call'[d].booking = b
  <2> USE DEF Inv, HoldInv, TypeOK, SetCall, Idle
  <2>1. \A b \in Booking : ConfirmSeats(c, b) => c = d /\ call'[d].booking = b
    BY <1>2 DEF ConfirmSeats
  <2>2. \A D \in Batches : ~ConfirmSweep(c, D)
    BY <1>2 DEF ConfirmSweep
  <2>3. ~ConfirmReadHold(c) /\ ~ConfirmPersist(c)
    BY <1>2 DEF ConfirmReadHold, ConfirmPersist
  <2>4. ~ConfirmConsume(c) /\ ~ConfirmEnds(c)
    BY <1>2 DEF ConfirmConsume, ConfirmEnds
  <2> QED
    BY <1>2, <2>1, <2>2, <2>3, <2>4 DEF ConfirmNext
<1>3. ASSUME NEW c \in Call, ConfirmNext(c), ~Kept
      PROVE  call'[d].booking \in Booking /\ bookingHold'[call'[d].booking] # NoToken
  BY <1>2, <1>3 DEF ConfirmSeats
<1>4. CASE UNCHANGED call
  BY <1>1, <1>4
<1> QED
  BY <1>1, <1>3, <1>4, DurableSteps
     DEF BookingNext, CreateBooking, ReleaseBookedSeats, AdminNext, BlockSeats, UnblockSeats

(* Only a new booking changes what a booking may take. *)
LEMMA SeatsOfKept ==
  ASSUME Inv, [Next]_vars, NEW b \in Booking,
         bookingHold'[b] = bookingHold[b]
  PROVE  SeatsOf(b)' = SeatsOf(b)
<1>1. CASE bookingHold[b] = NoToken
  BY <1>1 DEF SeatsOf
<1>2. CASE bookingHold[b] # NoToken
  BY <1>2, SeatsOfStable
<1> QED
  BY <1>1, <1>2

(* The steps that matter to the durable seats. *)
LEMMA SeatSteps ==
  ASSUME Inv, [Next]_vars
  PROVE  \/ UNCHANGED <<durableVars, bookingHold>>
         \/ \E b \in Booking, t \in Token : CreateBooking(b, t)
         \/ \E c \in Call : ConfirmPersist(c)
         \/ \E b \in Booking : ReleaseBookedSeats(b)
         \/ \E S \in SUBSET Seat : BlockSeats(S) \/ UnblockSeats(S)
  BY DurableSteps
     DEF ConfirmNext, ConfirmSeats, ConfirmSweep, ConfirmReadHold, ConfirmConsume,
         ConfirmEnds, BookingNext, AdminNext, durableVars

LEMMA SeatInvCreate ==
  ASSUME Inv, [Next]_vars, NEW b \in Booking, NEW t \in Token, CreateBooking(b, t)
  PROVE  ConfirmedSeatsAreBooked' /\ BookedAllOrNothing'
<1>1. SeatsOf(b) = {}
  BY DEF CreateBooking, SeatsOf
<1>2. b \notin confirmed \ released
  BY <1>1 DEF Inv, SeatInv, ConfirmedSeatsAreBooked
<1>3. \A s \in Seat : seatState[s] # b
  BY <1>1 DEF Inv, SeatInv, BookedAllOrNothing
<1>4. \A d \in Booking \ {b} : SeatsOf(d)' = SeatsOf(d)
  BY SeatsOfKept DEF CreateBooking, Inv, HoldInv, TypeOK
<1>5. UNCHANGED <<seatState, confirmed, released>>
  BY DEF CreateBooking, durableVars
<1>6. ConfirmedSeatsAreBooked'
  BY <1>2, <1>4, <1>5 DEF Inv, HoldInv, TypeOK, SeatInv, ConfirmedSeatsAreBooked
<1>7. BookedAllOrNothing'
  BY <1>3, <1>4, <1>5 DEF Inv, SeatInv, BookedAllOrNothing
<1> QED
  BY <1>6, <1>7

(* The transaction of ConfirmSeats turns no row of another booking. *)
LEMMA PersistEffect ==
  ASSUME Inv, [Next]_vars, NEW c \in Call, ConfirmPersist(c)
  PROVE  /\ call[c].booking \in Booking
         /\ SeatsOf(call[c].booking) # {}
         /\ \A d \in Booking : SeatsOf(d)' = SeatsOf(d)
         /\ \A s \in Seat : seatState'[s] =
              IF s \in SeatsOf(call[c].booking) THEN call[c].booking ELSE seatState[s]
         /\ \A s \in Seat : seatState[s] # seatState'[s] => seatState[s] = Free
<1> USE DEF Inv, HoldInv, TypeOK, SeatInv
<1>1. call[c].booking \in Booking /\ bookingHold[call[c].booking] # NoToken
  BY DEF ConfirmPersist, CallsHaveBookings
<1>2. \A d \in Booking : SeatsOf(d)' = SeatsOf(d)
  BY SeatsOfKept DEF ConfirmPersist
<1>3. SeatsOf(call[c].booking) # {}
  BY <1>1, SeatsOfType
<1>4. \A s \in Seat : seatState'[s] =
              IF s \in SeatsOf(call[c].booking) THEN call[c].booking ELSE seatState[s]
  BY DEF ConfirmPersist
<1>5. \A s \in SeatsOf(call[c].booking) : seatState[s] \in {Free, call[c].booking}
  BY DEF ConfirmPersist, CanPersist
<1> QED
  BY <1>1, <1>2, <1>3, <1>4, <1>5

LEMMA SeatInvPersist ==
  ASSUME Inv, [Next]_vars, NEW c \in Call, ConfirmPersist(c)
  PROVE  ConfirmedSeatsAreBooked' /\ BookedAllOrNothing'
<1> DEFINE b == call[c].booking
<1>1. /\ b \in Booking
      /\ SeatsOf(b) # {}
      /\ \A d \in Booking : SeatsOf(d)' = SeatsOf(d)
      /\ \A s \in Seat : seatState'[s] = IF s \in SeatsOf(b) THEN b ELSE seatState[s]
      /\ \A s \in Seat : seatState[s] # seatState'[s] => seatState[s] = Free
  BY PersistEffect
<1>2. \A d \in Booking : SeatsOf(d) \subseteq Seat
  BY SeatsOfType
<1>3. confirmed' = confirmed \cup {b} /\ released' = released /\ confirmed \subseteq Booking
  BY DEF ConfirmPersist, Inv, HoldInv, TypeOK
<1> HIDE DEF b
<1>4. ConfirmedSeatsAreBooked'
  <2> SUFFICES ASSUME NEW d \in Booking, d \in confirmed', d \notin released
               PROVE  SeatsOf(d)' # {} /\ \A s \in SeatsOf(d)' : seatState'[s] = d
    BY <1>1, <1>3 DEF ConfirmedSeatsAreBooked
  <2>1. CASE d = b
    BY <1>1, <1>2, <2>1
  <2>2. CASE d # b
    <3>1. SeatsOf(d) # {} /\ \A s \in SeatsOf(d) : seatState[s] = d
      BY <1>3, <2>2 DEF Inv, SeatInv, ConfirmedSeatsAreBooked
    <3> QED
      BY <1>1, <1>2, <3>1, NullAssumption
  <2> QED
    BY <2>1, <2>2
<1>5. BookedAllOrNothing'
  <2> SUFFICES ASSUME NEW d \in Booking, NEW r \in Seat, seatState'[r] = d
               PROVE  /\ d \in confirmed'
                      /\ {s \in Seat : seatState'[s] = d} = SeatsOf(d)'
    BY DEF BookedAllOrNothing
  <2>1. CASE d = b
    <3>1. (\E s \in Seat : seatState[s] = b) => {s \in Seat : seatState[s] = b} = SeatsOf(b)
      BY <1>1 DEF Inv, SeatInv, BookedAllOrNothing
    <3> QED
      BY <1>1, <1>2, <1>3, <2>1, <3>1
  <2>2. CASE d # b
    <3>1. seatState[r] = d
      BY <1>1, <2>2
    <3>2. d \in confirmed /\ {s \in Seat : seatState[s] = d} = SeatsOf(d)
      BY <3>1 DEF Inv, SeatInv, BookedAllOrNothing
    <3>3. \A s \in Seat : seatState'[s] = d <=> seatState[s] = d
      BY <1>1, <2>2, NullAssumption
    <3> QED
      BY <1>1, <1>3, <3>2, <3>3
  <2> QED
    BY <2>1, <2>2
<1> QED
  BY <1>4, <1>5

(* A release takes the rows of its own booking, all of them. *)
LEMMA SeatInvRelease ==
  ASSUME Inv, [Next]_vars, NEW b \in Booking, ReleaseBookedSeats(b)
  PROVE  ConfirmedSeatsAreBooked' /\ BookedAllOrNothing'
<1>1. /\ \A s \in SeatsOf(b) : seatState[s] = b
      /\ \A s \in Seat : seatState'[s] = IF s \in SeatsOf(b) THEN Free ELSE seatState[s]
      /\ released' = released \cup {b}
      /\ confirmed' = confirmed
  BY DEF ReleaseBookedSeats, CanRelease
<1>2. \A d \in Booking : SeatsOf(d)' = SeatsOf(d)
  BY SeatsOfKept DEF ReleaseBookedSeats
<1>3. \A d \in Booking : SeatsOf(d) \subseteq Seat
  BY SeatsOfType
<1>4. confirmed \subseteq Booking
  BY DEF Inv, HoldInv, TypeOK
<1>5. ConfirmedSeatsAreBooked'
  BY <1>1, <1>2, <1>3, <1>4 DEF Inv, SeatInv, ConfirmedSeatsAreBooked
<1>6. BookedAllOrNothing'
  <2> SUFFICES ASSUME NEW d \in Booking, NEW r \in Seat, seatState'[r] = d
               PROVE  /\ d \in confirmed'
                      /\ {s \in Seat : seatState'[s] = d} = SeatsOf(d)'
    BY DEF BookedAllOrNothing
  <2>1. seatState[r] = d /\ r \notin SeatsOf(b)
    BY <1>1, NullAssumption
  <2>2. d \in confirmed /\ {s \in Seat : seatState[s] = d} = SeatsOf(d)
    BY <2>1 DEF Inv, SeatInv, BookedAllOrNothing
  <2>3. d # b
    BY <2>1, <2>2
  <2>4. \A s \in Seat : seatState'[s] = d <=> seatState[s] = d
    BY <1>1, <2>3, NullAssumption
  <2> QED
    BY <1>1, <1>2, <2>2, <2>4
<1> QED
  BY <1>5, <1>6

(* An administrator turns rows no booking owns. *)
LEMMA SeatInvAdmin ==
  ASSUME Inv, [Next]_vars, NEW S \in SUBSET Seat, BlockSeats(S) \/ UnblockSeats(S)
  PROVE  ConfirmedSeatsAreBooked' /\ BookedAllOrNothing'
<1>1. \A s \in Seat : \A d \in Booking : seatState'[s] = d <=> seatState[s] = d
  BY NullAssumption DEF BlockSeats, UnblockSeats, Blockable
<1>2. UNCHANGED <<confirmed, released>>
  BY DEF BlockSeats, UnblockSeats
<1>3. \A d \in Booking : SeatsOf(d)' = SeatsOf(d)
  BY SeatsOfKept DEF BlockSeats, UnblockSeats
<1>4. \A d \in Booking : SeatsOf(d) \subseteq Seat
  BY SeatsOfType
<1>5. confirmed \subseteq Booking
  BY DEF Inv, HoldInv, TypeOK
<1>6. ConfirmedSeatsAreBooked'
  BY <1>1, <1>2, <1>3, <1>4, <1>5 DEF Inv, SeatInv, ConfirmedSeatsAreBooked
<1>7. BookedAllOrNothing'
  BY <1>1, <1>2, <1>3 DEF Inv, SeatInv, BookedAllOrNothing
<1> QED
  BY <1>6, <1>7

LEMMA InvStep == Inv /\ [Next]_vars => Inv'
<1> SUFFICES ASSUME Inv, [Next]_vars PROVE Inv'
  OBVIOUS
<1>1. HoldInv'
  BY HoldInvStep DEF Inv
<1>2. BookingsHaveHolds' /\ CallsHaveBookings'
  BY BookingsStep, CallsStep
<1>3. ASSUME UNCHANGED <<durableVars, bookingHold>>
      PROVE  ConfirmedSeatsAreBooked' /\ BookedAllOrNothing'
  BY <1>3, SeatsOfKept
     DEF durableVars, Inv, HoldInv, TypeOK, SeatInv, ConfirmedSeatsAreBooked,
         BookedAllOrNothing
<1>4. ConfirmedSeatsAreBooked' /\ BookedAllOrNothing'
  BY <1>3, SeatSteps, SeatInvCreate, SeatInvPersist, SeatInvRelease, SeatInvAdmin
<1> QED
  BY <1>1, <1>2, <1>4 DEF Inv, SeatInv

LEMMA Invariance == Spec => []Inv
<1>1. Init => Inv
  BY InitHoldInv, InitSeatInv DEF Inv
<1> QED
  BY <1>1, InvStep, PTL DEF Spec

(* A replayed confirmation never answers for seats the booking has lost:
   until the booking releases them, its confirmation row is backed. *)
THEOREM ConfirmationsAreBacked == Spec => []ConfirmedSeatsAreBooked
  BY Invariance, PTL DEF Inv, SeatInv

(* No partial confirmation and no partial release, for any set of seats. *)
THEOREM BookedAllOrNothingHolds == Spec => []BookedAllOrNothing
  BY Invariance, PTL DEF Inv, SeatInv

(* A sold seat is only ever freed by the release of the booking it was sold
   to, and that release is recorded by the step that frees it. *)
THEOREM SoldSeatsAreKept == Spec => BookedUntilReleased
<1> DEFINE Kept ==
      \A s \in Seat :
        seatState[s] \in Booking /\ seatState'[s] # seatState[s] =>
          /\ seatState'[s] = Free
          /\ seatState[s] \in released' \ released
<1>1. ASSUME Inv, [Next]_vars PROVE Kept
  <2> USE <1>1
  <2>1. CASE UNCHANGED durableVars
    BY <2>1 DEF durableVars
  <2>2. ASSUME NEW c \in Call, ConfirmPersist(c) PROVE Kept
    BY <2>2, PersistEffect, NullAssumption
  <2>3. ASSUME NEW b \in Booking, ReleaseBookedSeats(b) PROVE Kept
    BY <2>3 DEF ReleaseBookedSeats, CanRelease
  <2>4. ASSUME NEW S \in SUBSET Seat, BlockSeats(S) \/ UnblockSeats(S) PROVE Kept
    BY <2>4, NullAssumption DEF BlockSeats, UnblockSeats, Blockable
  <2> QED
    BY SeatSteps, <2>1, <2>2, <2>3, <2>4 DEF CreateBooking, durableVars
<1>2. Inv /\ [Next]_vars => [Kept]_vars
  BY <1>1
<1> QED
  BY Invariance, <1>2, PTL DEF Spec, BookedUntilReleased

-----------------------------------------------------------------------------
(***************************************************************************)
(* The ledger.  A booking's claim is the seats of its hold; a persisted    *)
(* confirmation takes them, a release vacates them, and whatever Redis     *)
(* does is a stutter.                                                      *)
(***************************************************************************)
LEMMA LedgerInit == Init => Ledger!Init
  BY DEF Init, Ledger!Init, SeatsOf

LEMMA LedgerStep ==
  ASSUME Inv, [Next]_vars
  PROVE  [Ledger!Next]_(Ledger!ledgerVars)
<1> DEFINE claim == [b \in Booking |-> SeatsOf(b)]
<1>1. CASE UNCHANGED <<durableVars, bookingHold>>
  <2>1. \A b \in Booking : SeatsOf(b)' = SeatsOf(b)
    BY <1>1, SeatsOfKept
  <2> QED
    BY <1>1, <2>1 DEF Ledger!ledgerVars, durableVars
<1>2. ASSUME NEW b \in Booking, NEW t \in Token, CreateBooking(b, t)
      PROVE  Ledger!Claim(b, SeatsOf(b)') /\ SeatsOf(b)' \in SUBSET Seat
  <2>1. SeatsOf(b) = {}
    BY <1>2 DEF CreateBooking, SeatsOf
  <2>2. \A d \in Booking \ {b} : SeatsOf(d)' = SeatsOf(d)
    BY <1>2, SeatsOfKept DEF CreateBooking, Inv, HoldInv, TypeOK
  <2>3. bookingHold'[b] = t /\ hold'[t] = hold[t] /\ hold[t] \in Hold
    BY <1>2 DEF CreateBooking, Inv, HoldInv, TypeOK, MintedHolds
  <2>4. SeatsOf(b)' # {} /\ SeatsOf(b)' \subseteq Seat
    BY <2>3, NullAssumption DEF SeatsOf, Hold
  <2>5. claim' = [claim EXCEPT ![b] = SeatsOf(b)']
    BY <2>2
  <2>6. UNCHANGED <<seatState, released>>
    BY <1>2 DEF CreateBooking, durableVars
  <2> QED
    BY <2>1, <2>4, <2>5, <2>6 DEF Ledger!Claim
<1>3. ASSUME NEW c \in Call, ConfirmPersist(c)
      PROVE  Ledger!Take(call[c].booking) /\ call[c].booking \in Booking
  <2>1. claim' = claim
    BY <1>3, PersistEffect
  <2>2. call[c].booking \in Booking /\ SeatsOf(call[c].booking) # {}
    BY <1>3, PersistEffect
  <2> QED
    BY <1>3, <2>1, <2>2 DEF ConfirmPersist, CanPersist, Ledger!Take
<1>4. ASSUME NEW b \in Booking, ReleaseBookedSeats(b)
      PROVE  Ledger!Vacate(b)
  <2>1. claim' = claim
    BY <1>4, SeatsOfKept DEF ReleaseBookedSeats
  <2>2. SeatsOf(b) # {}
    BY <1>4, SeatsOfType DEF ReleaseBookedSeats, CanRelease
  <2> QED
    BY <1>4, <2>1, <2>2 DEF ReleaseBookedSeats, CanRelease, Ledger!Vacate
<1>5. ASSUME NEW S \in SUBSET Seat, BlockSeats(S) \/ UnblockSeats(S)
      PROVE  Ledger!Block(S) \/ Ledger!Unblock(S)
  <2>1. claim' = claim
    BY <1>5, SeatsOfKept DEF BlockSeats, UnblockSeats
  <2> QED
    BY <1>5, <2>1 DEF BlockSeats, UnblockSeats, Blockable, Ledger!Block, Ledger!Unblock
<1> QED
  BY SeatSteps, <1>1, <1>2, <1>3, <1>4, <1>5 DEF Ledger!Next

(* Seat Inventory implements the seat ledger: every step of the service is
   a step of the ledger or leaves the durable seats and claims unchanged. *)
THEOREM SeatInventoryImplementsLedger == Spec => ImplementsLedger
<1>1. Init => Ledger!Init
  BY LedgerInit
<1>2. Inv /\ [Next]_vars => [Ledger!Next]_(Ledger!ledgerVars)
  BY LedgerStep
<1> QED
  BY Invariance, <1>1, <1>2, PTL DEF Spec, ImplementsLedger, Ledger!Spec

=============================================================================
