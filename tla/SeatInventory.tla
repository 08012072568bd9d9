--------------------------- MODULE SeatInventory ---------------------------
(***************************************************************************)
(* The Seat Inventory service for one trip.                                *)
(*                                                                         *)
(* Durable state is PostgreSQL: the trip_seat_states rows, the             *)
(* confirmation_requests and the release_requests.  Ephemeral state is     *)
(* Redis: one payload per live hold, one lease per held seat, the sorted   *)
(* expiry index and the two kinds of idempotency record.  A Lua script or  *)
(* a transaction is one step; a handler that issues several of them is cut *)
(* at every await, so calls interleave, and a call may die between two.    *)
(*                                                                         *)
(* A rejected request that changes no state is not an action.  Published   *)
(* seat-status events are not state: they tell clients to read again.      *)
(***************************************************************************)
EXTENDS Naturals, FiniteSets

CONSTANTS
  Seat,        \* seats of the trip's layout
  Owner,       \* checkout owners: guest sessions and customers
  Token,       \* hold tokens; each HoldSeats call mints one
  HoldKey,     \* idempotency keys of HoldSeats
  ReleaseKey,  \* idempotency keys of ReleaseHold
  Booking,     \* booking IDs
  Call,        \* ConfirmSeats calls that can be in flight at once
  SweepBatch,  \* how many index entries one sweep examines
  Free,        \* no durable row for the seat
  Blocked,     \* a BLOCKED row
  NoToken,     \* absent key, or no token recorded
  NoHold,      \* token not minted yet
  NoBooking    \* idle confirm call

ASSUME NullAssumption ==
  /\ Free # Blocked
  /\ Free \notin Booking
  /\ Blocked \notin Booking
  /\ NoToken \notin Token
  /\ NoBooking \notin Booking

ASSUME BatchAssumption == SweepBatch \in Nat \ {0}

Hold == [owner : Owner, key : HoldKey, seats : (SUBSET Seat) \ {{}}]

ASSUME NoHoldAssumption == NoHold \notin Hold

VARIABLES
  seatState,    \* trip_seat_states: Free, Blocked or the booking of a BOOKED row
  confirmed,    \* bookings with a confirmation_requests row
  released,     \* bookings with a release_requests row
  hold,         \* payload of the hold each token was minted for
  holdPc,       \* progress of the HoldSeats call that minted the token
  alive,        \* tokens whose hold payload is still in Redis
  lease,        \* token stored under each seat key
  expiring,     \* tokens in the expiry index, with their metadata
  holdRecord,   \* HoldSeats idempotency records: owner, key -> token
  releaseRecord,\* ReleaseHold idempotency records: owner, key -> token
  bookingHold,  \* bookings.hold_token, kept by Booking Service
  call          \* ConfirmSeats calls in flight

durableVars == <<seatState, confirmed, released>>
redisVars   == <<alive, lease, expiring>>
recordVars  == <<holdRecord, releaseRecord>>
vars == <<durableVars, redisVars, recordVars, hold, holdPc, bookingHold, call>>

Idle == [pc |-> "idle", booking |-> NoBooking]

TypeOK ==
  /\ seatState \in [Seat -> Booking \cup {Free, Blocked}]
  /\ confirmed \subseteq Booking
  /\ released \subseteq Booking
  /\ hold \in [Token -> Hold \cup {NoHold}]
  /\ holdPc \in [Token -> {"unused", "checked", "swept", "acquired", "refused"}]
  /\ alive \subseteq Token
  /\ lease \in [Seat -> Token \cup {NoToken}]
  /\ expiring \subseteq Token
  /\ holdRecord \in [Owner \X HoldKey -> Token \cup {NoToken}]
  /\ releaseRecord \in [Owner \X ReleaseKey -> Token \cup {NoToken}]
  /\ bookingHold \in [Booking -> Token \cup {NoToken}]
  /\ call \in [Call -> {Idle} \cup
                        [pc : {"fresh", "swept", "held", "persisted"}, booking : Booking]]

Init ==
  /\ seatState = [s \in Seat |-> Free]
  /\ confirmed = {}
  /\ released = {}
  /\ hold = [t \in Token |-> NoHold]
  /\ holdPc = [t \in Token |-> "unused"]
  /\ alive = {}
  /\ lease = [s \in Seat |-> NoToken]
  /\ expiring = {}
  /\ holdRecord = [r \in Owner \X HoldKey |-> NoToken]
  /\ releaseRecord = [r \in Owner \X ReleaseKey |-> NoToken]
  /\ bookingHold = [b \in Booking |-> NoToken]
  /\ call = [c \in Call |-> Idle]

-----------------------------------------------------------------------------
(***************************************************************************)
(* Leases, expiry and the sweeper.                                         *)
(***************************************************************************)

(* Mutations: the seat keys of a hold are deleted whatever they store; they
   are overwritten with a free marker, which an EXISTS still finds. *)
WithoutComparing(D) ==
  [s \in Seat |-> IF \E t \in D : s \in hold[t].seats THEN NoToken ELSE lease[s]]

WithMarkers(D) ==
  [s \in Seat |-> IF lease[s] \in D THEN Free ELSE lease[s]]

(* Lua deletes a seat key only while it still stores the hold's own token. *)
WithoutLeasesOf(D) ==
  [s \in Seat |-> IF lease[s] \in D THEN NoToken ELSE lease[s]]

(* Redis drops the payload and the seat keys together: one script set them
   with the same PX. The index entry and its metadata outlive them. *)
Expire(t) ==
  /\ t \in alive
  /\ alive' = alive \ {t}
  /\ lease' = WithoutLeasesOf({t})
  /\ UNCHANGED <<durableVars, expiring, recordVars, hold, holdPc, bookingHold, call>>

(* Mutation: the EXISTS test of the sweep script is inverted. *)
StillThere == expiring \cap alive

Gone == expiring \ alive

(* What one SWEEP_EXPIRED_SCRIPT may drop. It examines a batch of the entries
   that are due; a payload that outlives its entry's score is skipped. *)
Batches == {D \in SUBSET Gone : Cardinality(D) <= SweepBatch}

SweepEffect(D) ==
  /\ lease' = WithoutLeasesOf(D)
  /\ expiring' = expiring \ D

(* The timer's sweep, and the sweep GetHold and GetSeatMap start with. *)
Sweep(D) ==
  /\ D \in Batches
  /\ SweepEffect(D)
  /\ UNCHANGED <<durableVars, alive, recordVars, hold, holdPc, bookingHold, call>>

-----------------------------------------------------------------------------
(***************************************************************************)
(* HoldSeats: read the durable rows, sweep, then one script acquires.      *)
(***************************************************************************)

(* The durable read comes first and is not repeated. *)
HoldSeats(t, o, k, S) ==
  /\ holdPc[t] = "unused"
  /\ S # {}
  /\ \A s \in S : seatState[s] = Free
  /\ hold' = [hold EXCEPT ![t] = [owner |-> o, key |-> k, seats |-> S]]
  /\ holdPc' = [holdPc EXCEPT ![t] = "checked"]
  /\ UNCHANGED <<durableVars, redisVars, recordVars, bookingHold, call>>

HoldSeatsSweep(t, D) ==
  /\ holdPc[t] = "checked"
  /\ D \in Batches
  /\ SweepEffect(D)
  /\ holdPc' = [holdPc EXCEPT ![t] = "swept"]
  /\ UNCHANGED <<durableVars, alive, recordVars, hold, bookingHold, call>>

RecordOf(t) == <<hold[t].owner, hold[t].key>>

(* Mutations: the script does not look up the idempotency record; it stops
   at the first seat key that is absent. *)
CanAcquireAgain(t) == \A s \in hold[t].seats : lease[s] = NoToken
CanAcquireSome(t) ==
  /\ holdRecord[RecordOf(t)] = NoToken
  /\ \E s \in hold[t].seats : lease[s] = NoToken

(* Without a record for the key, and with every seat key absent, every key
   is written. *)
CanAcquire(t) ==
  /\ holdRecord[RecordOf(t)] = NoToken
  /\ \A s \in hold[t].seats : lease[s] = NoToken

AcquireHold(t) ==
  /\ holdPc[t] = "swept"
  /\ CanAcquire(t)
  /\ holdPc' = [holdPc EXCEPT ![t] = "acquired"]
  /\ alive' = alive \cup {t}
  /\ lease' = [s \in Seat |-> IF s \in hold[t].seats THEN t ELSE lease[s]]
  /\ expiring' = expiring \cup {t}
  /\ holdRecord' = [holdRecord EXCEPT ![RecordOf(t)] = t]
  /\ UNCHANGED <<durableVars, releaseRecord, hold, bookingHold, call>>

(* REPLAY, IDEMPOTENCY_CONFLICT and SEAT_UNAVAILABLE write nothing; a call
   that dies before the script writes nothing either. *)
RefuseHold(t) ==
  /\ holdPc[t] \in {"checked", "swept"}
  /\ holdPc[t] = "swept" => ~CanAcquire(t)
  /\ holdPc' = [holdPc EXCEPT ![t] = "refused"]
  /\ UNCHANGED <<durableVars, redisVars, recordVars, hold, bookingHold, call>>

-----------------------------------------------------------------------------
(***************************************************************************)
(* ReleaseHold: one script, keyed by owner and idempotency key.            *)
(***************************************************************************)

(* A first use of the key on a hold that is gone is remembered as NOT_ACTIVE. *)
ReleaseInactive(t, o, k) ==
  /\ holdPc[t] = "acquired"
  /\ releaseRecord[<<o, k>>] = NoToken
  /\ t \notin alive
  /\ releaseRecord' = [releaseRecord EXCEPT ![<<o, k>>] = t]
  /\ UNCHANGED <<durableVars, redisVars, holdRecord, hold, holdPc, bookingHold, call>>

ReleaseHold(t, o, k) ==
  /\ releaseRecord[<<o, k>>] = NoToken
  /\ t \in alive
  /\ hold[t].owner = o
  /\ releaseRecord' = [releaseRecord EXCEPT ![<<o, k>>] = t]
  /\ alive' = alive \ {t}
  /\ lease' = WithoutLeasesOf({t})
  /\ expiring' = expiring \ {t}
  /\ UNCHANGED <<durableVars, holdRecord, hold, holdPc, bookingHold, call>>

(* Idempotency records have a TTL of their own: 24 hours, while a lease
   lasts at most five minutes, so a HoldSeats record outlives its hold. *)
HoldRecordExpires(o, k) ==
  /\ holdRecord[<<o, k>>] \in Token \ alive
  /\ holdRecord' = [holdRecord EXCEPT ![<<o, k>>] = NoToken]
  /\ UNCHANGED <<durableVars, redisVars, releaseRecord, hold, holdPc, bookingHold, call>>

ReleaseRecordExpires(o, k) ==
  /\ releaseRecord[<<o, k>>] # NoToken
  /\ releaseRecord' = [releaseRecord EXCEPT ![<<o, k>>] = NoToken]
  /\ UNCHANGED <<durableVars, redisVars, holdRecord, hold, holdPc, bookingHold, call>>

-----------------------------------------------------------------------------
(***************************************************************************)
(* The caller: Booking Service creates a booking on a hold it has read as  *)
(* active, and never changes the token; the insert can come after the hold *)
(* is gone.  Nothing stops two bookings from naming the same hold.         *)
(***************************************************************************)
CreateBooking(b, t) ==
  /\ bookingHold[b] = NoToken
  /\ holdPc[t] = "acquired"
  /\ bookingHold' = [bookingHold EXCEPT ![b] = t]
  /\ UNCHANGED <<durableVars, redisVars, recordVars, hold, holdPc, call>>

(* The seats of a booking's passengers are exactly the hold's. *)
SeatsOf(b) == IF bookingHold[b] = NoToken THEN {} ELSE hold[bookingHold[b]].seats

-----------------------------------------------------------------------------
(***************************************************************************)
(* ConfirmSeats: no earlier confirmation, sweep, active hold, durable      *)
(* transaction, Redis cleanup.  Booking Service always passes the          *)
(* booking's stored token, owner and seats and the ID of the booking's one *)
(* successful payment attempt as key, so the request fingerprint of a      *)
(* booking never varies and a confirmation is identified by its booking.   *)
(***************************************************************************)
SetCall(c, pc, b) == call' = [call EXCEPT ![c] = [pc |-> pc, booking |-> b]]

(* findConfirmation found a row: the call answers at once, changing nothing. *)
ConfirmSeats(c, b) ==
  /\ call[c].pc = "idle"
  /\ bookingHold[b] # NoToken
  /\ b \notin confirmed
  /\ SetCall(c, "fresh", b)
  /\ UNCHANGED <<durableVars, redisVars, recordVars, hold, holdPc, bookingHold>>

ConfirmSweep(c, D) ==
  /\ call[c].pc = "fresh"
  /\ D \in Batches
  /\ SweepEffect(D)
  /\ SetCall(c, "swept", call[c].booking)
  /\ UNCHANGED <<durableVars, alive, recordVars, hold, holdPc, bookingHold>>

ConfirmReadHold(c) ==
  /\ call[c].pc = "swept"
  /\ bookingHold[call[c].booking] \in alive
  /\ SetCall(c, "held", call[c].booking)
  /\ UNCHANGED <<durableVars, redisVars, recordVars, hold, holdPc, bookingHold>>

(* Mutation: the transaction commits although some rows are not its own. *)
CanPersistSome(b) == \E s \in SeatsOf(b) : seatState[s] \in {Free, b}

(* Every row of the booking's seats, once the missing ones are inserted,
   must be BOOKED by this booking. *)
CanPersist(b) == \A s \in SeatsOf(b) : seatState[s] \in {Free, b}

ConfirmPersist(c) ==
  LET b == call[c].booking IN
  /\ call[c].pc = "held"
  /\ CanPersist(b)
  /\ seatState' = [s \in Seat |-> IF s \in SeatsOf(b) THEN b ELSE seatState[s]]
  /\ confirmed' = confirmed \cup {b}
  /\ SetCall(c, "persisted", b)
  /\ UNCHANGED <<released, redisVars, recordVars, hold, holdPc, bookingHold>>

(* CONSUME_CONFIRMED_HOLD_SCRIPT; a hold that is gone is left alone. *)
ConfirmConsume(c) ==
  LET t == bookingHold[call[c].booking] IN
  /\ call[c].pc = "persisted"
  /\ t \in alive
  /\ alive' = alive \ {t}
  /\ lease' = WithoutLeasesOf({t})
  /\ expiring' = expiring \ {t}
  /\ call' = [call EXCEPT ![c] = Idle]
  /\ UNCHANGED <<durableVars, recordVars, hold, holdPc, bookingHold>>

(* The hold is gone, the transaction rolls back, the cleanup fails (it is
   only logged), or the process dies: the call leaves nothing behind. *)
ConfirmEnds(c) ==
  /\ call[c].pc # "idle"
  /\ call' = [call EXCEPT ![c] = Idle]
  /\ UNCHANGED <<durableVars, redisVars, recordVars, hold, holdPc, bookingHold>>

-----------------------------------------------------------------------------
(***************************************************************************)
(* ReleaseBookedSeats and SetSeatBlocked: one transaction each.            *)
(***************************************************************************)

(* Mutation: the release row is not looked up first. *)
CanReleaseAgain(b) ==
  /\ bookingHold[b] # NoToken
  /\ \A s \in SeatsOf(b) : seatState[s] = b

(* Mutation: the rows are deleted by seat, without the booking's ID. *)
CanReleaseOthers(b) ==
  /\ bookingHold[b] # NoToken
  /\ b \notin released
  /\ \A s \in SeatsOf(b) : seatState[s] \in Booking

(* An existing release row answers the call without touching any seat. *)
CanRelease(b) ==
  /\ bookingHold[b] # NoToken
  /\ b \notin released
  /\ \A s \in SeatsOf(b) : seatState[s] = b

ReleaseBookedSeats(b) ==
  /\ CanRelease(b)
  /\ seatState' = [s \in Seat |-> IF s \in SeatsOf(b) THEN Free ELSE seatState[s]]
  /\ released' = released \cup {b}
  /\ UNCHANGED <<confirmed, redisVars, recordVars, hold, holdPc, bookingHold, call>>

(* The leases are not consulted: a held seat can be blocked. Free rows are not
   locked between the check and the writes: a seat booked in between is left
   alone, which leaves the rows of the same command without that seat. *)
Blockable(S) == \A s \in S : seatState[s] \in {Free, Blocked}

BlockSeats(S) ==
  /\ S # {}
  /\ Blockable(S)
  /\ seatState' = [s \in Seat |-> IF s \in S THEN Blocked ELSE seatState[s]]
  /\ UNCHANGED <<confirmed, released, redisVars, recordVars, hold, holdPc, bookingHold, call>>

UnblockSeats(S) ==
  /\ S # {}
  /\ Blockable(S)
  /\ seatState' = [s \in Seat |-> IF s \in S THEN Free ELSE seatState[s]]
  /\ UNCHANGED <<confirmed, released, redisVars, recordVars, hold, holdPc, bookingHold, call>>

-----------------------------------------------------------------------------
HoldNext(t) ==
  \/ \E o \in Owner, k \in HoldKey, S \in SUBSET Seat : HoldSeats(t, o, k, S)
  \/ \E D \in Batches : HoldSeatsSweep(t, D)
  \/ AcquireHold(t)
  \/ RefuseHold(t)
  \/ Expire(t)
  \/ \E o \in Owner, k \in ReleaseKey : ReleaseInactive(t, o, k) \/ ReleaseHold(t, o, k)

RecordNext ==
  \/ \E o \in Owner, k \in HoldKey : HoldRecordExpires(o, k)
  \/ \E o \in Owner, k \in ReleaseKey : ReleaseRecordExpires(o, k)

ConfirmNext(c) ==
  \/ \E b \in Booking : ConfirmSeats(c, b)
  \/ \E D \in Batches : ConfirmSweep(c, D)
  \/ ConfirmReadHold(c)
  \/ ConfirmPersist(c)
  \/ ConfirmConsume(c)
  \/ ConfirmEnds(c)

BookingNext(b) ==
  \/ \E t \in Token : CreateBooking(b, t)
  \/ ReleaseBookedSeats(b)

AdminNext == \E S \in SUBSET Seat : BlockSeats(S) \/ UnblockSeats(S)

Next ==
  \/ \E t \in Token : HoldNext(t)
  \/ \E D \in Batches : Sweep(D)
  \/ RecordNext
  \/ \E c \in Call : ConfirmNext(c)
  \/ \E b \in Booking : BookingNext(b)
  \/ AdminNext

Spec == Init /\ [][Next]_vars

(* Redis enforces every PX. The sweeper's interval timer keeps firing, and it
   takes entries in the order of their scores, so it reaches each of them. *)
Fairness ==
  \A t \in Token :
    /\ WF_vars(Expire(t))
    /\ WF_vars(\E D \in Batches : t \in D /\ Sweep(D))

FairSpec == Spec /\ Fairness

-----------------------------------------------------------------------------
(***************************************************************************)
(* Properties.                                                             *)
(***************************************************************************)

(* A live hold owns the lease of each of its seats, and a lease belongs to a
   live hold that asked for the seat: two live holds never share a seat, and
   no release, sweep or cleanup of one hold takes away another's lease. *)
LiveHoldsOwnTheirSeats ==
  /\ \A t \in alive : \A s \in hold[t].seats : lease[s] = t
  /\ \A s \in Seat : lease[s] # NoToken =>
       /\ lease[s] \in alive
       /\ s \in hold[lease[s]].seats

(* However often an owner repeats a HoldSeats command, at most one hold with
   its key is live: the record outlives the lease, so a late retry is answered
   from the record and cannot silently acquire a second lease. *)
OneLiveHoldPerKey ==
  \A t, u \in alive : RecordOf(t) = RecordOf(u) => t = u

(* The confirmation_requests row, from which a replay answers "confirmed"
   without looking at a seat, is backed by BOOKED rows for every seat of the
   booking until the booking's release is recorded. *)
ConfirmedSeatsAreBooked ==
  \A b \in confirmed \ released :
    SeatsOf(b) # {} /\ \A s \in SeatsOf(b) : seatState[s] = b

(* A booking that owns one seat owns exactly the seats of its hold, and its
   confirmation is recorded: no partial confirmation and no partial release. *)
BookedAllOrNothing ==
  \A b \in Booking :
    (\E s \in Seat : seatState[s] = b) =>
      /\ b \in confirmed
      /\ {s \in Seat : seatState[s] = b} = SeatsOf(b)

(* A BOOKED row ends only when its own booking releases it, once: the seat
   becomes free and the release is recorded by the same step. No confirmation,
   hold, expiry or administrator takes a sold seat. *)
BookedUntilReleased ==
  [][\A s \in Seat :
       seatState[s] \in Booking /\ seatState'[s] # seatState[s] =>
         /\ seatState'[s] = Free
         /\ seatState[s] \in released' \ released]_vars

(* Every hold leaves the expiry index: released, consumed, or dropped by Redis
   and then found by the sweeper, whatever else happens to its seats. *)
EveryHoldIsSwept ==
  \A t \in Token : t \in expiring ~> t \notin expiring

(* The durable seats behave as the ledger, whatever Redis does. *)
Ledger == INSTANCE SeatLedger WITH
  owner <- seatState,
  claim <- [b \in Booking |-> SeatsOf(b)],
  vacated <- released

(* Seat Inventory implements the ledger: a confirmation takes all the seats
   of a booking or none, and a release gives all of them back, once. *)
ImplementsLedger == Ledger!Spec
=============================================================================
