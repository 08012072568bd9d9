----------------------------- MODULE SeatLedger -----------------------------
(***************************************************************************)
(* What Seat Inventory promises its callers about the seats of one trip,   *)
(* without Redis, without calls in flight and without idempotency records: *)
(* a seat is free, blocked by an administrator, or owned by one booking; a *)
(* booking takes all the seats it claims or none, and gives back all of    *)
(* them or none, at most once.                                             *)
(***************************************************************************)
CONSTANTS
  Seat,     \* seats of the trip's layout
  Booking,  \* booking IDs
  Free,     \* a seat with no durable row
  Blocked   \* a seat an administrator has withdrawn

VARIABLES
  owner,    \* owner[s]: Free, Blocked or the booking that owns seat s
  claim,    \* claim[b]: the seats booking b may take ({}: none yet)
  vacated   \* bookings that have given their seats back

ledgerVars == <<owner, claim, vacated>>

Init ==
  /\ owner = [s \in Seat |-> Free]
  /\ claim = [b \in Booking |-> {}]
  /\ vacated = {}

(* A new booking names the seats it wants. *)
Claim(b, S) ==
  /\ claim[b] = {}
  /\ S # {}
  /\ claim' = [claim EXCEPT ![b] = S]
  /\ UNCHANGED <<owner, vacated>>

(* All or nothing: every claimed seat is free or already the booking's. *)
Take(b) ==
  /\ claim[b] # {}
  /\ \A s \in claim[b] : owner[s] \in {Free, b}
  /\ owner' = [s \in Seat |-> IF s \in claim[b] THEN b ELSE owner[s]]
  /\ UNCHANGED <<claim, vacated>>

(* The booking gives every seat back. *)
Vacate(b) ==
  /\ claim[b] # {}
  /\ b \notin vacated
  /\ \A s \in claim[b] : owner[s] = b
  /\ owner' = [s \in Seat |-> IF s \in claim[b] THEN Free ELSE owner[s]]
  /\ vacated' = vacated \cup {b}
  /\ UNCHANGED claim

(* An administrator withdraws seats nobody owns, and puts them back. *)
Block(S) ==
  /\ \A s \in S : owner[s] \in {Free, Blocked}
  /\ owner' = [s \in Seat |-> IF s \in S THEN Blocked ELSE owner[s]]
  /\ UNCHANGED <<claim, vacated>>

Unblock(S) ==
  /\ \A s \in S : owner[s] \in {Free, Blocked}
  /\ owner' = [s \in Seat |-> IF s \in S THEN Free ELSE owner[s]]
  /\ UNCHANGED <<claim, vacated>>

Next ==
  \/ \E b \in Booking : Take(b) \/ Vacate(b)
  \/ \E b \in Booking, S \in SUBSET Seat : Claim(b, S)
  \/ \E S \in SUBSET Seat : Block(S) \/ Unblock(S)

Spec == Init /\ [][Next]_ledgerVars
=============================================================================
