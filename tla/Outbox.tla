------------------------------- MODULE Outbox -------------------------------
(***************************************************************************)
(* The transactional outbox and its relays.  Booking's is modelled;        *)
(* Payment and Catalog repeat the protocol for their own tables.           *)
(*                                                                         *)
(* A relay claims a batch under a lock that times out, publishes the rows  *)
(* one after the other, and marks each published or failed if it still     *)
(* owns the row's lock.  A relay is a process: it can stall for longer     *)
(* than the timeout, lose the database, or die and start again.            *)
(***************************************************************************)
EXTENDS Naturals, FiniteSets

CONSTANTS
  Row,          \* rows of booking.outbox_events: an event for a destination
  Relay,        \* relay processes
  BatchSize,    \* BOOKING_OUTBOX_BATCH_SIZE
  MaxAttempts,  \* BOOKING_OUTBOX_MAX_ATTEMPTS
  NoRow, NoRelay

ASSUME NullAssumption == NoRow \notin Row /\ NoRelay \notin Relay

ASSUME LimitAssumption == BatchSize \in Nat \ {0} /\ MaxAttempts \in Nat \ {0}

VARIABLES
  written, delivered, published, deadLettered,  \* see Delivery
  lockOwner,   \* lock_owner
  lockLapsed,  \* rows whose locked_at is older than the lock timeout
  backedOff,   \* rows whose available_at is in the future
  attempts,    \* attempt_count, counted up to MaxAttempts
  relay        \* what each relay does, and the rest of its batch

lockVars == <<lockOwner, lockLapsed, backedOff, attempts>>
vars == <<written, delivered, published, deadLettered, lockVars, relay>>

Idle == [pc |-> "idle", row |-> NoRow, rest |-> {}]
Busy == [pc : {"publishing", "accepted", "failed"}, row : Row, rest : SUBSET Row]

TypeOK ==
  /\ written \subseteq Row
  /\ delivered \subseteq Row
  /\ published \subseteq Row
  /\ deadLettered \subseteq Row
  /\ lockOwner \in [Row -> Relay \cup {NoRelay}]
  /\ lockLapsed \subseteq Row
  /\ backedOff \subseteq Row
  /\ attempts \in [Row -> 0..MaxAttempts]
  /\ relay \in [Relay -> {Idle} \cup Busy]

Init ==
  /\ written = {}
  /\ delivered = {}
  /\ published = {}
  /\ deadLettered = {}
  /\ lockOwner = [r \in Row |-> NoRelay]
  /\ lockLapsed = {}
  /\ backedOff = {}
  /\ attempts = [r \in Row |-> 0]
  /\ relay = [p \in Relay |-> Idle]

-----------------------------------------------------------------------------
(* The service's transaction inserts the row of an event for a destination,
   ON CONFLICT DO NOTHING. *)
Enqueue(r) ==
  /\ r \notin written
  /\ written' = written \cup {r}
  /\ UNCHANGED <<delivered, published, deadLettered, lockVars, relay>>

LockLapses(r) ==
  /\ lockOwner[r] # NoRelay /\ r \notin lockLapsed
  /\ lockLapsed' = lockLapsed \cup {r}
  /\ UNCHANGED <<written, delivered, published, deadLettered, lockOwner, backedOff, attempts,
                 relay>>

BackoffEnds(r) ==
  /\ r \in backedOff
  /\ backedOff' = backedOff \ {r}
  /\ UNCHANGED <<written, delivered, published, deadLettered, lockOwner, lockLapsed, attempts,
                 relay>>

(* Mutations: a lock never times out; a dead letter is claimed again. *)
ClaimableUnlocked ==
  {r \in written : /\ r \notin published \cup deadLettered \cup backedOff
                   /\ lockOwner[r] = NoRelay}
ClaimableDead ==
  {r \in written : /\ r \notin published \cup backedOff
                   /\ lockOwner[r] = NoRelay \/ r \in lockLapsed}

Claimable ==
  {r \in written : /\ r \notin published \cup deadLettered \cup backedOff
                   /\ lockOwner[r] = NoRelay \/ r \in lockLapsed}

(* claimBatch: rows locked by another relay's transaction are skipped. *)
Claim(p, D) ==
  /\ relay[p] = Idle
  /\ D # {}
  /\ D \subseteq Claimable
  /\ Cardinality(D) <= BatchSize
  /\ lockOwner' = [r \in Row |-> IF r \in D THEN p ELSE lockOwner[r]]
  /\ lockLapsed' = lockLapsed \ D
  /\ attempts' = [r \in Row |-> IF r \in D /\ attempts[r] < MaxAttempts
                                THEN attempts[r] + 1 ELSE attempts[r]]
  /\ \E r \in D :
       relay' = [relay EXCEPT ![p] = [pc |-> "publishing", row |-> r, rest |-> D \ {r}]]
  /\ UNCHANGED <<written, delivered, published, deadLettered, backedOff>>

Goto(p, pc) == relay' = [relay EXCEPT ![p].pc = pc]

(* Mutation: the loop runs one message past the end of the batch. *)
ProceedPastTheEnd(p) ==
  \E r \in relay[p].rest \cup {NoRow} :
    relay' = [relay EXCEPT ![p] = [pc |-> "publishing", row |-> r, rest |-> relay[p].rest \ {r}]]

(* On to the next message of the batch. *)
Proceed(p) ==
  IF relay[p].rest = {}
    THEN relay' = [relay EXCEPT ![p] = Idle]
    ELSE \E r \in relay[p].rest :
           relay' = [relay EXCEPT ![p] = [pc |-> "publishing", row |-> r,
                                          rest |-> relay[p].rest \ {r}]]

(* Mutation: the relay does not wait for the broker's confirmation. *)
PublishUnconfirmed(p) ==
  /\ relay[p].pc = "publishing"
  /\ delivered' \in {delivered, delivered \cup {relay[p].row}}
  /\ Goto(p, "accepted")
  /\ UNCHANGED <<written, published, deadLettered, lockVars>>

(* The broker confirms. *)
Publish(p) ==
  /\ relay[p].pc = "publishing"
  /\ delivered' = delivered \cup {relay[p].row}
  /\ Goto(p, "accepted")
  /\ UNCHANGED <<written, published, deadLettered, lockVars>>

(* The broker refuses, or accepts and the confirmation is lost. *)
PublishFails(p) ==
  /\ relay[p].pc = "publishing"
  /\ delivered' \in {delivered, delivered \cup {relay[p].row}}
  /\ Goto(p, "failed")
  /\ UNCHANGED <<written, published, deadLettered, lockVars>>

(* WHERE lock_owner = $2 AND published_at IS NULL *)
Owns(p, r) == lockOwner[r] = p /\ r \notin published

Unlock(r) ==
  /\ lockOwner' = [lockOwner EXCEPT ![r] = NoRelay]
  /\ lockLapsed' = lockLapsed \ {r}

MarkPublished(p) ==
  LET r == relay[p].row IN
  /\ relay[p].pc = "accepted"
  /\ IF Owns(p, r)
       THEN published' = published \cup {r} /\ Unlock(r)
       ELSE UNCHANGED <<published, lockOwner, lockLapsed>>
  /\ Proceed(p)
  /\ UNCHANGED <<written, delivered, deadLettered, backedOff, attempts>>

(* The database fails after the broker has confirmed, before or after it has
   committed the mark. *)
MarkPublishedFails(p) ==
  LET r == relay[p].row IN
  /\ relay[p].pc = "accepted"
  /\ \/ UNCHANGED <<published, lockOwner, lockLapsed>>
     \/ Owns(p, r) /\ published' = published \cup {r} /\ Unlock(r)
  /\ Goto(p, "failed")
  /\ UNCHANGED <<written, delivered, deadLettered, backedOff, attempts>>

MarkFailed(p) ==
  LET r == relay[p].row
      exhausted == attempts[r] >= MaxAttempts
  IN
  /\ relay[p].pc = "failed"
  /\ IF Owns(p, r)
       THEN /\ Unlock(r)
            /\ deadLettered' = IF exhausted THEN deadLettered \cup {r} ELSE deadLettered
            /\ backedOff' = IF exhausted THEN backedOff ELSE backedOff \cup {r}
       ELSE UNCHANGED <<deadLettered, backedOff, lockOwner, lockLapsed>>
  /\ Proceed(p)
  /\ UNCHANGED <<written, delivered, published, attempts>>

(* markFailed throws out of drainOnce, or the process dies (a publication cut
   short by it has failed first, or has not reached the broker): the rest of the
   batch stays locked until the lock times out. *)
Abandon(p) ==
  /\ relay[p] # Idle
  /\ relay' = [relay EXCEPT ![p] = Idle]
  /\ UNCHANGED <<written, delivered, published, deadLettered, lockVars>>

-----------------------------------------------------------------------------
Deliver(p) ==
  \/ Publish(p)
  \/ PublishFails(p)
  \/ MarkPublished(p)
  \/ MarkPublishedFails(p)
  \/ MarkFailed(p)

Next ==
  \/ \E r \in Row : Enqueue(r) \/ LockLapses(r) \/ BackoffEnds(r)
  \/ \E p \in Relay : (\E D \in SUBSET Row : Claim(p, D)) \/ Deliver(p) \/ Abandon(p)

Spec == Init /\ [][Next]_vars

OwnedBy(p, r) == relay[p].row = r /\ Owns(p, r)

(* Timers fire, relays poll, and a request ends in some way.  A relay that
   still owns a row does not stall or die on every attempt before it has
   published it, nor before it has marked it: a lock lasts for several of the
   publishers' timeouts. *)
Fairness ==
  \A r \in Row :
    /\ WF_vars(LockLapses(r))
    /\ WF_vars(BackoffEnds(r))
    /\ SF_vars(\E p \in Relay, D \in SUBSET Row : r \in D /\ Claim(p, D))
    /\ WF_vars(\E p \in Relay : relay[p].row = r /\ (Deliver(p) \/ Abandon(p)))
    /\ SF_vars(\E p \in Relay : OwnedBy(p, r) /\ (Publish(p) \/ PublishFails(p)))
    /\ SF_vars(\E p \in Relay : OwnedBy(p, r) /\ (MarkPublished(p) \/ MarkFailed(p)))

FairSpec == Spec /\ Fairness

-----------------------------------------------------------------------------
(* The lock's owner finds the row unsettled: a relay that has stalled cannot
   settle a row behind the back of the one that has taken it over. *)
OwnersRowsAreUnsettled ==
  \A r \in Row : lockOwner[r] # NoRelay => r \in written \ (published \cup deadLettered)

(* A row is never both published and dead-lettered, which the table's CHECK
   would turn into an error at the second mark. *)
SettledOnce == published \cap deadLettered = {}

(* The outbox delivers at least once: only what the broker has confirmed is
   marked published, whichever relays stalled, failed or died meanwhile. *)
Promise == INSTANCE Delivery

ImplementsDelivery == Promise!Spec

(* Every row is in the end published or dead-lettered. *)
EveryRowIsSettled ==
  \A r \in Row : r \in written ~> r \in published \cup deadLettered
=============================================================================
