---------------------------- MODULE OutboxProofs ----------------------------
(***************************************************************************)
(* What Outbox promises, for any rows, relays, batch size and number of    *)
(* attempts.  The argument rests on the lock: whoever owns one finds the   *)
(* row unsettled, because a claim takes only unsettled rows and every      *)
(* settlement gives the lock up; and on the order of publish and mark,     *)
(* because of which an accepted row has been delivered.                    *)
(***************************************************************************)
EXTENDS Outbox, TLAPS

(* What a relay remembers of its batch is true of the tables. *)
RelaysAgree ==
  \A p \in Relay : relay[p] # Idle =>
    /\ {relay[p].row} \cup relay[p].rest \subseteq written
    /\ relay[p].pc = "accepted" => relay[p].row \in delivered

PublishedIsDelivered == published \subseteq delivered

IInv ==
  /\ TypeOK
  /\ RelaysAgree
  /\ PublishedIsDelivered
  /\ OwnersRowsAreUnsettled
  /\ SettledOnce

-----------------------------------------------------------------------------
(* A relay that is at work has a row. *)
LEMMA Working ==
  ASSUME TypeOK, NEW p \in Relay, relay[p] # Idle
  PROVE  /\ relay[p] \in Busy
         /\ relay[p].row \in Row
         /\ relay[p].rest \subseteq Row
BY DEF TypeOK, Busy

(* Going on to the next message keeps the state of the relays well formed
   and true of the tables. *)
LEMMA ProceedKeeps ==
  ASSUME TypeOK, RelaysAgree, NEW p \in Relay, relay[p] # Idle, Proceed(p),
         UNCHANGED <<written, delivered>>
  PROVE  relay' \in [Relay -> {Idle} \cup Busy] /\ RelaysAgree'
<1>1. relay[p].rest \subseteq Row /\ relay[p].rest \subseteq written
  BY Working DEF RelaysAgree
<1>2. CASE relay' = [relay EXCEPT ![p] = Idle]
  BY <1>2 DEF TypeOK, RelaysAgree
<1>3. CASE relay[p].rest # {}
  <2>1. PICK r \in relay[p].rest :
          relay' = [relay EXCEPT ![p] = [pc |-> "publishing", row |-> r,
                                         rest |-> relay[p].rest \ {r}]]
    BY <1>3 DEF Proceed
  <2> DEFINE next == [pc |-> "publishing", row |-> r, rest |-> relay[p].rest \ {r}]
  <2>2. next \in Busy
    BY <1>1 DEF Busy
  <2>3. relay' \in [Relay -> {Idle} \cup Busy]
    BY <2>1, <2>2 DEF TypeOK
  <2>4. RelaysAgree'
    <3> SUFFICES ASSUME NEW q \in Relay, relay'[q] # Idle
                 PROVE  /\ {relay'[q].row} \cup relay'[q].rest \subseteq written
                        /\ relay'[q].pc = "accepted" => relay'[q].row \in delivered
      BY DEF RelaysAgree
    <3>1. CASE q = p
      BY <3>1, <2>1, <1>1 DEF TypeOK
    <3>2. CASE q # p
      BY <3>2, <2>1 DEF TypeOK, RelaysAgree
    <3> QED BY <3>1, <3>2
  <2> QED BY <2>3, <2>4
<1> QED BY <1>2, <1>3 DEF Proceed

(* So does a change of the relay's place that claims no delivery but a real one. *)
LEMMA GotoKeeps ==
  ASSUME TypeOK, RelaysAgree, NEW p \in Relay, relay[p] # Idle,
         NEW pc \in {"accepted", "failed"}, Goto(p, pc),
         written' = written, delivered \subseteq delivered',
         pc = "accepted" => relay[p].row \in delivered'
  PROVE  relay' \in [Relay -> {Idle} \cup Busy] /\ RelaysAgree'
<1>1. relay[p] \in Busy /\ relay' = [relay EXCEPT ![p] = [relay[p] EXCEPT !.pc = pc]]
  BY Working DEF Goto
<1>2. [relay[p] EXCEPT !.pc = pc] \in Busy
  BY <1>1 DEF Busy
<1>3. [relay[p] EXCEPT !.pc = pc].row = relay[p].row
      /\ [relay[p] EXCEPT !.pc = pc].rest = relay[p].rest
      /\ [relay[p] EXCEPT !.pc = pc].pc = pc
  BY <1>1 DEF Busy
<1>4. relay' \in [Relay -> {Idle} \cup Busy]
  BY <1>1, <1>2 DEF TypeOK
<1>5. RelaysAgree'
  <2> SUFFICES ASSUME NEW q \in Relay, relay'[q] # Idle
               PROVE  /\ {relay'[q].row} \cup relay'[q].rest \subseteq written
                      /\ relay'[q].pc = "accepted" => relay'[q].row \in delivered'
    BY DEF RelaysAgree
  <2>1. CASE q = p
    BY <2>1, <1>1, <1>3 DEF TypeOK, RelaysAgree
  <2>2. CASE q # p
    BY <2>2, <1>1 DEF TypeOK, RelaysAgree
  <2> QED BY <2>1, <2>2
<1> QED BY <1>4, <1>5

(* Giving a lock up is well formed and leaves the other locks alone. *)
LEMMA UnlockKeeps ==
  ASSUME TypeOK, NEW r \in Row, Unlock(r)
  PROVE  /\ lockOwner' \in [Row -> Relay \cup {NoRelay}]
         /\ lockLapsed' \subseteq Row
         /\ \A s \in Row : lockOwner'[s] # NoRelay => s # r /\ lockOwner[s] # NoRelay
BY DEF TypeOK, Unlock

-----------------------------------------------------------------------------
LEMMA Initially == ASSUME Init PROVE IInv
BY LimitAssumption DEF Init, IInv, TypeOK, RelaysAgree, PublishedIsDelivered,
   OwnersRowsAreUnsettled, SettledOnce, Idle

LEMMA EnqueueKeeps == ASSUME IInv, NEW r \in Row, Enqueue(r) PROVE IInv'
BY DEF IInv, TypeOK, RelaysAgree, PublishedIsDelivered, OwnersRowsAreUnsettled, SettledOnce,
       Enqueue, lockVars

LEMMA TimersKeep ==
  ASSUME IInv, NEW r \in Row, LockLapses(r) \/ BackoffEnds(r)
  PROVE  IInv'
BY DEF IInv, TypeOK, RelaysAgree, PublishedIsDelivered, OwnersRowsAreUnsettled, SettledOnce,
       LockLapses, BackoffEnds

LEMMA ClaimKeeps ==
  ASSUME IInv, NEW p \in Relay, NEW D \in SUBSET Row, Claim(p, D)
  PROVE  IInv'
<1> USE DEF IInv
<1>1. D \subseteq written \ (published \cup deadLettered)
  BY DEF Claim, Claimable
<1>2. PICK r \in D :
        relay' = [relay EXCEPT ![p] = [pc |-> "publishing", row |-> r, rest |-> D \ {r}]]
  BY DEF Claim
<1>3. [pc |-> "publishing", row |-> r, rest |-> D \ {r}] \in Busy
  BY <1>2 DEF Busy
<1>4. lockOwner' = [s \in Row |-> IF s \in D THEN p ELSE lockOwner[s]]
  BY DEF Claim
<1>5. TypeOK'
  <2>1. relay' \in [Relay -> {Idle} \cup Busy]
    BY <1>2, <1>3 DEF TypeOK
  <2>2. lockOwner' \in [Row -> Relay \cup {NoRelay}]
    BY <1>4 DEF TypeOK
  <2>3. attempts' \in [Row -> 0..MaxAttempts]
    BY LimitAssumption DEF Claim, TypeOK
  <2> QED BY <2>1, <2>2, <2>3 DEF Claim, TypeOK
<1>6. RelaysAgree'
  <2> SUFFICES ASSUME NEW q \in Relay, relay'[q] # Idle
               PROVE  /\ {relay'[q].row} \cup relay'[q].rest \subseteq written
                      /\ relay'[q].pc = "accepted" => relay'[q].row \in delivered
    BY DEF RelaysAgree, Claim
  <2>1. CASE q = p
    BY <2>1, <1>1, <1>2 DEF TypeOK
  <2>2. CASE q # p
    BY <2>2, <1>2 DEF TypeOK, RelaysAgree
  <2> QED BY <2>1, <2>2
<1>7. OwnersRowsAreUnsettled'
  BY <1>1, <1>4 DEF OwnersRowsAreUnsettled, Claim
<1> QED BY <1>5, <1>6, <1>7 DEF PublishedIsDelivered, SettledOnce, Claim

LEMMA PublishKeeps ==
  ASSUME IInv, NEW p \in Relay, Publish(p) \/ PublishFails(p)
  PROVE  IInv'
<1> USE DEF IInv
<1>1. relay[p] # Idle /\ relay[p].row \in Row
  BY Working DEF Publish, PublishFails, Idle
<1>2. /\ UNCHANGED <<written, published, deadLettered, lockVars>>
      /\ delivered \subseteq delivered' /\ delivered' \subseteq delivered \cup {relay[p].row}
  BY DEF Publish, PublishFails
<1>3. CASE Publish(p)
  <2>1. Goto(p, "accepted") /\ relay[p].row \in delivered'
    BY <1>3 DEF Publish
  <2>2. relay' \in [Relay -> {Idle} \cup Busy] /\ RelaysAgree'
    BY <1>1, <1>2, <2>1, GotoKeeps
  <2> QED BY <1>1, <1>2, <2>2
       DEF TypeOK, PublishedIsDelivered, OwnersRowsAreUnsettled, SettledOnce, lockVars
<1>4. CASE PublishFails(p)
  <2>1. Goto(p, "failed")
    BY <1>4 DEF PublishFails
  <2>2. relay' \in [Relay -> {Idle} \cup Busy] /\ RelaysAgree'
    BY <1>1, <1>2, <2>1, GotoKeeps
  <2> QED BY <1>1, <1>2, <2>2
       DEF TypeOK, PublishedIsDelivered, OwnersRowsAreUnsettled, SettledOnce, lockVars
<1> QED BY <1>3, <1>4

(* The heart of the argument: the mark is made by the lock's owner, so the row
   is unsettled, and after the publication, so it has been delivered. *)
LEMMA MarkPublishedKeeps ==
  ASSUME IInv, NEW p \in Relay, MarkPublished(p) \/ MarkPublishedFails(p)
  PROVE  IInv'
<1> USE DEF IInv
<1> DEFINE r == relay[p].row
<1>1. relay[p] # Idle /\ r \in Row /\ r \in delivered
  <2>1. relay[p].pc = "accepted"
    BY DEF MarkPublished, MarkPublishedFails
  <2>2. relay[p] # Idle
    BY <2>1 DEF Idle
  <2> QED BY <2>1, <2>2, Working DEF RelaysAgree
<1>2. UNCHANGED <<written, delivered, deadLettered, backedOff, attempts>>
  BY DEF MarkPublished, MarkPublishedFails
<1>3. relay' \in [Relay -> {Idle} \cup Busy] /\ RelaysAgree'
  <2>1. CASE MarkPublished(p)
    BY <2>1, <1>1, <1>2, ProceedKeeps DEF MarkPublished
  <2>2. CASE MarkPublishedFails(p)
    <3>1. Goto(p, "failed")
      BY <2>2 DEF MarkPublishedFails
    <3> QED BY <3>1, <1>1, <1>2, GotoKeeps
  <2> QED BY <2>1, <2>2
<1>4. CASE UNCHANGED <<published, lockOwner, lockLapsed>>
  BY <1>2, <1>3, <1>4 DEF TypeOK, PublishedIsDelivered, OwnersRowsAreUnsettled, SettledOnce
<1>5. CASE Owns(p, r) /\ published' = published \cup {r} /\ Unlock(r)
  <2>1. p # NoRelay
    BY NullAssumption
  <2>2. r \notin deadLettered
    BY <1>1, <1>5, <2>1 DEF Owns, OwnersRowsAreUnsettled
  <2>3. TypeOK'
    BY <1>1, <1>2, <1>3, <1>5, UnlockKeeps DEF TypeOK
  <2>4. OwnersRowsAreUnsettled'
    BY <1>1, <1>2, <1>5, UnlockKeeps DEF OwnersRowsAreUnsettled
  <2> QED BY <1>1, <1>2, <1>3, <1>5, <2>2, <2>3, <2>4 DEF PublishedIsDelivered, SettledOnce
<1> QED BY <1>4, <1>5 DEF MarkPublished, MarkPublishedFails

LEMMA MarkFailedKeeps == ASSUME IInv, NEW p \in Relay, MarkFailed(p) PROVE IInv'
<1> USE DEF IInv
<1> DEFINE r == relay[p].row
<1>1. relay[p] # Idle /\ r \in Row
  BY Working DEF MarkFailed, Idle
<1>2. UNCHANGED <<written, delivered, published, attempts>>
  BY DEF MarkFailed
<1>3. relay' \in [Relay -> {Idle} \cup Busy] /\ RelaysAgree'
  BY <1>1, <1>2, ProceedKeeps DEF MarkFailed
<1>4. CASE Owns(p, r)
  <2>1. Unlock(r) /\ deadLettered' \subseteq deadLettered \cup {r}
        /\ backedOff' \subseteq backedOff \cup {r} /\ deadLettered \subseteq deadLettered'
    BY <1>4 DEF MarkFailed
  <2>2. TypeOK'
    BY <1>1, <1>2, <1>3, <2>1, UnlockKeeps DEF TypeOK
  <2>3. OwnersRowsAreUnsettled'
    BY <1>1, <1>2, <2>1, UnlockKeeps DEF OwnersRowsAreUnsettled
  <2> QED BY <1>2, <1>3, <1>4, <2>1, <2>2, <2>3 DEF Owns, PublishedIsDelivered, SettledOnce
<1>5. CASE ~Owns(p, r)
  <2>1. UNCHANGED <<deadLettered, backedOff, lockOwner, lockLapsed>>
    BY <1>5 DEF MarkFailed
  <2> QED BY <1>2, <1>3, <2>1
       DEF TypeOK, PublishedIsDelivered, OwnersRowsAreUnsettled, SettledOnce
<1> QED BY <1>4, <1>5

LEMMA AbandonKeeps == ASSUME IInv, NEW p \in Relay, Abandon(p) PROVE IInv'
BY DEF IInv, TypeOK, RelaysAgree, PublishedIsDelivered, OwnersRowsAreUnsettled, SettledOnce,
       Abandon, lockVars

-----------------------------------------------------------------------------
LEMMA NextKeeps == ASSUME IInv, [Next]_vars PROVE IInv'
<1>1. CASE UNCHANGED vars
  BY <1>1 DEF IInv, TypeOK, RelaysAgree, PublishedIsDelivered, OwnersRowsAreUnsettled,
              SettledOnce, vars, lockVars
<1>2. ASSUME NEW r \in Row, Enqueue(r) \/ LockLapses(r) \/ BackoffEnds(r) PROVE IInv'
  BY <1>2, EnqueueKeeps, TimersKeep
<1>3. ASSUME NEW p \in Relay, NEW D \in SUBSET Row, Claim(p, D) PROVE IInv'
  BY <1>3, ClaimKeeps
<1>4. ASSUME NEW p \in Relay, Deliver(p) PROVE IInv'
  BY <1>4, PublishKeeps, MarkPublishedKeeps, MarkFailedKeeps DEF Deliver
<1>5. ASSUME NEW p \in Relay, Abandon(p) PROVE IInv'
  BY <1>5, AbandonKeeps
<1> QED BY <1>1, <1>2, <1>3, <1>4, <1>5 DEF Next

LEMMA Invariance == Spec => []IInv
<1> QED BY Initially, NextKeeps, PTL DEF Spec

(* Every state of the outbox is well formed: a relay that is at work has a row
   of its batch in hand. *)
THEOREM OutboxTypeCorrect == Spec => []TypeOK
<1>1. IInv => TypeOK
  BY DEF IInv
<1> QED BY <1>1, Invariance, PTL

(* A relay that stalled cannot settle a row another one has taken over, since
   the owner of a lock always finds its row unsettled. *)
THEOREM OwnersMaySettle == Spec => []OwnersRowsAreUnsettled
<1>1. IInv => OwnersRowsAreUnsettled
  BY DEF IInv
<1> QED BY <1>1, Invariance, PTL

(* No row is both published and dead-lettered, however many relays compete. *)
THEOREM SettlementIsFinal == Spec => []SettledOnce
<1>1. IInv => SettledOnce
  BY DEF IInv
<1> QED BY <1>1, Invariance, PTL

-----------------------------------------------------------------------------
(* Every step is one of the abstract delivery, or none. *)
LEMMA StepsDeliver ==
  ASSUME IInv, [Next]_vars
  PROVE  [Promise!Next]_(Promise!deliveryVars)
<1> USE DEF IInv
<1> SUFFICES ASSUME ~UNCHANGED <<written, delivered, published, deadLettered>>
             PROVE  Promise!Next
  BY DEF Promise!deliveryVars
<1>1. ASSUME NEW r \in Row, Enqueue(r) PROVE Promise!Next
  BY <1>1 DEF Enqueue, Promise!Write, Promise!Next
<1>2. ASSUME NEW p \in Relay, Publish(p) \/ PublishFails(p) PROVE Promise!Next
  <2> DEFINE r == relay[p].row
  <2>1. r \in Row /\ r \in written
    <3>1. relay[p] # Idle
      BY <1>2 DEF Publish, PublishFails, Idle
    <3> QED BY <3>1, Working DEF RelaysAgree
  <2>2. Promise!Deliver(r)
    BY <1>2, <2>1 DEF Publish, PublishFails, Promise!Deliver
  <2> QED BY <2>1, <2>2 DEF Promise!Next
<1>3. ASSUME NEW p \in Relay, MarkPublished(p) \/ MarkPublishedFails(p) PROVE Promise!Next
  <2> DEFINE r == relay[p].row
  <2>1. relay[p].pc = "accepted" /\ Owns(p, r) /\ published' = published \cup {r}
        /\ UNCHANGED <<written, delivered, deadLettered>>
    BY <1>3 DEF MarkPublished, MarkPublishedFails
  <2>2. relay[p] # Idle
    BY <2>1 DEF Idle
  <2>3. r \in Row /\ r \in delivered
    BY <2>1, <2>2, Working DEF RelaysAgree
  <2>4. r \notin deadLettered
    BY <2>1, <2>3, NullAssumption DEF Owns, OwnersRowsAreUnsettled
  <2>5. Promise!Publish(r)
    BY <2>1, <2>3, <2>4 DEF Promise!Publish
  <2> QED BY <2>3, <2>5 DEF Promise!Next
<1>4. ASSUME NEW p \in Relay, MarkFailed(p) PROVE Promise!Next
  <2> DEFINE r == relay[p].row
  <2>1. relay[p] # Idle
    BY <1>4 DEF MarkFailed, Idle
  <2>2. r \in Row /\ r \in written
    BY <2>1, Working DEF RelaysAgree
  <2>3. Owns(p, r) /\ deadLettered' = deadLettered \cup {r}
        /\ UNCHANGED <<written, delivered, published>>
    BY <1>4 DEF MarkFailed
  <2>4. Promise!GiveUp(r)
    BY <2>2, <2>3 DEF Owns, Promise!GiveUp
  <2> QED BY <2>2, <2>4 DEF Promise!Next
<1> QED BY <1>1, <1>2, <1>3, <1>4
     DEF Next, Deliver, Claim, LockLapses, BackoffEnds, Abandon, vars

(* The outbox implements delivery at least once: a row is delivered before it
   is marked published, whatever relays, requests and locks do. *)
THEOREM DeliversAtLeastOnce == Spec => ImplementsDelivery
<1>1. Init => Promise!Init
  BY DEF Init, Promise!Init
<1> QED BY <1>1, StepsDeliver, Invariance, PTL DEF Spec, ImplementsDelivery, Promise!Spec
=============================================================================
