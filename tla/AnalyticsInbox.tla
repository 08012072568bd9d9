--------------------------- MODULE AnalyticsInbox ---------------------------
(***************************************************************************)
(* analytics-service's projections.  The consumer group reads a log that   *)
(* stays, and restarts from the offset it has committed; the transaction   *)
(* that projects an event and the commit of its offset are two steps.      *)
(* Producers publish at least once, so an event may be in the log twice.   *)
(*                                                                         *)
(* Each new generation of the group reads the log from the beginning, over *)
(* tables that earlier generations have filled in part: the daily revenue  *)
(* first, then the facts of routes without their revenue.                  *)
(*                                                                         *)
(* One log stands for the partitions of the three topics, which are read   *)
(* in the same way and share no projection.                                *)
(***************************************************************************)
EXTENDS Naturals, Sequences

CONSTANTS
  PaidEvent,     \* BookingPaidV1
  PaymentEvent,  \* PaymentAttemptedV1
  SearchEvent,   \* SearchPerformedV1, V2
  InvalidEvent,  \* messages that no validator accepts
  Consumer,      \* members of the group, in the order of the rebalances
  MaxLog,        \* bound: messages in the log
  NoConsumer

Event == PaidEvent \cup PaymentEvent \cup SearchEvent \cup InvalidEvent
ValidEvent == PaidEvent \cup PaymentEvent \cup SearchEvent

ASSUME ConsumerAssumption == NoConsumer \notin Consumer

ASSUME LogLimitAssumption == MaxLog \in Nat

ASSUME EventAssumption ==
  /\ InvalidEvent \cap ValidEvent = {}
  /\ PaymentEvent \cap PaidEvent = {}
  /\ SearchEvent \cap (PaidEvent \cup PaymentEvent) = {}

VARIABLES
  log,           \* the topics, in the order of their offsets
  committed,     \* the group's committed offset: messages before it are done with
  assignee,      \* the member the partition is assigned to
  position,      \* how far each member that still runs has read; 0 also when it does not
  processed,     \* analytics.processed_events
  revenueCount,  \* how often each event's revenue is in analytics.daily_revenue
  routeFact,     \* analytics.paid_route_facts: none, with or without the revenue
  paymentFact,   \* analytics.payment_attempt_facts
  searchFact     \* analytics.search_facts, with search_route_matches

projections == <<processed, revenueCount, routeFact, paymentFact, searchFact>>
analyticsVars == <<log, committed, assignee, position, projections>>

AnalyticsTypeOK ==
  /\ log \in Seq(Event)
  /\ committed \in 0..Len(log)
  /\ assignee \in Consumer \cup {NoConsumer}
  /\ position \in [Consumer -> 0..Len(log)]
  /\ processed \subseteq ValidEvent
  /\ revenueCount \in [PaidEvent -> Nat]
  /\ routeFact \in [PaidEvent -> {"none", "bare", "priced"}]
  /\ paymentFact \subseteq PaymentEvent
  /\ searchFact \subseteq SearchEvent

(* What earlier generations of the group have left: of the paid bookings in the
   log, the first added the revenue of some, the second, reading them again,
   knew the routes of some but not their revenue; it also knew searches. *)
AnalyticsInit ==
  /\ log \in UNION {[1..n -> Event] : n \in 0..(MaxLog - 1)}
  /\ LET past == {log[i] : i \in 1..Len(log)} IN
     \E first \in SUBSET (past \cap PaidEvent),
        second \in SUBSET (past \cap (PaidEvent \cup SearchEvent)) :
       /\ processed = first \cup second
       /\ revenueCount = [e \in PaidEvent |-> IF e \in first \cup second THEN 1 ELSE 0]
       /\ routeFact = [e \in PaidEvent |-> IF e \in second THEN "bare" ELSE "none"]
       /\ searchFact = second \cap SearchEvent
  /\ paymentFact = {}
  /\ committed = 0
  /\ assignee = NoConsumer
  /\ position = [c \in Consumer |-> 0]

-----------------------------------------------------------------------------
(* A relay publishes an event, perhaps for the second time. *)
Produce(e) ==
  /\ Len(log) < MaxLog
  /\ log' = Append(log, e)
  /\ UNCHANGED <<committed, assignee, position, projections>>

(* The member starts, or the group is rebalanced: it reads from the committed
   offset.  The one before it may still be at work on a message. *)
Assign(c) ==
  /\ assignee # c
  /\ assignee' = c
  /\ position' = [position EXCEPT ![c] = committed]
  /\ UNCHANGED <<log, committed, projections>>

CurrentEvent(c) == log[position[c] + 1]

Read(c) == position' = [position EXCEPT ![c] = @ + 1]

(* Mutation: the route's fact is written for new events only. *)
applyBookingEventOnce(c) ==
  LET e == CurrentEvent(c) IN
  /\ e \in PaidEvent
  /\ processed' = processed \cup {e}
  /\ IF e \in processed
       THEN UNCHANGED <<revenueCount, routeFact>>
       ELSE /\ revenueCount' = [revenueCount EXCEPT ![e] = @ + 1]
            /\ routeFact' = [routeFact EXCEPT ![e] = "priced"]
  /\ UNCHANGED <<paymentFact, searchFact>>

(* Mutation: the daily revenue is added whether or not the event is new. *)
applyBookingEventTwice(c) ==
  LET e == CurrentEvent(c) IN
  /\ e \in PaidEvent
  /\ processed' = processed \cup {e}
  /\ revenueCount' = [revenueCount EXCEPT ![e] = @ + 1]
  /\ routeFact' = [routeFact EXCEPT ![e] = "priced"]
  /\ UNCHANGED <<paymentFact, searchFact>>

(* The revenue is added once, the route's fact is rewritten each time.  (Of the
   other booking events only the inbox keeps a row.) *)
applyBookingEvent(c) ==
  LET e == CurrentEvent(c) IN
  /\ e \in PaidEvent
  /\ processed' = processed \cup {e}
  /\ revenueCount' = [revenueCount EXCEPT ![e] = IF e \in processed THEN @ ELSE @ + 1]
  /\ routeFact' = [routeFact EXCEPT ![e] = "priced"]
  /\ UNCHANGED <<paymentFact, searchFact>>

applyPaymentEvent(c) ==
  LET e == CurrentEvent(c) IN
  /\ e \in PaymentEvent
  /\ processed' = processed \cup {e}
  /\ paymentFact' = paymentFact \cup {e}
  /\ UNCHANGED <<revenueCount, routeFact, searchFact>>

(* A search that was processed before returns early. *)
applySearchEvent(c) ==
  LET e == CurrentEvent(c) IN
  /\ e \in SearchEvent
  /\ processed' = processed \cup {e}
  /\ searchFact' = IF e \in processed THEN searchFact ELSE searchFact \cup {e}
  /\ UNCHANGED <<revenueCount, routeFact, paymentFact>>

(* Mutation: an invalid message fails, and is read again and again. *)
RejectInvalidByFailing(c) == FALSE /\ UNCHANGED analyticsVars

(* An invalid message is logged and passed over. *)
RejectInvalid(c) ==
  /\ CurrentEvent(c) \in InvalidEvent
  /\ UNCHANGED projections

(* eachMessage: the transaction of the message's service method has committed,
   by the assignee or by a member that does not know of the rebalance yet.  (A
   transaction that fails is tried again.)  The insertion into the inbox makes
   two transactions on one event follow each other. *)
EachMessage(c) ==
  /\ position[c] < Len(log)
  /\ \/ applyBookingEvent(c)
     \/ applyPaymentEvent(c)
     \/ applySearchEvent(c)
     \/ RejectInvalid(c)
  /\ Read(c)
  /\ UNCHANGED <<log, committed, assignee>>

(* The broker takes offsets from the assignee only. *)
CommitOffset(c) ==
  /\ assignee = c
  /\ committed < position[c]
  /\ committed' = position[c]
  /\ UNCHANGED <<log, assignee, position, projections>>

(* The assignee dies, or leaves. *)
Leave(c) ==
  /\ assignee = c
  /\ assignee' = NoConsumer
  /\ UNCHANGED <<log, committed, position, projections>>

-----------------------------------------------------------------------------
AnalyticsNext ==
  \/ \E e \in Event : Produce(e)
  \/ \E c \in Consumer : Assign(c) \/ EachMessage(c) \/ CommitOffset(c) \/ Leave(c)

AnalyticsSpec == AnalyticsInit /\ [][AnalyticsNext]_analyticsVars

(* While there is something to read the group finds a member again; its members
   do not all die before they have projected a message, nor before they have
   committed its offset. *)
AnalyticsFairness ==
  /\ WF_analyticsVars(\E c \in Consumer :
       assignee = NoConsumer /\ committed < Len(log) /\ Assign(c))
  /\ SF_analyticsVars(\E c \in Consumer : assignee = c /\ EachMessage(c))
  /\ SF_analyticsVars(\E c \in Consumer : CommitOffset(c))

-----------------------------------------------------------------------------
(* Duplicated, replayed and redelivered events, and replays over the tables of
   earlier generations, never count a payment twice, nor forget one that the
   inbox has. *)
RevenueCountedOnce ==
  \A e \in PaidEvent : revenueCount[e] = (IF e \in processed THEN 1 ELSE 0)

IsProjected(e) ==
  /\ e \in ValidEvent => e \in processed
  /\ e \in PaidEvent => routeFact[e] = "priced"
  /\ e \in PaymentEvent => e \in paymentFact
  /\ e \in SearchEvent => e \in searchFact

(* What the group is done with is in every projection, with its revenue, though
   an earlier generation had processed it for some of them: the routes add up
   to the daily revenue, and a lag of zero means that nothing is missing. *)
CommittedIsProjected == \A i \in 1..committed : IsProjected(log[i])

(* The group gets to the end of the log: no message stops it, nor do members
   that come and go. *)
LagVanishes == <>[](committed = Len(log))
=============================================================================
