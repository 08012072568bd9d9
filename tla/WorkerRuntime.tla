--------------------------- MODULE WorkerRuntime ----------------------------
(***************************************************************************)
(* The RabbitMQ consumer that Ticket Worker and Notification Worker share: *)
(* a durable queue with a retry queue and a dead-letter queue each, and    *)
(* deliveries that are acknowledged, or republished and then acknowledged. *)
(* What a handler does between Consume and Settle is up to its worker.     *)
(*                                                                         *)
(* A copy is one broker message in a main or retry queue.  A delivery runs *)
(* on a channel; when that closes, the broker hands the copy out again,    *)
(* while the handler runs on and finds out when it wants to acknowledge.   *)
(***************************************************************************)
EXTENDS Naturals, FiniteSets, Functions

CONSTANTS
  Queue,        \* main queues, one for each side effect
  Event,        \* BookingPaidV1 events
  Copy,         \* broker messages: bounds how many there are at once
  Job,          \* deliveries handled at once: prefetch and processes
  MaxAttempts,  \* TICKET_WORKER_MAX_ATTEMPTS
  NoCopy

ASSUME RuntimeAssumption == NoCopy \notin Copy /\ MaxAttempts \in Nat \ {0}

VARIABLES
  declared,  \* queues that exist
  routed,    \* <<queue, event>> pairs the broker has ever queued
  copy,      \* the broker's messages
  dead,      \* <<queue, event>> pairs in a dead-letter queue
  job        \* deliveries being handled

runtimeVars == <<declared, routed, copy, dead, job>>

Free == [at |-> "free"]
Message == [at : {"ready", "waiting", "unacked"}, queue : Queue, event : Event,
            retries : 0..MaxAttempts - 1]

Idle == [pc |-> "idle"]
Step == {"started", "unseen", "cancelled", "paid", "persisted", "issued",
         "done", "failed", "routed"}
Delivery == [pc : Step, copy : Copy \cup {NoCopy}, queue : Queue, event : Event,
             retries : 0..MaxAttempts - 1]

RuntimeTypeOK ==
  /\ declared \subseteq Queue
  /\ routed \subseteq Queue \X Event
  /\ copy \in [Copy -> {Free} \cup Message]
  /\ dead \subseteq Queue \X Event
  /\ job \in [Job -> {Idle} \cup Delivery]

RuntimeInit ==
  /\ declared = {}
  /\ routed = {}
  /\ copy = [m \in Copy |-> Free]
  /\ dead = {}
  /\ job = [j \in Job |-> Idle]

-----------------------------------------------------------------------------
FreeCopies == {m \in Copy : copy[m] = Free}

(* The bound Copy: room for n more copies and for a republication. *)
RoomFor(n) == Cardinality(FreeCopies) > n

(* start: a worker declares and binds its queues when it starts. *)
DeclareQueue(q) ==
  /\ q \notin declared
  /\ declared' = declared \cup {q}
  /\ UNCHANGED <<routed, copy, dead, job>>

(* The topic exchange puts a copy of an event into every bound queue. *)
Route(e) ==
  /\ RoomFor(Cardinality(declared))
  /\ \E to \in Injection(declared, FreeCopies) :
       copy' = [m \in Copy |->
         IF \E q \in declared : to[q] = m
           THEN [at |-> "ready", queue |-> CHOOSE q \in declared : to[q] = m,
                 event |-> e, retries |-> 0]
           ELSE copy[m]]
  /\ routed' = routed \cup (declared \X {e})
  /\ UNCHANGED <<declared, dead, job>>

Consume(j, m) ==
  /\ job[j] = Idle
  /\ copy[m].at = "ready"
  /\ copy' = [copy EXCEPT ![m].at = "unacked"]
  /\ job' = [job EXCEPT ![j] = [pc |-> "started", copy |-> m, queue |-> copy[m].queue,
                                event |-> copy[m].event, retries |-> copy[m].retries]]
  /\ UNCHANGED <<declared, routed, dead>>

Goto(j, pc) == job' = [job EXCEPT ![j].pc = pc]

(* consume: the handler has returned; or the failure has been routed. *)
Ack(j) ==
  /\ job[j].pc \in {"done", "routed"} /\ job[j].copy # NoCopy
  /\ copy' = [copy EXCEPT ![job[j].copy] = Free]
  /\ job' = [job EXCEPT ![j] = Idle]
  /\ UNCHANGED <<declared, routed, dead>>

(* Mutation: a delivery that has used up its attempts is retried once more. *)
RouteFailureForEver(j) ==
  LET d == job[j] IN
  /\ d.pc = "failed" /\ d.copy # NoCopy
  /\ \E m \in FreeCopies :
       copy' = [copy EXCEPT ![m] = [at |-> "waiting", queue |-> d.queue, event |-> d.event,
                                    retries |-> d.retries + 1]]
  /\ Goto(j, "routed")
  /\ UNCHANGED <<declared, routed, dead>>

(* Mutation: publish is not awaited, and the delivery acknowledged anyway. *)
RouteFailureUnconfirmed(j) ==
  /\ job[j].pc = "failed" /\ job[j].copy # NoCopy
  /\ Goto(j, "routed")
  /\ UNCHANGED <<declared, routed, copy, dead>>

(* routeFailure: republish to the retry queue or the dead-letter queue, and
   wait for the broker's confirmation before the acknowledgement. *)
RouteFailure(j) ==
  LET d == job[j] IN
  /\ d.pc = "failed" /\ d.copy # NoCopy
  /\ IF d.retries + 1 >= MaxAttempts
       THEN dead' = dead \cup {<<d.queue, d.event>>} /\ UNCHANGED copy
       ELSE /\ \E m \in FreeCopies :
                 copy' = [copy EXCEPT ![m] = [at |-> "waiting", queue |-> d.queue,
                                              event |-> d.event, retries |-> d.retries + 1]]
            /\ UNCHANGED dead
  /\ Goto(j, "routed")
  /\ UNCHANGED <<declared, routed>>

(* x-message-ttl ends; the broker moves the message back to its main queue. *)
RetryDelayEnds(m) ==
  /\ copy[m].at = "waiting"
  /\ copy' = [copy EXCEPT ![m].at = "ready"]
  /\ UNCHANGED <<declared, routed, dead, job>>

Requeue(m) == copy' = [copy EXCEPT ![m].at = "ready"]

(* The handler of a delivery whose channel has closed runs on.  After a
   republication this leaves a copy too many, hence the bound. *)
ChannelCloses(j) ==
  /\ job[j] # Idle
  /\ job[j].copy # NoCopy
  /\ job[j].pc = "routed" => RoomFor(0)
  /\ Requeue(job[j].copy)
  /\ job' = [job EXCEPT ![j].copy = NoCopy]
  /\ UNCHANGED <<declared, routed, dead>>

(* The process dies: for any reason, or because acknowledging or republishing
   on a closed channel throws out of consume. *)
Dies(j) ==
  /\ job[j] # Idle
  /\ IF job[j].copy = NoCopy
       THEN UNCHANGED copy
       ELSE (job[j].pc = "routed" => RoomFor(0)) /\ Requeue(job[j].copy)
  /\ job' = [job EXCEPT ![j] = Idle]
  /\ UNCHANGED <<declared, routed, dead>>

(* A copy of q's e is in the main or the retry queue, or being handled. *)
InFlight(q, e) == \E m \in Copy : copy[m] # Free /\ copy[m].queue = q /\ copy[m].event = e
=============================================================================
