-------------------------- MODULE FulfilmentProofs --------------------------
(***************************************************************************)
(* What fulfilment promises, for any events, deliveries, broker messages   *)
(* and number of attempts.  The invariant has three parts: what the broker *)
(* and the deliveries agree on, what the rows of the three services say    *)
(* about each other, and what each handler may rely on where it stands.    *)
(***************************************************************************)
EXTENDS Fulfilment, TLAPS

Busy(j) == job[j] # Idle

(* A delivery whose channel is open holds the broker's unacknowledged message,
   and no two deliveries hold the same one. *)
JobsHold ==
  \A j \in Job : Busy(j) /\ job[j].copy # NoCopy =>
    /\ copy[job[j].copy] # Free
    /\ copy[job[j].copy].at = "unacked"
    /\ copy[job[j].copy].queue = job[j].queue
    /\ copy[job[j].copy].event = job[j].event

JobsDiffer ==
  \A i, j \in Job : i # j /\ Busy(i) /\ Busy(j) /\ job[i].copy = job[j].copy =>
    job[i].copy = NoCopy

RuntimeInv == RuntimeTypeOK /\ JobsHold /\ JobsDiffer

(* The rows of Booking and of the workers. *)
Pending(q, e) == inbox[q][e] \in {"pending", "fulfilled"}

RowsAgree ==
  \A e \in Event :
    /\ \A q \in Queue : /\ inbox[q][e] = "skipped" => status[e] = "CANCELLED"
                        /\ <<q, e>> \in made <=> Pending(q, e)
    /\ e \in refs \cup lateIssues => Pending("ticket", e)
    /\ inbox["ticket"][e] = "fulfilled" => e \in refs
    /\ inbox["mail"][e] # "pending"
    /\ status[e] \in {"TICKET_ISSUED", "CHECKED_IN"} => e \in refs

(* An event needs no further delivery. *)
Over(q, e) == Settled(q, e) \/ (q = "ticket" /\ status[e] = "CANCELLED")

(* What a handler may rely on. *)
Knows(j) ==
  LET q == job[j].queue
      e == job[j].event
  IN /\ job[j].pc = "cancelled" => status[e] = "CANCELLED"
     /\ job[j].pc \in {"persisted", "issued"} => q = "ticket" /\ Pending(q, e)
     /\ job[j].pc = "issued" => e \in refs
     /\ job[j].pc = "done" => Over(q, e)

JobsKnow == \A j \in Job : Busy(j) => Knows(j)

(* A copy that is not about to be acknowledged after a republication. *)
Live(m) ==
  /\ copy[m] # Free
  /\ \A j \in Job : Busy(j) /\ job[j].pc = "routed" => job[j].copy # m

Kept(q, e) ==
  \/ Over(q, e)
  \/ <<q, e>> \in dead
  \/ \E m \in Copy : Live(m) /\ copy[m].queue = q /\ copy[m].event = e

AllKept == \A q \in Queue, e \in Event : <<q, e>> \in routed => Kept(q, e)

-----------------------------------------------------------------------------
LEMMA Delivering ==
  ASSUME RuntimeTypeOK, NEW j \in Job, Busy(j)
  PROVE  /\ job[j] \in Delivery
         /\ job[j].queue \in Queue /\ job[j].event \in Event
         /\ job[j].retries \in 0..MaxAttempts - 1
         /\ job[j].copy \in Copy \cup {NoCopy}
BY DEF RuntimeTypeOK, Busy, Delivery

LEMMA Filled ==
  ASSUME RuntimeTypeOK, NEW m \in Copy, copy[m] # Free
  PROVE  /\ copy[m] \in Message
         /\ copy[m].queue \in Queue /\ copy[m].event \in Event
         /\ copy[m].retries \in 0..MaxAttempts - 1
BY DEF RuntimeTypeOK, Message

(* A handler's step moves its delivery and nothing else of the runtime. *)
LEMMA GotoMoves ==
  ASSUME RuntimeTypeOK, NEW j \in Job, Busy(j), NEW pc \in Step, Goto(j, pc)
  PROVE  /\ job' \in [Job -> {Idle} \cup Delivery]
         /\ \A i \in Job : i # j => job'[i] = job[i]
         /\ Busy(j)' /\ job'[j].pc = pc
         /\ job'[j].copy = job[j].copy /\ job'[j].queue = job[j].queue
         /\ job'[j].event = job[j].event
<1> DEFINE d == [job[j] EXCEPT !.pc = pc]
<1>1. job[j] \in Delivery
  BY Delivering
<1>2. d \in Delivery /\ d.pc = pc /\ d.copy = job[j].copy /\ d.queue = job[j].queue
      /\ d.event = job[j].event
  BY <1>1 DEF Delivery
<1>3. job' = [job EXCEPT ![j] = d]
  BY DEF Goto
<1>4. d # Idle
  BY <1>2 DEF Idle, Step
<1>5. job'[j] = d /\ \A i \in Job : i # j => job'[i] = job[i]
  BY <1>3 DEF RuntimeTypeOK
<1> HIDE DEF d
<1> QED BY <1>2, <1>3, <1>4, <1>5 DEF RuntimeTypeOK, Busy

(* A message's place in the broker changes, its contents stay. *)
LEMMA CopyMoves ==
  ASSUME RuntimeTypeOK, NEW m \in Copy, copy[m] # Free,
         NEW at \in {"ready", "waiting", "unacked"},
         copy' = [copy EXCEPT ![m].at = at]
  PROVE  /\ copy' \in [Copy -> {Free} \cup Message]
         /\ \A n \in Copy : n # m => copy'[n] = copy[n]
         /\ copy'[m] # Free /\ copy'[m].at = at
         /\ copy'[m].queue = copy[m].queue /\ copy'[m].event = copy[m].event
<1> DEFINE c == [copy[m] EXCEPT !.at = at]
<1>1. copy[m] \in Message
  BY Filled
<1>2. c \in Message /\ c.at = at /\ c.queue = copy[m].queue /\ c.event = copy[m].event
  BY <1>1 DEF Message
<1>3. copy' = [copy EXCEPT ![m] = c]
  OBVIOUS
<1>4. c # Free
  BY <1>2 DEF Free
<1>5. copy'[m] = c /\ \A n \in Copy : n # m => copy'[n] = copy[n]
  BY <1>3 DEF RuntimeTypeOK
<1> HIDE DEF c
<1> QED BY <1>2, <1>3, <1>4, <1>5 DEF RuntimeTypeOK

(* Requests and republications leave the deliveries' copies alone, so that
   what holds of the runtime follows from the copies they keep. *)
LEMMA HandleRuntime ==
  ASSUME RuntimeInv, NEW j \in Job, Busy(j), NEW pc \in Step, Goto(j, pc),
         UNCHANGED <<declared, routed, copy, dead>>
  PROVE  RuntimeInv'
<1> USE DEF RuntimeInv
<1>1. /\ job' \in [Job -> {Idle} \cup Delivery]
      /\ \A i \in Job : i # j => job'[i] = job[i]
      /\ job'[j].copy = job[j].copy /\ job'[j].queue = job[j].queue
      /\ job'[j].event = job[j].event
  BY GotoMoves
<1>2. RuntimeTypeOK'
  BY <1>1 DEF RuntimeTypeOK
<1>3. JobsHold'
  <2> SUFFICES ASSUME NEW i \in Job, Busy(i)', job'[i].copy # NoCopy
               PROVE  /\ copy[job'[i].copy] # Free
                      /\ copy[job'[i].copy].at = "unacked"
                      /\ copy[job'[i].copy].queue = job'[i].queue
                      /\ copy[job'[i].copy].event = job'[i].event
    BY DEF JobsHold, Busy
  <2> QED BY <1>1 DEF JobsHold, Busy
<1>4. JobsDiffer'
  BY <1>1 DEF JobsDiffer, Busy
<1> QED BY <1>2, <1>3, <1>4

LEMMA RouteRuntime ==
  ASSUME RuntimeInv, NEW e \in Event, Route(e)
  PROVE  RuntimeInv'
<1> USE DEF RuntimeInv
<1>1. PICK to \in Injection(declared, FreeCopies) :
        copy' = [m \in Copy |->
          IF \E q \in declared : to[q] = m
            THEN [at |-> "ready", queue |-> CHOOSE q \in declared : to[q] = m,
                  event |-> e, retries |-> 0]
            ELSE copy[m]]
  BY DEF Route
<1>2. to \in [declared -> FreeCopies]
  BY DEF Injection
<1>3. UNCHANGED <<declared, dead, job>> /\ routed' = routed \cup (declared \X {e})
  BY DEF Route
<1>4. copy' \in [Copy -> {Free} \cup Message]
  <2> SUFFICES ASSUME NEW m \in Copy PROVE copy'[m] \in {Free} \cup Message
    BY <1>1
  <2>1. CASE \E q \in declared : to[q] = m
    <3>1. (CHOOSE q \in declared : to[q] = m) \in Queue
      BY <2>1 DEF RuntimeTypeOK
    <3>2. 0 \in 0..MaxAttempts - 1
      BY RuntimeAssumption
    <3> QED BY <1>1, <2>1, <3>1, <3>2 DEF Message
  <2>2. CASE ~ \E q \in declared : to[q] = m
    BY <1>1, <2>2 DEF RuntimeTypeOK
  <2> QED BY <2>1, <2>2
<1>5. RuntimeTypeOK'
  BY <1>3, <1>4 DEF RuntimeTypeOK
<1>6. \A m \in Copy : copy[m] # Free => copy'[m] = copy[m]
  BY <1>1, <1>2 DEF FreeCopies
<1>7. JobsHold'
  <2> SUFFICES ASSUME NEW i \in Job, Busy(i), job[i].copy # NoCopy
               PROVE  /\ copy'[job[i].copy] # Free
                      /\ copy'[job[i].copy].at = "unacked"
                      /\ copy'[job[i].copy].queue = job[i].queue
                      /\ copy'[job[i].copy].event = job[i].event
    BY <1>3 DEF JobsHold, Busy
  <2>1. job[i].copy \in Copy
    BY Delivering
  <2> QED BY <1>6, <2>1 DEF JobsHold
<1>8. JobsDiffer'
  BY <1>3 DEF JobsDiffer, Busy
<1> QED BY <1>5, <1>7, <1>8

LEMMA BrokerRuntime ==
  ASSUME RuntimeInv, (\E q \in Queue : DeclareQueue(q)) \/ (\E m \in Copy : RetryDelayEnds(m))
  PROVE  RuntimeInv'
<1> USE DEF RuntimeInv
<1>1. CASE \E q \in Queue : DeclareQueue(q)
  BY <1>1 DEF DeclareQueue, RuntimeTypeOK, JobsHold, JobsDiffer, Busy
<1>2. ASSUME NEW m \in Copy, RetryDelayEnds(m) PROVE RuntimeInv'
  <2>1. /\ copy[m] # Free /\ copy[m].at = "waiting"
        /\ copy' = [copy EXCEPT ![m].at = "ready"]
        /\ UNCHANGED <<declared, routed, dead, job>>
    BY <1>2 DEF RetryDelayEnds, Free
  <2>2. /\ copy' \in [Copy -> {Free} \cup Message]
        /\ \A n \in Copy : n # m => copy'[n] = copy[n]
    BY <2>1, CopyMoves
  <2>3. RuntimeTypeOK'
    BY <2>1, <2>2 DEF RuntimeTypeOK
  <2>4. JobsHold'
    <3> SUFFICES ASSUME NEW i \in Job, Busy(i), job[i].copy # NoCopy
                 PROVE  copy'[job[i].copy] = copy[job[i].copy]
      BY <2>1 DEF JobsHold, Busy
    <3>1. job[i].copy \in Copy /\ copy[job[i].copy].at = "unacked"
      BY Delivering DEF JobsHold
    <3> QED BY <2>1, <2>2, <3>1
  <2>5. JobsDiffer'
    BY <2>1 DEF JobsDiffer, Busy
  <2> QED BY <2>3, <2>4, <2>5
<1> QED BY <1>1, <1>2

LEMMA ConsumeRuntime ==
  ASSUME RuntimeInv, NEW j \in Job, NEW m \in Copy, Consume(j, m)
  PROVE  RuntimeInv'
<1> USE DEF RuntimeInv
<1> DEFINE d == [pc |-> "started", copy |-> m, queue |-> copy[m].queue,
                 event |-> copy[m].event, retries |-> copy[m].retries]
<1>1. /\ copy[m] # Free /\ copy[m].at = "ready" /\ ~Busy(j)
      /\ copy' = [copy EXCEPT ![m].at = "unacked"]
      /\ job' = [job EXCEPT ![j] = d]
      /\ UNCHANGED <<declared, routed, dead>>
  BY DEF Consume, Free, Busy
<1>2. /\ copy' \in [Copy -> {Free} \cup Message]
      /\ \A n \in Copy : n # m => copy'[n] = copy[n]
      /\ copy'[m] # Free /\ copy'[m].at = "unacked"
      /\ copy'[m].queue = copy[m].queue /\ copy'[m].event = copy[m].event
  BY <1>1, CopyMoves
<1>3. d \in Delivery
  BY <1>1, Filled DEF Delivery, Step
<1>4. job'[j] = d /\ \A i \in Job : i # j => job'[i] = job[i]
  BY <1>1 DEF RuntimeTypeOK
<1>5. d.copy = m /\ d.queue = copy[m].queue /\ d.event = copy[m].event
  OBVIOUS
<1> HIDE DEF d
<1>6. RuntimeTypeOK'
  BY <1>1, <1>2, <1>3 DEF RuntimeTypeOK
<1>7. \A i \in Job : Busy(i) => job[i].copy # m
  BY <1>1, RuntimeAssumption DEF JobsHold
<1>8. JobsHold'
  <2> SUFFICES ASSUME NEW i \in Job, Busy(i)', job'[i].copy # NoCopy
               PROVE  /\ copy'[job'[i].copy] # Free
                      /\ copy'[job'[i].copy].at = "unacked"
                      /\ copy'[job'[i].copy].queue = job'[i].queue
                      /\ copy'[job'[i].copy].event = job'[i].event
    BY DEF JobsHold
  <2>1. CASE i = j
    BY <2>1, <1>2, <1>4, <1>5
  <2>2. CASE i # j
    <3>1. Busy(i) /\ job'[i] = job[i]
      BY <2>2, <1>4 DEF Busy
    <3>2. job[i].copy \in Copy /\ job[i].copy # m
      BY <3>1, <1>7, Delivering
    <3> QED BY <3>1, <3>2, <1>2 DEF JobsHold
  <2> QED BY <2>1, <2>2
<1>9. JobsDiffer'
  BY <1>4, <1>5, <1>7 DEF JobsDiffer, Busy
<1> QED BY <1>6, <1>8, <1>9

LEMMA AckRuntime ==
  ASSUME RuntimeInv, NEW j \in Job, Ack(j)
  PROVE  RuntimeInv'
<1> USE DEF RuntimeInv
<1> DEFINE m == job[j].copy
<1>1. Busy(j)
  BY DEF Ack, Busy, Idle
<1>2. m \in Copy /\ m # NoCopy
  BY <1>1, Delivering DEF Ack
<1>3. /\ copy' = [copy EXCEPT ![m] = Free] /\ job' = [job EXCEPT ![j] = Idle]
      /\ UNCHANGED <<declared, routed, dead>>
  BY DEF Ack
<1>4. ~Busy(j)' /\ \A i \in Job : i # j => job'[i] = job[i]
  BY <1>3 DEF RuntimeTypeOK, Busy
<1>5. \A n \in Copy : n # m => copy'[n] = copy[n]
  BY <1>2, <1>3 DEF RuntimeTypeOK
<1>6. RuntimeTypeOK'
  BY <1>2, <1>3 DEF RuntimeTypeOK
<1>7. JobsHold'
  <2> SUFFICES ASSUME NEW i \in Job, Busy(i)', job'[i].copy # NoCopy
               PROVE  /\ copy'[job'[i].copy] # Free
                      /\ copy'[job'[i].copy].at = "unacked"
                      /\ copy'[job'[i].copy].queue = job'[i].queue
                      /\ copy'[job'[i].copy].event = job'[i].event
    BY DEF JobsHold
  <2>1. i # j /\ Busy(i) /\ job'[i] = job[i]
    BY <1>4 DEF Busy
  <2>2. job[i].copy \in Copy /\ job[i].copy # m
    BY <1>1, <1>2, <2>1, Delivering DEF JobsDiffer
  <2> QED BY <1>5, <2>1, <2>2 DEF JobsHold
<1>8. JobsDiffer'
  BY <1>4 DEF JobsDiffer, Busy
<1> QED BY <1>6, <1>7, <1>8

LEMMA RouteFailureRuntime ==
  ASSUME RuntimeInv, NEW j \in Job, RouteFailure(j)
  PROVE  RuntimeInv'
<1> USE DEF RuntimeInv
<1> DEFINE d == job[j]
<1>1. Busy(j) /\ Goto(j, "routed") /\ UNCHANGED <<declared, routed>>
  BY DEF RouteFailure, Busy, Idle
<1>2. d.queue \in Queue /\ d.event \in Event /\ d.retries \in 0..MaxAttempts - 1
  BY <1>1, Delivering
<1>3. /\ job' \in [Job -> {Idle} \cup Delivery]
      /\ \A i \in Job : i # j => job'[i] = job[i]
      /\ job'[j].copy = d.copy /\ job'[j].queue = d.queue /\ job'[j].event = d.event
  BY <1>1, GotoMoves DEF Step
<1>4. /\ copy' \in [Copy -> {Free} \cup Message]
      /\ \A n \in Copy : copy[n] # Free => copy'[n] = copy[n]
      /\ dead' \subseteq Queue \X Event
  <2>1. CASE d.retries + 1 >= MaxAttempts
    BY <2>1, <1>2 DEF RouteFailure, RuntimeTypeOK
  <2>2. CASE d.retries + 1 < MaxAttempts
    <3>1. d.retries + 1 \in 0..MaxAttempts - 1 /\ ~(d.retries + 1 >= MaxAttempts)
      BY <1>2, <2>2, RuntimeAssumption
    <3>2. PICK m \in FreeCopies :
            copy' = [copy EXCEPT ![m] = [at |-> "waiting", queue |-> d.queue,
                                         event |-> d.event, retries |-> d.retries + 1]]
      BY <3>1 DEF RouteFailure
    <3>3. [at |-> "waiting", queue |-> d.queue, event |-> d.event,
           retries |-> d.retries + 1] \in Message
      BY <1>2, <3>1 DEF Message
    <3>4. UNCHANGED dead
      BY <3>1 DEF RouteFailure
    <3> QED BY <3>2, <3>3, <3>4 DEF RuntimeTypeOK, FreeCopies
  <2> QED BY <1>2, <2>1, <2>2, RuntimeAssumption
<1>5. RuntimeTypeOK'
  BY <1>1, <1>3, <1>4 DEF RuntimeTypeOK
<1>6. JobsHold'
  <2> SUFFICES ASSUME NEW i \in Job, Busy(i)', job'[i].copy # NoCopy
               PROVE  /\ copy'[job'[i].copy] # Free
                      /\ copy'[job'[i].copy].at = "unacked"
                      /\ copy'[job'[i].copy].queue = job'[i].queue
                      /\ copy'[job'[i].copy].event = job'[i].event
    BY DEF JobsHold
  <2>1. /\ Busy(i) /\ job'[i].copy = job[i].copy
        /\ job'[i].queue = job[i].queue /\ job'[i].event = job[i].event
    BY <1>1, <1>3 DEF Busy
  <2>2. job[i].copy \in Copy
    BY <2>1, Delivering
  <2> QED BY <1>4, <2>1, <2>2 DEF JobsHold
<1>7. JobsDiffer'
  BY <1>1, <1>3 DEF JobsDiffer, Busy
<1> QED BY <1>5, <1>6, <1>7

(* A fault gives the copy, if the delivery still has it, back to the queue. *)
LEMMA FaultMoves ==
  ASSUME RuntimeInv, NEW j \in Job, ChannelCloses(j) \/ Dies(j)
  PROVE  /\ RuntimeInv'
         /\ UNCHANGED <<declared, routed, dead>>
         /\ \A i \in Job : i # j => job'[i] = job[i]
         /\ Busy(j)' => /\ job'[j].copy = NoCopy /\ job'[j].pc = job[j].pc
                        /\ job'[j].queue = job[j].queue /\ job'[j].event = job[j].event
         /\ Busy(j)
         /\ \A n \in Copy : /\ copy'[n] # Free <=> copy[n] # Free
                            /\ copy'[n].queue = copy[n].queue
                            /\ copy'[n].event = copy[n].event
<1> USE DEF RuntimeInv
<1> DEFINE m == job[j].copy
           d == [job[j] EXCEPT !.copy = NoCopy]
<1>1. Busy(j) /\ job[j] \in Delivery /\ UNCHANGED <<declared, routed, dead>>
  BY Delivering DEF ChannelCloses, Dies, Busy
<1>2. d \in Delivery /\ d.copy = NoCopy /\ d.pc = job[j].pc
      /\ d.queue = job[j].queue /\ d.event = job[j].event
  BY <1>1 DEF Delivery
<1>3. job' = [job EXCEPT ![j] = d] \/ job' = [job EXCEPT ![j] = Idle]
  BY DEF ChannelCloses, Dies
<1>4. /\ job' \in [Job -> {Idle} \cup Delivery]
      /\ job'[j] = d \/ job'[j] = Idle
      /\ \A i \in Job : i # j => job'[i] = job[i]
  <2> HIDE DEF d
  <2> QED BY <1>2, <1>3 DEF RuntimeTypeOK
<1> HIDE DEF d
<1>5. CASE m = NoCopy
  <2>1. UNCHANGED copy
    BY <1>5 DEF ChannelCloses, Dies
  <2>2. RuntimeTypeOK'
    BY <1>1, <1>4, <2>1 DEF RuntimeTypeOK
  <2>3. \A i \in Job : Busy(i)' /\ job'[i].copy # NoCopy => i # j /\ job'[i] = job[i]
    BY <1>2, <1>4 DEF Busy
  <2>4. JobsHold'
    BY <2>1, <2>3 DEF JobsHold, Busy
  <2>5. JobsDiffer'
    BY <1>2, <1>4 DEF JobsDiffer, Busy
  <2> QED BY <1>1, <1>2, <1>4, <2>1, <2>2, <2>4, <2>5 DEF Busy
<1>6. CASE m # NoCopy
  <2>1. m \in Copy /\ copy[m] # Free /\ copy' = [copy EXCEPT ![m].at = "ready"]
    BY <1>1, <1>6, Delivering DEF ChannelCloses, Dies, Requeue, JobsHold
  <2>2. /\ copy' \in [Copy -> {Free} \cup Message]
        /\ \A n \in Copy : n # m => copy'[n] = copy[n]
        /\ copy'[m] # Free
        /\ copy'[m].queue = copy[m].queue /\ copy'[m].event = copy[m].event
    BY <2>1, CopyMoves
  <2>3. RuntimeTypeOK'
    BY <1>1, <1>4, <2>2 DEF RuntimeTypeOK
  <2>4. JobsHold'
    <3> SUFFICES ASSUME NEW i \in Job, Busy(i)', job'[i].copy # NoCopy
                 PROVE  /\ copy'[job'[i].copy] # Free
                        /\ copy'[job'[i].copy].at = "unacked"
                        /\ copy'[job'[i].copy].queue = job'[i].queue
                        /\ copy'[job'[i].copy].event = job'[i].event
      BY DEF JobsHold
    <3>1. i # j /\ Busy(i) /\ job'[i] = job[i]
      BY <1>2, <1>4 DEF Busy
    <3>2. job[i].copy \in Copy /\ job[i].copy # m
      BY <1>1, <1>6, <3>1, Delivering DEF JobsDiffer
    <3> QED BY <2>2, <3>1, <3>2 DEF JobsHold
  <2>5. JobsDiffer'
    BY <1>2, <1>4 DEF JobsDiffer, Busy
  <2> QED BY <1>1, <1>2, <1>4, <2>1, <2>2, <2>3, <2>4, <2>5 DEF Busy
<1> QED BY <1>5, <1>6

-----------------------------------------------------------------------------
DataTypeOK ==
  /\ status \in [Event -> Status]
  /\ refs \subseteq Event
  /\ published \subseteq Event
  /\ inbox \in [Queue -> [Event -> {"none", "pending", "fulfilled", "skipped"}]]
  /\ made \subseteq Queue \X Event
  /\ lateIssues \subseteq Event

(* What no step takes back: handlers read these facts and rely on them later. *)
Grows ==
  \A e \in Event :
    /\ status[e] = "CANCELLED" => status'[e] = "CANCELLED"
    /\ e \in refs => e \in refs'
    /\ \A q \in Queue : (Pending(q, e) => Pending(q, e)') /\ (Over(q, e) => Over(q, e)')

Rows == DataTypeOK /\ RowsAgree

Inv == RuntimeInv /\ Rows /\ JobsKnow /\ AllKept

LEMMA MailRow ==
  ASSUME Rows, NEW e \in Event
  PROVE  inbox["mail"][e] \in {"none", "fulfilled", "skipped"}
<1>1. inbox["mail"][e] # "pending"
  BY DEF Rows, RowsAgree
<1>2. inbox["mail"][e] \in {"none", "pending", "fulfilled", "skipped"}
  BY QueueAssumption DEF Rows, DataTypeOK
<1> QED BY <1>1, <1>2

LEMMA MoveRows ==
  ASSUME Rows, NEW e \in Event, MarkPaid(e) \/ MarkCancelled(e) \/ CheckInTicket(e)
  PROVE  Rows' /\ Grows
<1> USE DEF Rows
<1>1. UNCHANGED <<refs, published, inbox, made, lateIssues>>
  BY DEF MarkPaid, MarkCancelled, CheckInTicket, Move, workerVars
<1>2. PICK to \in {"PAID", "CANCELLED", "CHECKED_IN"} :
        /\ status' = [status EXCEPT ![e] = to]
        /\ status[e] # "CANCELLED"
        /\ to = "CHECKED_IN" => status[e] = "TICKET_ISSUED"
  BY DEF MarkPaid, MarkCancelled, CheckInTicket, Move
<1>3. status'[e] = to /\ \A f \in Event : f # e => status'[f] = status[f]
  BY <1>2 DEF DataTypeOK
<1>4. DataTypeOK'
  BY <1>1, <1>2 DEF DataTypeOK, Status
<1>5. RowsAgree'
  BY <1>1, <1>2, <1>3 DEF RowsAgree, Pending
<1>6. Grows
  BY <1>1, <1>2, <1>3 DEF Grows, Pending, Over, Settled
<1> QED BY <1>4, <1>5, <1>6

LEMMA IssuedRows ==
  ASSUME Rows, NEW e \in Event, Pending("ticket", e), MarkTicketIssued(e),
         UNCHANGED <<published, inbox, made>>, lateIssues' \subseteq lateIssues
  PROVE  Rows' /\ Grows /\ e \in refs'
<1> USE DEF Rows
<1>1. refs' = refs \cup {e} /\ status[e] # "CANCELLED"
  BY DEF MarkTicketIssued
<1>2. /\ status' \in [Event -> Status]
      /\ status'[e] # "CANCELLED"
      /\ \A f \in Event : f # e => status'[f] = status[f]
  BY DEF MarkTicketIssued, DataTypeOK, Status
<1>3. DataTypeOK'
  BY <1>1, <1>2 DEF DataTypeOK
<1>4. RowsAgree'
  BY <1>1, <1>2, QueueAssumption DEF RowsAgree, Pending
<1>5. Grows
  BY <1>1, <1>2 DEF Grows, Pending, Over, Settled
<1> QED BY <1>1, <1>3, <1>4, <1>5

LEMMA ReadRows ==
  ASSUME Rows, UNCHANGED <<status, refs, inbox, made, lateIssues>>, published' \subseteq Event
  PROVE  Rows' /\ Grows
BY DEF Rows, DataTypeOK, RowsAgree, Grows, Pending, Over, Settled

(* ON CONFLICT DO NOTHING *)
LEMMA InsertMoves ==
  ASSUME DataTypeOK, NEW d, d.queue \in Queue, d.event \in Event,
         NEW row \in {"pending", "fulfilled", "skipped"}, InsertInbox(d, row)
  PROVE  /\ inbox' \in [Queue -> [Event -> {"none", "pending", "fulfilled", "skipped"}]]
         /\ \A q \in Queue, e \in Event :
              inbox'[q][e] = IF q = d.queue /\ e = d.event /\ inbox[q][e] = "none"
                               THEN row ELSE inbox[q][e]
<1>1. CASE inbox[d.queue][d.event] = "none"
  <2> DEFINE slip == [inbox[d.queue] EXCEPT ![d.event] = row]
  <2>1. slip \in [Event -> {"none", "pending", "fulfilled", "skipped"}]
    BY DEF DataTypeOK
  <2>2. slip[d.event] = row /\ \A e \in Event : e # d.event => slip[e] = inbox[d.queue][e]
    BY DEF DataTypeOK
  <2>3. inbox' = [inbox EXCEPT ![d.queue] = slip]
    BY <1>1 DEF InsertInbox
  <2> HIDE DEF slip
  <2> QED BY <1>1, <2>1, <2>2, <2>3 DEF DataTypeOK
<1>2. CASE inbox[d.queue][d.event] # "none"
  BY <1>2 DEF InsertInbox, DataTypeOK
<1> QED BY <1>1, <1>2

LEMMA SkippedRows ==
  ASSUME Rows, NEW d, d.queue \in Queue, d.event \in Event, status[d.event] = "CANCELLED",
         InsertInbox(d, "skipped"), UNCHANGED <<status, refs, published, made, lateIssues>>
  PROVE  Rows' /\ Grows /\ Over(d.queue, d.event)'
<1> USE DEF Rows
<1>1. /\ inbox' \in [Queue -> [Event -> {"none", "pending", "fulfilled", "skipped"}]]
      /\ \A q \in Queue, e \in Event :
           inbox'[q][e] = IF q = d.queue /\ e = d.event /\ inbox[q][e] = "none"
                            THEN "skipped" ELSE inbox[q][e]
  BY InsertMoves
<1>2. DataTypeOK'
  BY <1>1 DEF DataTypeOK
<1>3. RowsAgree'
  <2> SUFFICES ASSUME NEW e \in Event
               PROVE  /\ \A q \in Queue : /\ inbox'[q][e] = "skipped" => status[e] = "CANCELLED"
                                          /\ <<q, e>> \in made <=> Pending(q, e)'
                      /\ e \in refs \cup lateIssues => Pending("ticket", e)'
                      /\ inbox'["ticket"][e] = "fulfilled" => e \in refs
                      /\ inbox'["mail"][e] # "pending"
                      /\ status[e] \in {"TICKET_ISSUED", "CHECKED_IN"} => e \in refs
    BY DEF RowsAgree
  <2> QED BY <1>1, QueueAssumption DEF RowsAgree, Pending
<1>4. Grows
  BY <1>1 DEF Grows, Pending, Over, Settled
<1>5. Over(d.queue, d.event)'
  <2>1. CASE d.queue = "ticket"
    BY <2>1 DEF Over
  <2>2. CASE d.queue = "mail"
    <3>1. inbox["mail"][d.event] \in {"none", "fulfilled", "skipped"}
      BY MailRow
    <3> QED BY <1>1, <2>2, <3>1 DEF Over, Settled
  <2> QED BY <2>1, <2>2, QueueAssumption
<1> QED BY <1>2, <1>3, <1>4, <1>5

LEMMA PersistRows ==
  ASSUME Rows, NEW d, d.queue \in Queue, d.event \in Event,
         InsertInbox(d, IF d.queue = "ticket" THEN "pending" ELSE "fulfilled"),
         made' = IF inbox[d.queue][d.event] = "none" THEN made \cup {<<d.queue, d.event>>}
                                                    ELSE made,
         UNCHANGED <<status, refs, published, lateIssues>>
  PROVE  Rows' /\ Grows /\ (d.queue = "mail" => Over(d.queue, d.event)')
<1> USE DEF Rows
<1> DEFINE row == IF d.queue = "ticket" THEN "pending" ELSE "fulfilled"
<1>1. /\ row \in {"pending", "fulfilled"}
      /\ d.queue = "ticket" => row = "pending"
      /\ d.queue # "ticket" => row = "fulfilled"
  OBVIOUS
<1>2. /\ inbox' \in [Queue -> [Event -> {"none", "pending", "fulfilled", "skipped"}]]
      /\ \A q \in Queue, e \in Event :
           inbox'[q][e] = IF q = d.queue /\ e = d.event /\ inbox[q][e] = "none"
                            THEN row ELSE inbox[q][e]
  BY <1>1, InsertMoves
<1> HIDE DEF row
<1>3. DataTypeOK'
  BY <1>2 DEF DataTypeOK
<1>4. RowsAgree'
  <2> SUFFICES ASSUME NEW e \in Event
               PROVE  /\ \A q \in Queue : /\ inbox'[q][e] = "skipped" => status[e] = "CANCELLED"
                                          /\ <<q, e>> \in made' <=> Pending(q, e)'
                      /\ e \in refs \cup lateIssues => Pending("ticket", e)'
                      /\ inbox'["ticket"][e] = "fulfilled" => e \in refs
                      /\ inbox'["mail"][e] # "pending"
                      /\ status[e] \in {"TICKET_ISSUED", "CHECKED_IN"} => e \in refs
    BY DEF RowsAgree
  <2>1. \A q \in Queue : inbox'[q][e] = "skipped" => status[e] = "CANCELLED"
    BY <1>1, <1>2 DEF RowsAgree
  <2>2. \A q \in Queue : <<q, e>> \in made' <=> Pending(q, e)'
    BY <1>1, <1>2 DEF RowsAgree, Pending
  <2>3. e \in refs \cup lateIssues => Pending("ticket", e)'
    BY <1>1, <1>2, QueueAssumption DEF RowsAgree, Pending
  <2>4. inbox'["ticket"][e] = "fulfilled" => e \in refs
    BY <1>1, <1>2, QueueAssumption DEF RowsAgree
  <2>5. inbox'["mail"][e] # "pending"
    BY <1>1, <1>2, QueueAssumption DEF RowsAgree
  <2> QED BY <2>1, <2>2, <2>3, <2>4, <2>5 DEF RowsAgree
<1>5. Grows
  BY <1>1, <1>2 DEF Grows, Pending, Over, Settled
<1>6. d.queue = "mail" => Over(d.queue, d.event)'
  <2> SUFFICES ASSUME d.queue = "mail" PROVE inbox'["mail"][d.event] \in {"fulfilled", "skipped"}
    BY DEF Over, Settled
  <2>1. inbox["mail"][d.event] \in {"none", "fulfilled", "skipped"}
    BY MailRow
  <2> QED BY <1>1, <1>2, <2>1, QueueAssumption
<1> QED BY <1>3, <1>4, <1>5, <1>6

LEMMA FulfilledRows ==
  ASSUME Rows, NEW e \in Event, Pending("ticket", e), e \in refs,
         inbox' = [inbox EXCEPT !["ticket"][e] = "fulfilled"],
         UNCHANGED <<status, refs, published, made, lateIssues>>
  PROVE  Rows' /\ Grows /\ Over("ticket", e)'
<1> USE DEF Rows
<1> DEFINE slip == [inbox["ticket"] EXCEPT ![e] = "fulfilled"]
<1>1. /\ slip \in [Event -> {"none", "pending", "fulfilled", "skipped"}]
      /\ slip[e] = "fulfilled" /\ \A f \in Event : f # e => slip[f] = inbox["ticket"][f]
  BY QueueAssumption DEF DataTypeOK
<1>2. inbox' = [inbox EXCEPT !["ticket"] = slip]
  OBVIOUS
<1> HIDE DEF slip
<1>3. /\ inbox' \in [Queue -> [Event -> {"none", "pending", "fulfilled", "skipped"}]]
      /\ \A q \in Queue, f \in Event :
           inbox'[q][f] = IF q = "ticket" /\ f = e THEN "fulfilled" ELSE inbox[q][f]
  BY <1>1, <1>2, QueueAssumption DEF DataTypeOK
<1>4. DataTypeOK'
  BY <1>3 DEF DataTypeOK
<1>5. RowsAgree'
  <2> SUFFICES ASSUME NEW f \in Event
               PROVE  /\ \A q \in Queue : /\ inbox'[q][f] = "skipped" => status[f] = "CANCELLED"
                                          /\ <<q, f>> \in made <=> Pending(q, f)'
                      /\ f \in refs \cup lateIssues => Pending("ticket", f)'
                      /\ inbox'["ticket"][f] = "fulfilled" => f \in refs
                      /\ inbox'["mail"][f] # "pending"
                      /\ status[f] \in {"TICKET_ISSUED", "CHECKED_IN"} => f \in refs
    BY DEF RowsAgree
  <2>1. Pending("ticket", f) <=> Pending("ticket", f)'
    BY <1>3, QueueAssumption DEF Pending
  <2>2. inbox'["mail"][f] = inbox["mail"][f]
    BY <1>3, QueueAssumption
  <2>3. \A q \in Queue : /\ inbox'[q][f] = "skipped" => status[f] = "CANCELLED"
                         /\ <<q, f>> \in made <=> Pending(q, f)'
    BY <1>3, QueueAssumption DEF RowsAgree, Pending
  <2>4. inbox'["ticket"][f] = "fulfilled" => f \in refs
    BY <1>3, QueueAssumption DEF RowsAgree
  <2> QED BY <2>1, <2>2, <2>3, <2>4 DEF RowsAgree
<1>6. Grows /\ Over("ticket", e)'
  BY <1>3, QueueAssumption DEF Grows, Pending, Over, Settled
<1> QED BY <1>4, <1>5, <1>6

(* The deliveries that do not move still know what they knew. *)
LEMMA OthersKnow ==
  ASSUME RuntimeTypeOK, JobsKnow, Grows, NEW j \in Job,
         \A i \in Job : i # j => job'[i] = job[i],
         Busy(j)' => Knows(j)'
  PROVE  JobsKnow'
<1> SUFFICES ASSUME NEW i \in Job, i # j, Busy(i)' PROVE Knows(i)'
  BY DEF JobsKnow
<1>1. Busy(i) /\ job'[i] = job[i] /\ Knows(i)
  BY DEF Busy, JobsKnow
<1>2. job[i].queue \in Queue /\ job[i].event \in Event
  BY <1>1, Delivering
<1> QED BY <1>1, <1>2 DEF Knows, Grows

LEMMA AllKnow ==
  ASSUME RuntimeTypeOK, JobsKnow, Grows, UNCHANGED job
  PROVE  JobsKnow'
<1> SUFFICES ASSUME NEW i \in Job, Busy(i)' PROVE Knows(i)'
  BY DEF JobsKnow
<1>1. Busy(i) /\ Knows(i)
  BY DEF Busy, JobsKnow
<1>2. job[i].queue \in Queue /\ job[i].event \in Event
  BY <1>1, Delivering
<1> QED BY <1>1, <1>2 DEF Knows, Grows

-----------------------------------------------------------------------------
(* An event stays kept when its live copies do, or others take their place. *)
LEMMA StaysKept ==
  ASSUME Grows, dead \subseteq dead', NEW q \in Queue, NEW e \in Event, Kept(q, e),
         \A m \in Copy : Live(m) /\ copy[m].queue = q /\ copy[m].event = e => Kept(q, e)'
  PROVE  Kept(q, e)'
<1>1. CASE Over(q, e)
  BY <1>1 DEF Grows, Kept
<1>2. CASE <<q, e>> \in dead
  BY <1>2 DEF Kept
<1>3. CASE \E m \in Copy : Live(m) /\ copy[m].queue = q /\ copy[m].event = e
  BY <1>3
<1> QED BY <1>1, <1>2, <1>3 DEF Kept

LEMMA CopiesStay ==
  ASSUME Grows, AllKept, routed' = routed, dead' = dead,
         \A m \in Copy : Live(m) => /\ Live(m)'
                                   /\ copy'[m].queue = copy[m].queue
                                   /\ copy'[m].event = copy[m].event
  PROVE  AllKept'
<1> SUFFICES ASSUME NEW q \in Queue, NEW e \in Event, <<q, e>> \in routed
             PROVE  Kept(q, e)'
  BY DEF AllKept
<1>1. Kept(q, e)
  BY DEF AllKept
<1>2. ASSUME NEW m \in Copy, Live(m), copy[m].queue = q, copy[m].event = e
      PROVE  Kept(q, e)'
  BY <1>2 DEF Kept
<1> QED BY <1>1, <1>2, StaysKept

(* One step of a handler: what is left to show is what it may rely on next. *)
LEMMA HandlerStep ==
  ASSUME Inv, NEW j \in Job, Busy(j), NEW pc \in Step \ {"routed"}, Proceed(j, pc),
         Rows', Grows, NEW d, d = job[j],
         pc = "cancelled" => status'[d.event] = "CANCELLED",
         pc \in {"persisted", "issued"} => d.queue = "ticket" /\ Pending(d.queue, d.event)',
         pc = "issued" => d.event \in refs',
         pc = "done" => Over(d.queue, d.event)'
  PROVE  Inv'
<1> USE DEF Inv
<1>1. Goto(j, pc) /\ UNCHANGED <<declared, routed, copy, dead>>
  BY DEF Proceed
<1>2. /\ \A i \in Job : i # j => job'[i] = job[i]
      /\ Busy(j)' /\ job'[j].pc = pc
      /\ job'[j].queue = job[j].queue /\ job'[j].event = job[j].event
  BY <1>1, GotoMoves DEF RuntimeInv
<1>3. RuntimeInv'
  BY <1>1, HandleRuntime
<1>4. Knows(j)'
  BY <1>2 DEF Knows
<1>5. JobsKnow'
  BY <1>2, <1>4, OthersKnow DEF RuntimeInv
<1>6. \A m \in Copy : Live(m) => Live(m)'
  BY <1>1, <1>2 DEF Live, Busy
<1>7. AllKept'
  BY <1>1, <1>6, CopiesStay
<1> QED BY <1>3, <1>5, <1>7

LEMMA HandleKeeps ==
  ASSUME Inv, NEW j \in Job, Handle(j)
  PROVE  Inv'
<1> USE DEF Inv
<1> PICK d : d = job[j]
  OBVIOUS
<1> DEFINE q == d.queue
           e == d.event
<1>1. Busy(j) /\ d = job[j] /\ q \in Queue /\ e \in Event /\ Knows(j)
  <2>1. Busy(j)
    BY DEF Handle, ReadInbox, ReadSnapshot, RecordSkippedEvent, Persist, IssueAtBooking,
           IssueTimesOut, MarkFulfilled, Throw, At, Busy
  <2> QED BY <2>1, Delivering DEF RuntimeInv, JobsKnow
<1>2. CASE ReadInbox(j)
  <2>1. inbox[q][e] \in {"none", "pending", "fulfilled", "skipped"}
    BY <1>1 DEF Rows, DataTypeOK
  <2>2. Rows' /\ Grows
    BY <1>2, ReadRows DEF ReadInbox, bookingVars, workerVars, Rows, DataTypeOK
  <2>3. CASE inbox[q][e] = "none"
    BY <1>1, <1>2, <2>2, <2>3, HandlerStep DEF ReadInbox, Step
  <2>4. CASE inbox[q][e] = "pending"
    <3>1. Proceed(j, "persisted")
      BY <1>2, <2>4 DEF ReadInbox
    <3>2. q = "ticket"
      BY <1>1, <2>4, MailRow, QueueAssumption
    <3>3. Pending(q, e)'
      BY <1>1, <2>2, <2>4 DEF Grows, Pending
    <3> QED BY <1>1, <2>2, <3>1, <3>2, <3>3, HandlerStep DEF Step
  <2>5. CASE inbox[q][e] \in {"fulfilled", "skipped"}
    <3>1. Proceed(j, "done")
      BY <1>2, <2>5 DEF ReadInbox
    <3>2. Over(q, e)'
      BY <1>1, <2>2, <2>5 DEF Grows, Over, Settled
    <3> QED BY <1>1, <2>2, <3>1, <3>2, HandlerStep DEF Step
  <2> QED BY <2>1, <2>3, <2>4, <2>5
<1>3. CASE ReadSnapshot(j)
  <2>1. Rows' /\ Grows /\ status' = status
    BY <1>3, ReadRows DEF ReadSnapshot, bookingVars, workerVars, Rows, DataTypeOK
  <2>2. CASE status[e] = "CANCELLED"
    BY <1>1, <1>3, <2>1, <2>2, HandlerStep DEF ReadSnapshot, Step
  <2>3. CASE status[e] # "CANCELLED"
    BY <1>1, <1>3, <2>1, <2>3, HandlerStep DEF ReadSnapshot, Step
  <2> QED BY <2>2, <2>3
<1>4. CASE RecordSkippedEvent(j)
  <2>1. status[e] = "CANCELLED"
    BY <1>1, <1>4 DEF RecordSkippedEvent, At, Knows
  <2>2. Rows' /\ Grows /\ Over(q, e)'
    BY <1>1, <1>4, <2>1, SkippedRows DEF RecordSkippedEvent, bookingVars
  <2> QED BY <1>1, <1>4, <2>2, HandlerStep DEF RecordSkippedEvent, Step
<1>5. CASE Persist(j)
  <2>1. Rows' /\ Grows /\ (q = "mail" => Over(q, e)')
    BY <1>1, <1>5, PersistRows DEF Persist, bookingVars
  <2>2. CASE q = "ticket"
    BY <1>1, <1>5, <2>1, <2>2, HandlerStep DEF Persist, Step
  <2>3. CASE q = "mail"
    BY <1>1, <1>5, <2>1, <2>3, HandlerStep DEF Persist, Step
  <2> QED BY <1>1, <2>2, <2>3, QueueAssumption
<1>6. CASE IssueAtBooking(j)
  <2>1. q = "ticket" /\ Pending("ticket", e)
    BY <1>1, <1>6 DEF IssueAtBooking, At, Knows
  <2>2. Rows' /\ Grows /\ e \in refs'
    BY <1>1, <1>6, <2>1, IssuedRows DEF IssueAtBooking, workerVars
  <2>3. Pending(q, e)'
    BY <1>1, <2>1, <2>2 DEF Grows
  <2> QED BY <1>1, <1>6, <2>1, <2>2, <2>3, HandlerStep DEF IssueAtBooking, Step
<1>7. CASE IssueTimesOut(j)
  <2>1. Pending("ticket", e)
    BY <1>1, <1>7 DEF IssueTimesOut, At, Knows
  <2>2. lateIssues' = lateIssues \cup {e} /\ UNCHANGED <<status, refs, published, inbox, made>>
    BY <1>7 DEF IssueTimesOut, bookingVars
  <2>3. Rows' /\ Grows
    BY <1>1, <2>1, <2>2 DEF Rows, DataTypeOK, RowsAgree, Grows, Pending, Over, Settled
  <2> QED BY <1>1, <1>7, <2>3, HandlerStep DEF IssueTimesOut, Step
<1>8. CASE MarkFulfilled(j)
  <2>1. q = "ticket" /\ Pending("ticket", e) /\ e \in refs
    BY <1>1, <1>8 DEF MarkFulfilled, At, Knows
  <2>2. Rows' /\ Grows /\ Over(q, e)'
    BY <1>1, <1>8, <2>1, FulfilledRows DEF MarkFulfilled, bookingVars
  <2> QED BY <1>1, <1>8, <2>2, HandlerStep DEF MarkFulfilled, Step
<1>9. CASE Throw(j)
  <2>1. Rows' /\ Grows
    BY <1>9, ReadRows DEF Throw, bookingVars, workerVars, Rows, DataTypeOK
  <2> QED BY <1>1, <1>9, <2>1, HandlerStep DEF Throw, Step
<1> QED BY <1>2, <1>3, <1>4, <1>5, <1>6, <1>7, <1>8, <1>9 DEF Handle

(* A step of Booking alone, and one of the broker that keeps every message. *)
LEMMA BookingKeeps ==
  ASSUME Inv, NEW e \in Event,
         MarkPaid(e) \/ MarkCancelled(e) \/ CheckInTicket(e) \/ IssueArrivesLate(e)
  PROVE  Inv'
<1> USE DEF Inv
<1>1. UNCHANGED runtimeVars
  BY DEF MarkPaid, MarkCancelled, CheckInTicket, Move, IssueArrivesLate
<1>2. Rows' /\ Grows
  <2>1. CASE MarkPaid(e) \/ MarkCancelled(e) \/ CheckInTicket(e)
    BY <2>1, MoveRows
  <2>2. CASE IssueArrivesLate(e) /\ MarkTicketIssued(e)
    <3>1. Pending("ticket", e)
      BY <2>2 DEF IssueArrivesLate, Rows, RowsAgree
    <3> QED BY <2>2, <3>1, IssuedRows DEF IssueArrivesLate
  <2>3. CASE IssueArrivesLate(e) /\ UNCHANGED <<status, refs>>
    BY <2>3 DEF IssueArrivesLate, Rows, DataTypeOK, RowsAgree, Grows, Pending, Over, Settled
  <2> QED BY <2>1, <2>2, <2>3 DEF IssueArrivesLate
<1>3. RuntimeInv'
  BY <1>1 DEF runtimeVars, RuntimeInv, RuntimeTypeOK, JobsHold, JobsDiffer, Busy
<1>4. JobsKnow'
  BY <1>1, <1>2, AllKnow DEF runtimeVars, RuntimeInv
<1>5. AllKept'
  BY <1>1, <1>2, CopiesStay DEF runtimeVars, Live, Busy
<1> QED BY <1>2, <1>3, <1>4, <1>5

LEMMA BrokerKeeps ==
  ASSUME Inv, BrokerNext
  PROVE  Inv'
<1> USE DEF Inv
<1>1. Rows' /\ Grows
  BY ReadRows DEF BrokerNext, bookingVars, workerVars, Rows, DataTypeOK
<1>2. RuntimeInv'
  BY BrokerRuntime DEF BrokerNext
<1>3. UNCHANGED <<routed, dead, job>>
  BY DEF BrokerNext, DeclareQueue, RetryDelayEnds
<1>4. \A m \in Copy : Live(m) => /\ Live(m)'
                                /\ copy'[m].queue = copy[m].queue
                                /\ copy'[m].event = copy[m].event
  <2>1. CASE \E q \in Queue : DeclareQueue(q)
    BY <2>1 DEF DeclareQueue, Live, Busy
  <2>2. ASSUME NEW m \in Copy, RetryDelayEnds(m), NEW n \in Copy, Live(n)
        PROVE  Live(n)' /\ copy'[n].queue = copy[n].queue /\ copy'[n].event = copy[n].event
    <3>1. /\ copy[m] # Free /\ copy' = [copy EXCEPT ![m].at = "ready"]
      BY <2>2 DEF RetryDelayEnds, Free
    <3>2. /\ \A i \in Copy : i # m => copy'[i] = copy[i]
          /\ copy'[m] # Free
          /\ copy'[m].queue = copy[m].queue /\ copy'[m].event = copy[m].event
      BY <3>1, CopyMoves DEF RuntimeInv
    <3> QED BY <1>3, <2>2, <3>2 DEF Live, Busy
  <2> QED BY <2>1, <2>2 DEF BrokerNext
<1>5. JobsKnow'
  BY <1>1, <1>3, AllKnow DEF RuntimeInv
<1>6. AllKept'
  BY <1>1, <1>3, <1>4, CopiesStay
<1> QED BY <1>1, <1>2, <1>5, <1>6

(* Each queue of a published event gets a copy of its own, and no delivery
   holds a copy that was free. *)
LEMMA PublishKeeps ==
  ASSUME Inv, NEW e \in Event, PublishPaid(e)
  PROVE  Inv'
<1> USE DEF Inv
<1>1. Rows' /\ Grows
  BY ReadRows DEF PublishPaid, workerVars, Rows, DataTypeOK
<1>2. RuntimeInv'
  BY RouteRuntime DEF PublishPaid
<1>3. UNCHANGED <<declared, dead, job>> /\ routed' = routed \cup (declared \X {e})
  BY DEF PublishPaid, Route
<1>4. PICK to \in Injection(declared, FreeCopies) :
        copy' = [m \in Copy |->
          IF \E q \in declared : to[q] = m
            THEN [at |-> "ready", queue |-> CHOOSE q \in declared : to[q] = m,
                  event |-> e, retries |-> 0]
            ELSE copy[m]]
  BY DEF PublishPaid, Route
<1>5. to \in [declared -> FreeCopies] /\ \A a, b \in declared : to[a] = to[b] => a = b
  BY DEF Injection, IsInjective
<1>6. \A m \in Copy : copy[m] # Free => copy'[m] = copy[m]
  BY <1>4, <1>5 DEF FreeCopies
<1>7. ASSUME NEW q \in declared
      PROVE  /\ to[q] \in Copy /\ Live(to[q])'
             /\ copy'[to[q]].queue = q /\ copy'[to[q]].event = e
  <2>1. to[q] \in Copy /\ copy[to[q]] = Free
    BY <1>5, <1>7 DEF FreeCopies
  <2>2. (CHOOSE p \in declared : to[p] = to[q]) = q
    BY <1>5
  <2>3. copy'[to[q]] = [at |-> "ready", queue |-> q, event |-> e, retries |-> 0]
    BY <1>4, <2>1, <2>2
  <2>4. \A i \in Job : Busy(i) => job[i].copy # to[q]
    BY <2>1, RuntimeAssumption DEF RuntimeInv, JobsHold
  <2> QED BY <1>3, <2>1, <2>3, <2>4 DEF Live, Busy, Free
<1>8. AllKept'
  <2> SUFFICES ASSUME NEW q \in Queue, NEW f \in Event, <<q, f>> \in routed'
               PROVE  Kept(q, f)'
    BY DEF AllKept
  <2>1. CASE <<q, f>> \in routed
    <3>1. Kept(q, f)
      BY <2>1 DEF AllKept
    <3>2. ASSUME NEW m \in Copy, Live(m), copy[m].queue = q, copy[m].event = f
          PROVE  Kept(q, f)'
      BY <1>3, <1>6, <3>2 DEF Kept, Live, Busy
    <3> QED BY <1>1, <1>3, <3>1, <3>2, StaysKept
  <2>2. CASE q \in declared /\ f = e
    BY <1>7, <2>2 DEF Kept
  <2> QED BY <1>3, <2>1, <2>2
<1>9. JobsKnow'
  BY <1>1, <1>3, AllKnow DEF RuntimeInv
<1> QED BY <1>1, <1>2, <1>8, <1>9

LEMMA ReceiveKeeps ==
  ASSUME Inv, NEW j \in Job, NEW m \in Copy, Receive(j, m)
  PROVE  Inv'
<1> USE DEF Inv
<1>1. Rows' /\ Grows
  BY ReadRows DEF Receive, bookingVars, workerVars, Rows, DataTypeOK
<1>2. RuntimeInv'
  BY ConsumeRuntime DEF Receive
<1>3. /\ copy[m] # Free /\ copy' = [copy EXCEPT ![m].at = "unacked"]
      /\ UNCHANGED <<routed, dead>>
      /\ job'[j].pc = "started" /\ \A i \in Job : i # j => job'[i] = job[i]
  BY DEF Receive, Consume, Free, RuntimeInv, RuntimeTypeOK
<1>4. /\ \A n \in Copy : n # m => copy'[n] = copy[n]
      /\ copy'[m] # Free
      /\ copy'[m].queue = copy[m].queue /\ copy'[m].event = copy[m].event
  BY <1>3, CopyMoves DEF RuntimeInv
<1>5. JobsKnow'
  BY <1>1, <1>3, OthersKnow DEF RuntimeInv, Knows
<1>6. \A n \in Copy : Live(n) => /\ Live(n)'
                                /\ copy'[n].queue = copy[n].queue
                                /\ copy'[n].event = copy[n].event
  BY <1>3, <1>4 DEF Live, Busy
<1>7. AllKept'
  BY <1>1, <1>3, <1>6, CopiesStay
<1> QED BY <1>1, <1>2, <1>5, <1>7

LEMMA FaultKeeps ==
  ASSUME Inv, NEW j \in Job, Fault(j)
  PROVE  Inv'
<1> USE DEF Inv
<1>1. Rows' /\ Grows
  BY ReadRows DEF Fault, bookingVars, workerVars, Rows, DataTypeOK
<1>2. /\ RuntimeInv'
      /\ UNCHANGED <<declared, routed, dead>>
      /\ \A i \in Job : i # j => job'[i] = job[i]
      /\ Busy(j)' => /\ job'[j].copy = NoCopy /\ job'[j].pc = job[j].pc
                     /\ job'[j].queue = job[j].queue /\ job'[j].event = job[j].event
      /\ Busy(j)
      /\ \A n \in Copy : /\ copy'[n] # Free <=> copy[n] # Free
                         /\ copy'[n].queue = copy[n].queue
                         /\ copy'[n].event = copy[n].event
  BY FaultMoves DEF Fault
<1>3. Busy(j)' => Knows(j)'
  <2>1. Knows(j) /\ job[j].queue \in Queue /\ job[j].event \in Event
    BY <1>2, Delivering DEF JobsKnow, RuntimeInv
  <2> QED BY <1>1, <1>2, <2>1 DEF Knows, Grows
<1>4. JobsKnow'
  BY <1>1, <1>2, <1>3, OthersKnow DEF RuntimeInv
<1>5. \A n \in Copy : Live(n) => Live(n)'
  BY <1>2, RuntimeAssumption DEF Live, Busy
<1>6. AllKept'
  BY <1>1, <1>2, <1>5, CopiesStay
<1> QED BY <1>1, <1>2, <1>4, <1>6

(* An acknowledgement drops a message: its event is over, or another message
   about it, live or dead, was confirmed before. *)
LEMMA AckKeeps ==
  ASSUME Inv, NEW j \in Job, Ack(j), UNCHANGED <<bookingVars, workerVars>>
  PROVE  Inv'
<1> USE DEF Inv
<1>1. Rows' /\ Grows
  BY ReadRows DEF bookingVars, workerVars, Rows, DataTypeOK
<1>2. RuntimeInv'
  BY AckRuntime
<1> PICK d : d = job[j]
  OBVIOUS
<1>3. /\ Busy(j) /\ d.copy \in Copy /\ d.copy # NoCopy /\ d.pc \in {"done", "routed"}
      /\ d.queue \in Queue /\ d.event \in Event
  <2>1. Busy(j)
    BY DEF Ack, Busy, Idle
  <2> QED BY <2>1, Delivering DEF Ack, RuntimeInv
<1>4. /\ copy[d.copy].queue = d.queue /\ copy[d.copy].event = d.event
      /\ d.pc = "done" => Over(d.queue, d.event)
  BY <1>3 DEF RuntimeInv, JobsHold, JobsKnow, Knows
<1>5. /\ UNCHANGED <<routed, dead>>
      /\ ~Busy(j)' /\ \A i \in Job : i # j => job'[i] = job[i]
      /\ \A n \in Copy : n # d.copy => copy'[n] = copy[n]
  BY <1>3 DEF Ack, RuntimeInv, RuntimeTypeOK, Busy
<1>6. JobsKnow'
  BY <1>1, <1>5, OthersKnow DEF RuntimeInv
<1>7. AllKept'
  <2> SUFFICES ASSUME NEW q \in Queue, NEW e \in Event, <<q, e>> \in routed
               PROVE  Kept(q, e)'
    BY <1>5 DEF AllKept
  <2>1. Kept(q, e)
    BY DEF AllKept
  <2>2. ASSUME NEW m \in Copy, Live(m), copy[m].queue = q, copy[m].event = e
        PROVE  Kept(q, e)'
    <3>1. CASE m = d.copy
      <4>1. d.pc = "done"
        BY <1>3, <2>2, <3>1 DEF Live
      <4> QED BY <1>1, <1>4, <2>2, <3>1, <4>1 DEF Grows, Kept
    <3>2. CASE m # d.copy
      BY <1>5, <2>2, <3>2 DEF Kept, Live, Busy
    <3> QED BY <3>1, <3>2
  <2> QED BY <1>1, <1>5, <2>1, <2>2, StaysKept
<1> QED BY <1>1, <1>2, <1>6, <1>7

LEMMA RouteFailureKeeps ==
  ASSUME Inv, NEW j \in Job, RouteFailure(j), UNCHANGED <<bookingVars, workerVars>>
  PROVE  Inv'
<1> USE DEF Inv
<1>1. Rows' /\ Grows
  BY ReadRows DEF bookingVars, workerVars, Rows, DataTypeOK
<1>2. RuntimeInv'
  BY RouteFailureRuntime
<1> PICK d : d = job[j]
  OBVIOUS
<1>3. /\ Busy(j) /\ d.copy \in Copy /\ d.copy # NoCopy /\ copy[d.copy] # Free
      /\ d.queue \in Queue /\ d.event \in Event
      /\ copy[d.copy].queue = d.queue /\ copy[d.copy].event = d.event
  <2>1. Busy(j) /\ d.copy # NoCopy
    BY DEF RouteFailure, Busy, Idle
  <2> QED BY <2>1, Delivering DEF RuntimeInv, JobsHold
<1>4. Goto(j, "routed") /\ UNCHANGED routed
  BY DEF RouteFailure
<1>5. /\ \A i \in Job : i # j => job'[i] = job[i]
      /\ Busy(j)' /\ job'[j].pc = "routed" /\ job'[j].copy = d.copy
  BY <1>3, <1>4, GotoMoves DEF RuntimeInv, Step
<1>6. JobsKnow'
  BY <1>1, <1>5, OthersKnow DEF RuntimeInv, Knows
<1>7. /\ dead \subseteq dead'
      /\ \A n \in Copy : copy[n] # Free => copy'[n] = copy[n]
      /\ Kept(d.queue, d.event)'
  <2>1. CASE d.retries + 1 >= MaxAttempts
    <3>1. dead' = dead \cup {<<d.queue, d.event>>} /\ UNCHANGED copy
      BY <2>1 DEF RouteFailure
    <3> QED BY <3>1 DEF Kept
  <2>2. CASE ~(d.retries + 1 >= MaxAttempts)
    <3>1. PICK m \in FreeCopies :
            copy' = [copy EXCEPT ![m] = [at |-> "waiting", queue |-> d.queue,
                                         event |-> d.event, retries |-> d.retries + 1]]
      BY <2>2 DEF RouteFailure
    <3>2. UNCHANGED dead
      BY <2>2 DEF RouteFailure
    <3>3. m \in Copy /\ copy[m] = Free /\ m # d.copy
      BY <1>3 DEF FreeCopies
    <3>4. /\ copy'[m] # Free /\ copy'[m].queue = d.queue /\ copy'[m].event = d.event
          /\ \A n \in Copy : n # m => copy'[n] = copy[n]
      BY <3>1, <3>3 DEF RuntimeInv, RuntimeTypeOK, Free
    <3>5. \A i \in Job : Busy(i) => job[i].copy # m
      BY <3>3, RuntimeAssumption DEF RuntimeInv, JobsHold
    <3>6. Live(m)'
      BY <1>5, <3>3, <3>4, <3>5 DEF Live, Busy
    <3> QED BY <3>2, <3>3, <3>4, <3>6 DEF Kept
  <2> QED BY <2>1, <2>2
<1>8. AllKept'
  <2> SUFFICES ASSUME NEW q \in Queue, NEW e \in Event, <<q, e>> \in routed
               PROVE  Kept(q, e)'
    BY <1>4 DEF AllKept
  <2>1. Kept(q, e)
    BY DEF AllKept
  <2>2. ASSUME NEW m \in Copy, Live(m), copy[m].queue = q, copy[m].event = e
        PROVE  Kept(q, e)'
    <3>1. CASE m = d.copy
      BY <1>3, <1>7, <2>2, <3>1
    <3>2. CASE m # d.copy
      BY <1>5, <1>7, <2>2, <3>2 DEF Kept, Live, Busy
    <3> QED BY <3>1, <3>2
  <2> QED BY <1>1, <1>7, <2>1, <2>2, StaysKept
<1> QED BY <1>1, <1>2, <1>6, <1>8

-----------------------------------------------------------------------------
LEMMA Initially ==
  Init => Inv
<1> SUFFICES ASSUME Init PROVE Inv
  OBVIOUS
<1>1. RuntimeInv
  BY DEF Init, RuntimeInit, RuntimeInv, RuntimeTypeOK, JobsHold, JobsDiffer, Busy
<1>2. Rows
  <2>1. \A q \in Queue, e \in Event : inbox[q][e] = "none"
    BY DEF Init
  <2>2. DataTypeOK
    BY DEF Init, DataTypeOK, Status
  <2>3. RowsAgree
    BY <2>1, QueueAssumption DEF Init, RowsAgree, Pending
  <2> QED BY <2>2, <2>3 DEF Rows
<1>3. JobsKnow /\ AllKept
  BY DEF Init, RuntimeInit, JobsKnow, Busy, AllKept
<1> QED BY <1>1, <1>2, <1>3 DEF Inv

LEMMA NextKeeps ==
  Inv /\ [Next]_vars => Inv'
<1> SUFFICES ASSUME Inv, [Next]_vars PROVE Inv'
  OBVIOUS
<1>1. ASSUME NEW e \in Event,
             MarkPaid(e) \/ MarkCancelled(e) \/ CheckInTicket(e) \/ IssueArrivesLate(e)
      PROVE  Inv'
  BY <1>1, BookingKeeps
<1>2. ASSUME NEW e \in Event, PublishPaid(e) PROVE Inv'
  BY <1>2, PublishKeeps
<1>3. CASE BrokerNext
  BY <1>3, BrokerKeeps
<1>4. ASSUME NEW j \in Job, Handle(j) PROVE Inv'
  BY <1>4, HandleKeeps
<1>5. ASSUME NEW j \in Job, Finish(j) PROVE Inv'
  BY <1>5, AckKeeps, RouteFailureKeeps DEF Finish
<1>6. ASSUME NEW j \in Job, Fault(j) PROVE Inv'
  BY <1>6, FaultKeeps
<1>7. ASSUME NEW j \in Job, NEW m \in Copy, Receive(j, m) PROVE Inv'
  BY <1>7, ReceiveKeeps
<1>8. CASE UNCHANGED vars
  <2>1. UNCHANGED <<runtimeVars, bookingVars, workerVars>>
    BY <1>8 DEF vars
  <2>2. Rows' /\ Grows
    BY <2>1, ReadRows DEF bookingVars, workerVars, Inv, Rows, DataTypeOK
  <2>3. RuntimeInv'
    BY <2>1 DEF Inv, runtimeVars, RuntimeInv, RuntimeTypeOK, JobsHold, JobsDiffer, Busy
  <2>4. JobsKnow'
    BY <2>1, <2>2, AllKnow DEF Inv, runtimeVars, RuntimeInv
  <2>5. AllKept'
    BY <2>1, <2>2, CopiesStay DEF Inv, runtimeVars, Live, Busy
  <2> QED BY <2>2, <2>3, <2>4, <2>5 DEF Inv
<1> QED BY <1>1, <1>2, <1>3, <1>4, <1>5, <1>6, <1>7, <1>8 DEF Next, BookingNext

LEMMA Invariance ==
  Spec => []Inv
BY Initially, NextKeeps, PTL DEF Spec

(* Every variable keeps its type. *)
THEOREM FulfilmentTypeCorrect ==
  Spec => []TypeOK
<1>1. Inv => TypeOK
  BY DEF Inv, RuntimeInv, Rows, DataTypeOK, TypeOK
<1> QED BY <1>1, Invariance, PTL

(* No event that reached a worker's queue is lost, for any number of messages,
   handlers, retries, crashes and closed channels: it is settled, or a message
   about it is queued, being handled, waiting to be retried, or dead-lettered. *)
THEOREM NothingIsLost ==
  Spec => []NoEventIsLost
<1>1. Inv => NoEventIsLost
  <2> SUFFICES ASSUME Inv, NEW q \in Queue, NEW e \in Event, <<q, e>> \in routed
               PROVE  Accounted(q, e) \/ (q = "ticket" /\ status[e] = "CANCELLED")
    BY DEF NoEventIsLost, Inv, RuntimeInv, RuntimeTypeOK
  <2>1. Kept(q, e)
    BY DEF Inv, AllKept
  <2> QED BY <2>1 DEF Kept, Over, Accounted, InFlight, Live
<1> QED BY <1>1, Invariance, PTL

(* An event is skipped only for a cancelled booking, and then nothing has been
   or will be made for it. *)
THEOREM SkippingIsClean ==
  Spec => []SkippedLeavesNothing
<1>1. Inv => SkippedLeavesNothing
  BY QueueAssumption DEF Inv, Rows, RowsAgree, Pending, SkippedLeavesNothing
<1> QED BY <1>1, Invariance, PTL

(* Booking says that tickets were issued only when they exist, and the worker
   that it is done only when Booking knows. *)
THEOREM TicketsExist ==
  Spec => []IssuedTicketsExist
<1>1. Inv => IssuedTicketsExist
  BY QueueAssumption DEF Inv, Rows, RowsAgree, Pending, IssuedTicketsExist
<1> QED BY <1>1, Invariance, PTL
-----------------------------------------------------------------------------
(* Implementation of Workflow.  What is queued or being handled was published
   for a booking that had been paid, and that is never undone. *)
Paid(e) == status[e] # "PENDING_PAYMENT"

MessagesArePaid ==
  /\ \A m \in Copy : copy[m] # Free => Paid(copy[m].event)
  /\ \A j \in Job : Busy(j) => Paid(job[j].event)

LEMMA PaidStays ==
  ASSUME Inv, [Next]_vars, NEW e \in Event, Paid(e)
  PROVE  Paid(e)'
<1>1. status \in [Event -> Status]
  BY DEF Inv, Rows, DataTypeOK
<1>2. ASSUME NEW f \in Event, MarkPaid(f) \/ MarkCancelled(f) \/ CheckInTicket(f)
      PROVE  Paid(e)'
  BY <1>1, <1>2 DEF MarkPaid, MarkCancelled, CheckInTicket, Move, Paid
<1>3. ASSUME NEW f, MarkTicketIssued(f) PROVE Paid(e)'
  BY <1>1, <1>3 DEF MarkTicketIssued, Paid
<1>4. CASE status' = status
  BY <1>4 DEF Paid
<1> QED
  BY <1>2, <1>3, <1>4 DEF Next, BookingNext, BrokerNext, Handle, Finish, Fault, Receive, PublishPaid,
     IssueArrivesLate, ReadInbox, ReadSnapshot, RecordSkippedEvent, Persist, IssueAtBooking,
     IssueTimesOut, MarkFulfilled, Throw, bookingVars, vars

(* The messages there are after a step are those before it, or are about a
   booking whose event is being published or handled. *)
LEMMA MessagesStep ==
  ASSUME Inv, MessagesArePaid, [Next]_vars
  PROVE  /\ \A m \in Copy : copy'[m] # Free => copy'[m].event \in Event /\ Paid(copy'[m].event)
         /\ \A j \in Job : Busy(j)' => job'[j].event \in Event /\ Paid(job'[j].event)
<1> DEFINE CopiesPaid == \A m \in Copy : copy'[m] # Free => Paid(copy'[m].event)
           JobsPaid == \A j \in Job : Busy(j)' => Paid(job'[j].event)
<1>1. RuntimeTypeOK /\ RuntimeInv
  BY DEF Inv, RuntimeInv
<1>2. ASSUME UNCHANGED <<copy, job>> PROVE CopiesPaid /\ JobsPaid
  BY <1>2 DEF MessagesArePaid, Busy
<1>3. ASSUME NEW e \in Event, PublishPaid(e) PROVE CopiesPaid /\ JobsPaid
  <2>1. Paid(e) /\ job' = job
    BY <1>3 DEF PublishPaid, Route, Paid
  <2>2. \A m \in Copy : copy'[m] = copy[m] \/ copy'[m].event = e
    BY <1>3 DEF PublishPaid, Route
  <2> QED BY <2>1, <2>2 DEF MessagesArePaid, Busy
<1>4. ASSUME NEW m \in Copy, RetryDelayEnds(m) PROVE CopiesPaid /\ JobsPaid
  <2>1. copy[m] # Free /\ copy' = [copy EXCEPT ![m].at = "ready"] /\ job' = job
    BY <1>4 DEF RetryDelayEnds, Free
  <2>2. copy'[m].event = copy[m].event /\ \A n \in Copy : n # m => copy'[n] = copy[n]
    BY <1>1, <2>1, CopyMoves
  <2> QED BY <2>1, <2>2 DEF MessagesArePaid, Busy
<1>5. ASSUME NEW j \in Job, NEW pc \in Step, Busy(j), Goto(j, pc)
      PROVE  JobsPaid
  BY <1>1, <1>5, GotoMoves DEF MessagesArePaid, Busy
<1>6. ASSUME NEW j \in Job, Handle(j) PROVE CopiesPaid /\ JobsPaid
  <2>1. copy' = copy /\ Busy(j) /\ \E pc \in Step : Goto(j, pc)
    BY <1>6 DEF Handle, ReadInbox, ReadSnapshot, RecordSkippedEvent, Persist, IssueAtBooking,
       IssueTimesOut, MarkFulfilled, Throw, Proceed, At, Busy, Step
  <2> QED BY <1>5, <2>1 DEF MessagesArePaid
<1>7. ASSUME NEW j \in Job, Ack(j) PROVE CopiesPaid /\ JobsPaid
  <2>1. /\ \A i \in Job : job'[i] = job[i] \/ job'[i] = Idle
        /\ \A m \in Copy : copy'[m] = copy[m] \/ copy'[m] = Free
    BY <1>1, <1>7 DEF Ack, RuntimeTypeOK
  <2> QED BY <2>1 DEF MessagesArePaid, Busy
<1>8. ASSUME NEW j \in Job, RouteFailure(j) PROVE CopiesPaid /\ JobsPaid
  <2>1. Busy(j) /\ Goto(j, "routed")
    BY <1>8 DEF RouteFailure, Busy, Idle
  <2>2. \A m \in Copy : copy'[m] = copy[m] \/ copy'[m].event = job[j].event
    BY <1>1, <1>8 DEF RouteFailure, RuntimeTypeOK
  <2> QED BY <1>5, <2>1, <2>2 DEF MessagesArePaid, Step
<1>9. ASSUME NEW j \in Job, ChannelCloses(j) \/ Dies(j) PROVE CopiesPaid /\ JobsPaid
  BY <1>1, <1>9, FaultMoves DEF MessagesArePaid, Busy
<1>10. ASSUME NEW j \in Job, NEW m \in Copy, Consume(j, m) PROVE CopiesPaid /\ JobsPaid
  <2>1. copy[m] # Free /\ copy' = [copy EXCEPT ![m].at = "unacked"]
    BY <1>10 DEF Consume, Free
  <2>2. copy'[m].event = copy[m].event /\ \A n \in Copy : n # m => copy'[n] = copy[n]
    BY <1>1, <2>1, CopyMoves
  <2>3. job'[j].event = copy[m].event /\ \A i \in Job : i # j => job'[i] = job[i]
    BY <1>1, <1>10 DEF Consume, RuntimeTypeOK
  <2> QED BY <2>1, <2>2, <2>3 DEF MessagesArePaid, Busy
<1>11. CopiesPaid /\ JobsPaid
  <2>1. CASE UNCHANGED vars
    BY <1>2, <2>1 DEF vars, runtimeVars
  <2>2. CASE BookingNext
    BY <1>2, <1>3, <2>2 DEF BookingNext, MarkPaid, MarkCancelled, CheckInTicket, Move,
       IssueArrivesLate, runtimeVars
  <2>3. CASE BrokerNext
    BY <1>2, <1>4, <2>3 DEF BrokerNext, DeclareQueue
  <2> QED BY <1>6, <1>7, <1>8, <1>9, <1>10, <2>1, <2>2, <2>3 DEF Next, Finish, Fault, Receive
<1>12. RuntimeTypeOK'
  BY NextKeeps DEF Inv, RuntimeInv
<1> QED BY <1>11, <1>12 DEF RuntimeTypeOK, Message, Delivery, Busy

LEMMA MessagesStayPaid ==
  Inv /\ MessagesArePaid /\ [Next]_vars => MessagesArePaid'
<1> SUFFICES ASSUME Inv, MessagesArePaid, [Next]_vars PROVE MessagesArePaid'
  OBVIOUS
<1>1. \A e \in Event : Paid(e) => Paid(e)'
  BY PaidStays
<1> QED BY <1>1, MessagesStep DEF MessagesArePaid, Paid
LEMMA WorkflowInit ==
  Init => Workers!Init
BY QueueAssumption DEF Init, Workers!Init, Workers!Effect

LEMMA WorkflowUnchanged ==
  UNCHANGED <<status, refs, inbox, made>> => UNCHANGED Workers!workflowVars
BY DEF Workers!workflowVars

(* The decision of an effect: the inbox takes a row when it has none. *)
LEMMA InsertDecides ==
  ASSUME DataTypeOK, NEW d, d.queue \in Queue, d.event \in Event, NEW row,
         InsertInbox(d, row), UNCHANGED <<status, refs>>
  PROVE  \/ inbox[d.queue][d.event] # "none" /\ inbox' = inbox
         \/ Workers!Decide(d.queue, d.event, row)
BY DEF InsertInbox, Workers!Decide

(* Booking learns of tickets that exist, or a request changes nothing. *)
LEMMA IssueIsIssue ==
  ASSUME Inv, NEW e \in Event, Pending("ticket", e), MarkTicketIssued(e), UNCHANGED <<inbox, made>>
  PROVE  Workers!Issue(e)
<1>1. <<"ticket", e>> \in made
  BY QueueAssumption DEF Inv, Rows, RowsAgree
<1> QED BY <1>1 DEF MarkTicketIssued, Workers!Issue

(* Every step of Booking, of a handler or of the broker is a step of Workflow,
   or one that it does not see. *)
LEMMA WorkflowStep ==
  Inv /\ MessagesArePaid /\ [Next]_vars => [Workers!Next]_Workers!workflowVars
<1> SUFFICES ASSUME Inv, MessagesArePaid, [Next]_vars
             PROVE  [Workers!Next]_Workers!workflowVars
  OBVIOUS
<1> USE DEF Inv
<1>1. CASE UNCHANGED <<bookingVars, workerVars>>
  BY <1>1, WorkflowUnchanged DEF bookingVars, workerVars
<1>2. ASSUME NEW e \in Event,
             MarkPaid(e) \/ MarkCancelled(e) \/ CheckInTicket(e) \/ PublishPaid(e)
      PROVE  [Workers!Next]_Workers!workflowVars
  BY <1>2, WorkflowUnchanged
     DEF MarkPaid, MarkCancelled, CheckInTicket, Move, PublishPaid, workerVars,
         Workers!Next, Workers!Pay, Workers!Cancel, Workers!CheckIn, Workers!Move
<1>3. ASSUME NEW e \in Event, IssueArrivesLate(e)
      PROVE  [Workers!Next]_Workers!workflowVars
  <2>1. Pending("ticket", e) /\ UNCHANGED <<inbox, made>>
    BY <1>3 DEF IssueArrivesLate, Rows, RowsAgree
  <2>2. CASE MarkTicketIssued(e)
    BY <2>1, <2>2, IssueIsIssue DEF Workers!Next
  <2>3. CASE UNCHANGED <<status, refs>>
    BY <2>1, <2>3, WorkflowUnchanged
  <2> QED BY <1>3, <2>2, <2>3 DEF IssueArrivesLate
<1>4. ASSUME NEW j \in Job, Handle(j)
      PROVE  [Workers!Next]_Workers!workflowVars
  <2> PICK d : d = job[j]
    OBVIOUS
  <2> DEFINE q == d.queue
             e == d.event
  <2>1. Busy(j) /\ q \in Queue /\ q \in Workers!Effect /\ e \in Event /\ Knows(j) /\ Paid(e)
    <3>1. Busy(j)
      BY <1>4 DEF Handle, ReadInbox, ReadSnapshot, RecordSkippedEvent, Persist, IssueAtBooking,
         IssueTimesOut, MarkFulfilled, Throw, At, Busy
    <3> QED BY <3>1, Delivering, QueueAssumption
            DEF RuntimeInv, JobsKnow, MessagesArePaid, Workers!Effect
  <2>2. CASE RecordSkippedEvent(j)
    <3>1. status[e] = "CANCELLED" /\ UNCHANGED <<status, refs, made>>
      BY <2>1, <2>2 DEF RecordSkippedEvent, At, Knows, bookingVars
    <3>2. inbox' = inbox \/ Workers!Decide(q, e, "skipped")
      BY <2>1, <2>2, <3>1, InsertDecides DEF RecordSkippedEvent, Rows
    <3> QED BY <2>1, <3>1, <3>2, WorkflowUnchanged DEF Workers!Next, Workers!Skip
  <2>3. CASE Persist(j)
    <3> DEFINE row == IF q = "ticket" THEN "pending" ELSE "fulfilled"
    <3>1. /\ InsertInbox(d, row) /\ UNCHANGED <<status, refs>>
          /\ made' = IF inbox[q][e] = "none" THEN made \cup {<<q, e>>} ELSE made
      BY <2>3 DEF Persist, bookingVars
    <3>2. \/ inbox[q][e] # "none" /\ inbox' = inbox
          \/ Workers!Decide(q, e, row)
      BY <2>1, <3>1, InsertDecides DEF Rows
    <3>3. CASE inbox[q][e] # "none" /\ inbox' = inbox
      BY <3>1, <3>3, WorkflowUnchanged
    <3>4. CASE Workers!Decide(q, e, row)
      <4>1. Workers!Make(q, e)
        BY <2>1, <3>1, <3>4 DEF Workers!Make, Workers!Decide, Paid
      <4> QED BY <2>1, <4>1 DEF Workers!Next
    <3> QED BY <3>2, <3>3, <3>4
  <2>4. CASE IssueAtBooking(j)
    <3>1. Pending("ticket", e) /\ MarkTicketIssued(e) /\ UNCHANGED <<inbox, made>>
      BY <2>1, <2>4 DEF IssueAtBooking, At, Knows, workerVars
    <3> QED BY <2>1, <3>1, IssueIsIssue DEF Workers!Next
  <2>5. CASE MarkFulfilled(j)
    <3>1. /\ q = "ticket" /\ Pending("ticket", e) /\ e \in refs
          /\ inbox' = [inbox EXCEPT !["ticket"][e] = "fulfilled"]
          /\ UNCHANGED <<status, refs, made>>
      BY <2>1, <2>5 DEF MarkFulfilled, At, Knows, bookingVars
    <3>2. CASE inbox["ticket"][e] = "pending"
      BY <2>1, <3>1, <3>2 DEF Workers!Next, Workers!Complete
    <3>3. CASE inbox["ticket"][e] = "fulfilled"
      <4>1. inbox' = inbox
        BY <2>1, <3>1, <3>3, QueueAssumption DEF Rows, DataTypeOK
      <4> QED BY <3>1, <4>1, WorkflowUnchanged
    <3> QED BY <3>1, <3>2, <3>3 DEF Pending
  <2>6. CASE UNCHANGED <<bookingVars, inbox, made>>
    BY <2>6, WorkflowUnchanged DEF bookingVars
  <2> QED BY <1>4, <2>2, <2>3, <2>4, <2>5, <2>6
          DEF Handle, ReadInbox, ReadSnapshot, IssueTimesOut, Throw, workerVars
<1>5. CASE UNCHANGED vars
  BY <1>1, <1>5 DEF vars
<1> QED BY <1>1, <1>2, <1>3, <1>4, <1>5
        DEF Next, BookingNext, BrokerNext, Finish, Fault, Receive

(* Ticket Worker and Notification Worker, over a broker that redelivers and
   requests that arrive late, implement the workflow: tickets and mail are made
   once, for paid bookings only, or skipped for cancelled ones, and Booking
   knows of tickets only after they were made. *)
THEOREM FulfilmentImplementsWorkflow ==
  Spec => ImplementsWorkflow
<1>1. Init => MessagesArePaid
  BY DEF Init, RuntimeInit, MessagesArePaid, Busy
<1>2. Spec => [](Inv /\ MessagesArePaid)
  BY <1>1, Invariance, MessagesStayPaid, PTL DEF Spec
<1> QED BY <1>2, WorkflowInit, WorkflowStep, PTL DEF Spec, ImplementsWorkflow, Workers!Spec
=============================================================================
