------------------------------- MODULE SeatFeed -------------------------------
(***************************************************************************)
(* How a seat's status gets to the screen.  PostgreSQL has the durable     *)
(* status, Redis the lease of a hold; getSeatMap reads both, in any order, *)
(* and composes them.  Changes are announced over Redis Pub/Sub, the       *)
(* gateway and a subscription; an announcement only makes the browser      *)
(* fetch the map again, and of several fetches the last one begun wins.    *)
(*                                                                         *)
(* One trip, one seat and one browser are modelled.  Announcements may be  *)
(* lost, before the gateway by Pub/Sub and after it by the subscription,   *)
(* but they keep their order: those that arrive carry growing versions,    *)
(* the browser ignores none of them, and their number will do.             *)
(***************************************************************************)
EXTENDS Naturals, FiniteSets

CONSTANTS
  MaxPending, \* bound: operations of the service under way
  Fetch,      \* bound: fetches of the map in flight
  QueueLimit  \* announcements a subscription keeps for the browser, 100 in the code

ASSUME FeedLimitAssumption == QueueLimit \in Nat \ {0}

VARIABLES
  durable,   \* row of trip_seat_states: none, or one; the map shows BOOKED and BLOCKED
             \* as they are, so that one status stands for both
  lease,     \* the hold on the seat in Redis; "confirmed": its seats are booked
  unswept,   \* a hold has lapsed and the sweeper has not seen it yet
  pending,   \* what operations of the service have still to do
  link,      \* the browser's subscription; "deaf": its gateway has no connection to Redis
  queued,    \* announcements on their way to the browser, at the gateway or before it
  fetch,     \* each fetch: whether it is the last one begun, and what it has read
  shown,     \* the status on the screen
  missed     \* history: a change was not announced or an announcement or an answer
             \* was lost, and no fetch begun since

seatVars == <<durable, lease, unswept, pending>>
browserVars == <<link, queued, fetch, shown>>
feedVars == <<seatVars, browserVars, missed>>

Durable == {"FREE", "TAKEN"}
Lease == {"none", "held", "confirmed"}
SeatStatus == {"AVAILABLE", "HELD", "TAKEN"}
NoFetch == [pc |-> "idle", last |-> FALSE, durable |-> "unread", lease |-> "unread"]

FeedTypeOK ==
  /\ durable \in Durable
  /\ lease \in Lease
  /\ unswept \in BOOLEAN
  /\ pending \subseteq {"consume", "publish"}
  /\ link \in {"down", "connected", "subscribed", "deaf"}
  /\ queued \in 0..QueueLimit
  /\ fetch \in [Fetch -> [pc : {"idle", "read"}, last : BOOLEAN,
                          durable : Durable \cup {"unread"}, lease : {"none", "held", "unread"}]]
  /\ shown \in SeatStatus
  /\ missed \in BOOLEAN

composeSeatMap(d, l) ==
  CASE d # "FREE" -> d
    [] d = "FREE" /\ l # "none" -> "HELD"
    [] d = "FREE" /\ l = "none" -> "AVAILABLE"

(* The page comes with a map; what has happened since is not known to it. *)
FeedInit ==
  /\ durable \in Durable
  /\ lease \in {"none", "held"}
  /\ unswept = FALSE
  /\ pending = {}
  /\ link = "down"
  /\ queued = 0
  /\ fetch = [f \in Fetch |-> NoFetch]
  /\ shown \in SeatStatus
  /\ missed = TRUE

-----------------------------------------------------------------------------
(* Mutation: the stream keeps whatever the browser has not taken. *)
AnnounceUnbounded ==
  /\ queued' = IF link = "subscribed" /\ queued <= QueueLimit THEN queued + 1 ELSE queued
  /\ missed' = (missed \/ link # "subscribed")

(* seat-inventory-service.  An announcement reaches the browser's stream, whose
   oldest is dropped when it is full, or nobody. *)
Announce ==
  /\ queued' = IF link = "subscribed" /\ queued < QueueLimit THEN queued + 1 ELSE queued
  /\ missed' = (missed \/ link # "subscribed")

(* The scripts set, or delete, the lease and announce it in one step.  Whether
   the seat is free was read before: it may be booked by now. *)
acquire ==
  /\ lease = "none"
  /\ lease' = "held"
  /\ Announce
  /\ UNCHANGED <<durable, unswept, pending, link, fetch, shown>>

release ==
  /\ lease # "none"
  /\ lease' = "none"
  /\ Announce
  /\ UNCHANGED <<durable, unswept, pending, link, fetch, shown>>

LeaseLapses ==
  /\ lease # "none"
  /\ lease' = "none"
  /\ unswept' = TRUE
  /\ UNCHANGED <<durable, pending, browserVars, missed>>

sweepExpired ==
  /\ unswept
  /\ unswept' = FALSE
  /\ Announce
  /\ UNCHANGED <<durable, lease, pending, link, fetch, shown>>

(* confirmSeats commits the rows, then consumes the hold it has looked up before,
   which may be gone at either moment. *)
ConfirmCommit ==
  /\ Cardinality(pending) < MaxPending /\ "consume" \notin pending
  /\ durable = "FREE"
  /\ durable' = "TAKEN"
  /\ pending' = pending \cup {"consume"}
  /\ \/ lease = "held" /\ lease' = "confirmed"
     \/ UNCHANGED lease
  /\ UNCHANGED <<unswept, browserVars, missed>>

(* The script deletes the hold and announces BOOKED.  It says nothing if the
   hold is not there: a sweep still to come announces the seat, or nobody does. *)
consumeConfirmedHold ==
  /\ "consume" \in pending
  /\ pending' = pending \ {"consume"}
  /\ \/ /\ lease = "confirmed"
        /\ lease' = "none"
        /\ Announce
     \/ /\ lease # "confirmed"
        /\ missed' = (missed \/ ~unswept)
        /\ UNCHANGED <<lease, queued>>
  /\ UNCHANGED <<durable, unswept, link, fetch, shown>>

(* releaseBookedSeats and setSeatBlocked commit, then announce.  A release that
   is repeated announces again, whatever the seat is by then. *)
ReleaseBookedCommit ==
  /\ Cardinality(pending) < MaxPending /\ "publish" \notin pending
  /\ \/ durable = "TAKEN" /\ durable' = "FREE"
     \/ UNCHANGED durable
  /\ pending' = pending \cup {"publish"}
  /\ UNCHANGED <<lease, unswept, browserVars, missed>>

SetBlockedCommit ==
  /\ Cardinality(pending) < MaxPending /\ "publish" \notin pending
  /\ durable' \in Durable \ {durable}
  /\ pending' = pending \cup {"publish"}
  /\ UNCHANGED <<lease, unswept, browserVars, missed>>

publishSeats ==
  /\ "publish" \in pending
  /\ pending' = pending \ {"publish"}
  /\ Announce
  /\ UNCHANGED <<durable, lease, unswept, link, fetch, shown>>

(* Redis is down, or the process dies with all it had to do: the failure is
   logged at most, the seats stay as committed and nobody hears of it. *)
NotificationFails ==
  /\ pending' \in (SUBSET pending) \ {pending}
  /\ lease' = IF lease = "confirmed" /\ "consume" \notin pending' THEN "held" ELSE lease
  /\ missed' = TRUE
  /\ UNCHANGED <<durable, unswept, browserVars>>

-----------------------------------------------------------------------------
(* The gateway loses its connection to Redis and makes a new one.  It logs the
   error: the streams stay, no browser is told, and what is announced meanwhile
   does not arrive, nor what was under way. *)
SubscriberDrops ==
  /\ link = "subscribed"
  /\ link' = "deaf"
  /\ queued' \in 0..queued
  /\ missed' = (missed \/ queued' # queued)
  /\ UNCHANGED <<seatVars, fetch, shown>>

SubscriberReconnects ==
  /\ link = "deaf"
  /\ link' = "subscribed"
  /\ UNCHANGED <<seatVars, queued, fetch, shown, missed>>

(* The browser.  refreshSeatMap makes the new fetch the last one begun. *)
IdleFetch == CHOOSE f \in Fetch : fetch[f] = NoFetch

BeginFetch ==
  /\ \E f \in Fetch : fetch[f] = NoFetch
  /\ fetch' = [f \in Fetch |-> IF f = IdleFetch THEN [NoFetch EXCEPT !.pc = "read", !.last = TRUE]
                                               ELSE [fetch[f] EXCEPT !.last = FALSE]]
  /\ missed' = FALSE

(* connected: the map is fetched, whether or not the gateway has the
   subscription yet. *)
onConnected ==
  /\ link = "down"
  /\ link' = "connected"
  /\ BeginFetch
  /\ UNCHANGED <<seatVars, queued, shown>>

(* The stream is registered whether or not the gateway has its connection. *)
subscribeToTrip ==
  /\ link = "connected"
  /\ link' \in {"subscribed", "deaf"}
  /\ UNCHANGED <<seatVars, queued, fetch, shown, missed>>

Disconnect ==
  /\ link # "down"
  /\ link' = "down"
  /\ queued' = 0
  /\ missed' = TRUE
  /\ UNCHANGED <<seatVars, fetch, shown>>

onEvent ==
  /\ queued > 0
  /\ queued' = queued - 1
  /\ BeginFetch
  /\ UNCHANGED <<seatVars, link, shown>>

(* After a command of its own, or when its hold runs out. *)
refreshSeatMap ==
  /\ BeginFetch
  /\ UNCHANGED <<seatVars, link, queued, shown>>

(* getSeatMap reads the rows and the leases side by side; getSeatHolds sweeps first. *)
ReadDurable(f) ==
  /\ fetch[f].pc = "read" /\ fetch[f].durable = "unread"
  /\ fetch' = [fetch EXCEPT ![f].durable = durable]
  /\ UNCHANGED <<seatVars, link, queued, shown, missed>>

getSeatHolds(f) ==
  /\ fetch[f].pc = "read" /\ fetch[f].lease = "unread"
  /\ fetch' = [fetch EXCEPT ![f].lease = IF lease = "none" THEN "none" ELSE "held"]
  /\ unswept' = FALSE
  /\ IF unswept THEN Announce ELSE UNCHANGED <<queued, missed>>
  /\ UNCHANGED <<durable, lease, pending, link, shown>>

HasRead(f) == fetch[f].durable # "unread" /\ fetch[f].lease # "unread"

(* Mutation: whichever answer comes last is shown. *)
ShowAnyAnswer(f) ==
  /\ HasRead(f)
  /\ shown' = composeSeatMap(fetch[f].durable, fetch[f].lease)
  /\ fetch' = [fetch EXCEPT ![f] = NoFetch]
  /\ UNCHANGED <<seatVars, link, queued, missed>>

(* An answer is shown if no later fetch was begun. *)
ShowAnswer(f) ==
  /\ HasRead(f)
  /\ shown' = IF fetch[f].last THEN composeSeatMap(fetch[f].durable, fetch[f].lease) ELSE shown
  /\ fetch' = [fetch EXCEPT ![f] = NoFetch]
  /\ UNCHANGED <<seatVars, link, queued, missed>>

(* The last fetch fails: an error is shown, the map stays. *)
FetchFails(f) ==
  /\ fetch[f].pc = "read"
  /\ fetch' = [fetch EXCEPT ![f] = NoFetch]
  /\ missed' = (missed \/ fetch[f].last)
  /\ UNCHANGED <<seatVars, link, queued, shown>>

-----------------------------------------------------------------------------
FeedNext ==
  \/ acquire
  \/ release
  \/ LeaseLapses
  \/ sweepExpired
  \/ ConfirmCommit
  \/ consumeConfirmedHold
  \/ ReleaseBookedCommit
  \/ SetBlockedCommit
  \/ publishSeats
  \/ NotificationFails
  \/ SubscriberDrops
  \/ SubscriberReconnects
  \/ onConnected
  \/ subscribeToTrip
  \/ Disconnect
  \/ onEvent
  \/ refreshSeatMap
  \/ \E f \in Fetch : ReadDurable(f) \/ getSeatHolds(f) \/ ShowAnswer(f) \/ FetchFails(f)

FeedSpec == FeedInit /\ [][FeedNext]_feedVars

-----------------------------------------------------------------------------
Settled ==
  /\ pending = {} /\ ~unswept
  /\ queued = 0
  /\ \A f \in Fetch : fetch[f] = NoFetch

(* Whatever raced with what, a map composed of a row and a lease of different
   moments included: once nothing is under way, the screen shows the seat as it
   is, unless a change was not announced, or an announcement or an answer was
   lost, and the map has not been fetched since. *)
SettledMapIsTrue ==
  Settled /\ ~missed => shown = composeSeatMap(durable, lease)
=============================================================================
