# Formal models of the bus booking platform

TLA+ models of the part of the platform where a mistake sells a seat twice,
takes money for nothing or loses a ticket: seat holds, payment, expiry,
cancellation and release, the outbox that carries the events of a booking, the
workers that make tickets and e-mails of them, and boarding. Around it, the
parts that answer for what others changed: the cached trip search, the seat map
on a screen, refresh sessions, saved passengers and the analytics projections.
The models are checked with TLC on small instances, and their safety properties
are proved with TLAPS for any numbers of seats, bookings, holds, keys, messages,
sessions, and of commands, calls, relays, handlers and requests at once.

- [The system](#the-system): its parts, their state and how they interact
- [The modules](#the-modules): how each one corresponds to the code
- [The runs](#the-runs): what TLC checks, under which bounds
- [Fairness](#fairness)
- [The proofs](#the-proofs)
- [Where code and documentation disagree](#where-code-and-documentation-disagree)
- [Not modelled](#not-modelled)
- [Plan](#plan)

## The system

| Part | State | Operations | Hard behaviour |
| --- | --- | --- | --- |
| `seat-inventory-service` | PostgreSQL: `trip_seat_states`, `confirmation_requests`, `release_requests`. Redis: a payload per hold, a lease per held seat, an expiry index, idempotency records | HoldSeats, GetHold, ReleaseHold, ConfirmSeats, ReleaseBookedSeats, SetSeatBlocked, GetSeatMap, a sweeper | A call reads, awaits and writes; leases lapse meanwhile; Redis and PostgreSQL are not updated together; retries |
| `booking-service` | `bookings` (status, hold, keys, release acknowledgement), passengers, status history, ticket references, check-ins, outbox | CreateBooking, SimulatePayment, CancelBooking, two reconcilers, MarkTicketIssued, CheckInTicket, outbox relay | A command spans three services; requests time out but may still be served; the command lock lives in another session than the writes |
| `payment-service` | `attempts`, outbox | CreatePaymentAttempt, outbox relay | Retries with the same and with other keys, at most one success per booking |
| `worker-runtime` | RabbitMQ queue, retry queue, dead-letter queue | consume, retry, dead-letter | Redelivery, acknowledgements lost, handlers that outlive their channel |
| `ticket-worker` | inbox, ticket documents | fulfilment of `BookingPaidV1` | Duplicates, a cancellation that overtakes the event, a crash between persisting tickets and telling Booking |
| `notification-worker` | inbox, delivery log | simulated e-mail for `BookingPaidV1` | Duplicates |
| `catalog-service` | trips, catalog resources, audit; search cache in Redis; search outbox | trip search, activation, lifecycle, administration | Cache invalidation after commit; lifecycle commands repeated |
| `identity-service` | users, refresh sessions, passenger profiles | login, refresh, logout, profiles | Refresh of one session by two requests |
| `analytics-service` | processed events, fact tables | Kafka consumer, reports | Duplicate and replayed events |
| `graphql-gateway` | subscriptions with a bounded queue each | GraphQL over the services' gRPC | Events lost between a read and a subscription, queue overflow |
| `mcp-server` | a rate limiter and a cache in Redis | read-only tools | Cache misses that race |
| web app | the seat map on the screen | fetch, subscribe, show | Fetches and announcements that overtake each other |
| contracts, observability | none | | |

A checkout goes through them like this. The customer holds seats at Seat
Inventory (Redis, five minutes at most) and creates a booking for the hold.
SimulatePayment takes the booking's advisory lock, asks Payment for an attempt,
asks Seat Inventory to confirm the seats (PostgreSQL), and marks the booking
paid. If the window has passed, the command or the expiry reconciler expires
the booking and releases the hold. A paid booking gets its tickets through the
outbox, RabbitMQ and the ticket worker. Cancelling marks the row, asks Seat
Inventory to delete the booked seats and records the acknowledgement; a
reconciler repeats the release until it is acknowledged.

What makes each part correct:

- Seat Inventory: two live holds never share a seat and a command repeated never
  holds twice; a sold seat stays sold until its own booking releases it; a
  confirmation is all or nothing and stays true; every hold ends.
- Checkout: a paid booking owns its seats; a sold seat was charged; only a
  cancelled booking's seats are given back, once; what is acknowledged
  happened; nothing stays pending or unreleased for ever.
- Outbox and workers: no event is lost; the effects of an event happen once;
  the tickets Booking knows are the ones the customer has.
- Check-in: a ticket is checked in once, a booking is `CHECKED_IN` from its first
  check-in on, and staff are told what is so.
- Catalog: a search that begins after a change was answered finds it; a change
  whose invalidation failed is hidden for no longer than the cache lives.
- Identity: of a login's sessions at most one is live; a reused token ends them
  all; a customer has no more profiles than the limit.
- Analytics: a payment counts once in the revenue, and what the group is done
  with is in every projection.
- Live seat map: when nothing is under way any more, the screen shows what is so.

`PROJECT.json` lists the hazards of this code line by line, with the properties
that would catch each going wrong.

## The modules

| Module | What it is |
| --- | --- |
| `SeatLedger` | The abstract seat store of a trip: a booking takes all its seats or none, and gives them back once |
| `SeatInventory` | The service over PostgreSQL and Redis; implements `SeatLedger` |
| `BookingLifecycle` | What checkout promises about a booking: status, charge and seats, without services |
| `Checkout` | Booking, Payment and Seat Inventory composed, with timeouts, late requests and the lock; uses `SeatLedger`, implements `BookingLifecycle` |
| `Delivery` | What an outbox promises: at-least-once delivery, and a row settled one way |
| `Outbox` | A service's outbox table and its relays; implements `Delivery` |
| `WorkerRuntime` | The RabbitMQ consumer of the workers: queues, retries, dead letters, lost channels |
| `Workflow` | What the workers promise about a paid booking: each side effect decided once, made or skipped, and done when Booking knows |
| `Fulfilment` | Booking after the payment, Ticket Worker and Notification Worker over `WorkerRuntime`; implements `Workflow` |
| `MCSeatInventory`, `MCCheckout`, `MCFulfilment` | The symmetry sets for TLC |
| `Boarding` | What check-in promises: each ticket of a valid booking once, under one key, for good |
| `CheckIn` | Check-ins of one booking's tickets at several desks; implements `Boarding` |
| `SearchCache` | Catalog's trip search over Redis, and the admin commands that invalidate it |
| `SessionFamilies` | What refresh tokens promise: a live token is exchanged once, and what has ended stays ended |
| `RefreshSessions` | Identity's sessions: rotation, reuse, logout, over row locks; implements `SessionFamilies` |
| `PassengerProfiles` | A customer's saved passengers and their limit |
| `AnalyticsInbox` | The Kafka consumer group, its inbox and its projections |
| `SeatFeed` | From a change of a seat to the screen: announcements, the subscription, fetches |
| `MCPlatform` | Six parts, `CheckIn` to `SeatFeed`, side by side: they share no state, so `Init` chooses the `part` that runs |
| `SeatInventoryProofs`, `CheckoutProofs`, `OutboxProofs`, `FulfilmentProofs`, `CheckInProofs`, `ReadSideProofs` (search cache, seat map, analytics), `IdentityProofs` | Theorems and proofs |
| `PlatformProofs` | The theorems of the six parts, carried over to `MCPlatform` |

`SeatInventory` and `Checkout` are layers. `SeatInventory` is one service in detail, with
its caller reduced to the booking that keeps a hold token. `Checkout` is the
protocol around it, with the seats reduced to the ledger that `SeatInventory`
was shown to implement, plus what checkout can tell apart of the rest: whether
a hold is live, and how far a ConfirmSeats call has got. In the same way
`Fulfilment` starts where `Outbox` ends: what it takes from the outbox is the
promise of `Delivery` that an event of a committed payment is published, later
and perhaps more than once.

### SeatInventory

One trip. An action is one Lua script or one transaction
(`seat-hold.store.ts`, `seat-state.repository.ts`), and a handler
(`seat-inventory.service.ts`) is cut at each `await`, so that other calls, the
clock and crashes come in between.

| Model | Code |
| --- | --- |
| `seatState[s]` | row of `trip_seat_states`: none, `BLOCKED`, or `BOOKED` with a booking |
| `confirmed`, `released` | rows of `confirmation_requests` and `release_requests` |
| `hold[t]`, `alive`, `lease[s]` | hold payload, whether Redis still has it, token under each seat key |
| `expiring` | sorted set of expiries with its metadata hash |
| `holdRecord`, `releaseRecord` | idempotency records with a TTL of their own |
| `holdPc[t]`, `call[c]` | how far a HoldSeats or ConfirmSeats call has got |
| `bookingHold[b]` | `bookings.hold_token`, which Booking never changes |
| `HoldSeats`, `HoldSeatsSweep`, `AcquireHold`, `RefuseHold` | durable check, sweep, Lua acquire |
| `ReleaseHold`, `ReleaseInactive` | Lua release and its `NOT_ACTIVE` record |
| `Expire`, `Sweep` | PX of the keys; `SWEEP_EXPIRED_SCRIPT` with its batch |
| `ConfirmSeats` ... `ConfirmEnds` | lookup, sweep, hold read, transaction, best-effort cleanup, any failure |
| `ReleaseBookedSeats`, `BlockSeats`, `UnblockSeats` | one transaction each |

A seat key and its payload expire together: one script sets them with the same
PX. A hold record lives 24 hours and a hold five minutes, so
`HoldRecordExpires` requires that the hold is gone. A confirmation is
identified by its booking because Booking always sends the same token, owner,
seats and key for one booking. `SetSeatBlocked` locks only the rows that exist;
a seat sold in between is left alone, which is the same command without it.

### Checkout

| Model | Code |
| --- | --- |
| `status`, `holdOf`, `paidKey`, `cancelKey`, `seatsReleased` | columns of `booking.bookings` |
| `worker[w]` | a command or reconciler pass, where it is, its key, and whether it still holds its lock |
| `Unlocked`, `Begin`, `Return`, `LoseLock` | `withPaymentCommandLock`: `pg_advisory_lock` on a session of its own |
| `GiveUp`, `latePay`, `lateRelease`, `call[c].waiter` | client deadlines (2 s Seat Inventory, 3 s Payment), errors, crashes; a request whose client has gone may still be served |
| `attempts` | `payment.attempts` with its key and one-success constraints |
| `StartPayment` ... `MarkPaid` | `simulatePaymentLocked` and `markPaid` |
| `ReconcileExpired`, `MarkExpired`, `DropHold` | expiry reconciler, `transitionExpired` |
| `StartCancel` ... `MarkCancellationSeatsReleased` | `cancelBookingLocked`, `releaseCancelledSeats`, release reconciler |
| `MarkTicketIssued`, `CheckInTicket` | their transactions, which do not take the command lock |
| `AcquireHold`, `HoldEnds`, `SetSeatBlocked` | Seat Inventory as the rest of the world uses it |
| `HoldExpiryPasses`, `Departure` | the clock |

A command that the state it reads rejects changes nothing and is left out. The
release reconciler rechecks under the lock only that the booking is cancelled,
so `ResumeRelease` may repeat a release that was acknowledged meanwhile. Only
one command in flight per `worker`; a `ConfirmSeats` call occupies a `call`
until it ends, with or without someone waiting. Check-in is per ticket in the
code; what the booking's status shows of it is the first one.

### Outbox

The statements of `booking-outbox.repository.ts` and the loop of
`booking-outbox.relay.ts`; Payment and Catalog repeat both for their own tables.

| Model | Code |
| --- | --- |
| `written`, `published`, `deadLettered` | rows of `booking.outbox_events`, `published_at`, `dead_lettered_at` |
| `delivered` | what RabbitMQ or Kafka has accepted, which no table knows |
| `lockOwner`, `lockLapsed`, `backedOff`, `attempts` | `lock_owner`, `locked_at` against the timeout, `available_at` against now, `attempt_count` |
| `relay[p]` | the message `deliver` is at, and the rest of the batch |
| `Enqueue`, `Claim` | `enqueueBookingEvent`, `claimBatch` |
| `Publish`, `PublishFails` | the confirmed publication, or an error with the message accepted or not |
| `MarkPublished`, `MarkPublishedFails`, `MarkFailed` | the two conditional UPDATEs and the `catch` between them |
| `Abandon` | an error out of `drainOnce`, or a crash |

A relay that stalls is one that takes no step while `LockLapses`. The order
within a batch is left open.

### WorkerRuntime and Fulfilment

| Model | Code |
| --- | --- |
| `declared`, `DeclareQueue` | the queues `start` asserts and binds |
| `copy[m]` | a message in a main queue (`ready`), a retry queue (`waiting`), or delivered and not acknowledged (`unacked`), with `x-retry-count` |
| `dead` | dead-letter queues |
| `job[j]` | a `consume` that has not returned; `copy = NoCopy` once its channel is closed |
| `Consume`, `Ack`, `RouteFailure` | `consume`, its `ack`, `routeFailure` up to the confirmation |
| `ChannelCloses`, `Dies`, `RetryDelayEnds` | the broker hands the message out again; the message's TTL ends |
| `routed` | which events ever entered a queue: a history variable for the properties |
| `status`, `refs` | `bookings.status`, `issued_ticket_refs` |
| `inbox[q][e]` | the worker's `inbox_events` row: pending (Ticket Worker only), fulfilled, skipped |
| `made` | `ticket.tickets` or `email_delivery_logs` rows |
| `ReadInbox` ... `MarkFulfilled`, `Throw` | `processBookingPaid` of either worker, cut at its awaits |
| `IssueTimesOut`, `IssueArrivesLate` | the 5 s timeout of MarkTicketIssued, and Booking serving it all the same |
| `MarkPaid`, `MarkCancelled`, `CheckInTicket` | Booking's transitions; `Checkout` has them in full |

A booking has one paid event, so both have one name. Notification Worker has no
pending row: its e-mail is recorded in the transaction of the inbox row. After a
channel is lost the handler runs on, and whatever it did is found by the next
delivery in the inbox. A handler without a channel ends by its process dying,
because acknowledging on a closed channel throws out of `consume`. Which
exception a handler throws makes no difference to the runtime, so `Throw` is
possible at every await; a refusal by Booking is one of them.

### CheckIn

The tickets of one booking. `Checkout` and `Fulfilment` show a check-in only as
a status; here it is the transaction of `checkInTicket`
(`booking.repository.ts`), cut where it waits.

| Model | Code |
| --- | --- |
| `bookingStatus`, `ticketRef`, `checkIn` | `bookings.status`, `issued_ticket_refs`, `ticket_check_ins` with its key |
| `checkInRows` | rows `TICKET_ISSUED -> CHECKED_IN` of `status_history` |
| `KeyIsFree`, `rowLock` | the advisory lock on actor and key; `FOR UPDATE OF ticket_ref, booking` |
| `checkInTicket`, `LockRows` | the SELECT begins; it has its locks. The locked rows are read anew, the joined check-in is as old as the statement (`desk[d].seen`) |
| `Replay`, `RefuseStatus`, `IsCheckedIn` | the answers that change nothing |
| `InsertCheckIn`, `InsertCheckInFails` | the three writes; the primary key that refuses them |
| `markTicketIssued`, `markCancelled` | the two other writers of the status |

### SearchCache

One search key and one trip of `trip-search-cache.ts` and `catalog.service.ts`.
The result of a query is abstracted to the number of changes committed before
it, which is all that tells an old answer from a new one.

| Model | Code |
| --- | --- |
| `status`, `version` | `trips.status`; how many changes have committed |
| `generation`, `entry[g]` | the two kinds of Redis key |
| `base[g]`, `acknowledged`, `search[s].floor` | history: what was committed when a generation began, what commands have answered for, and that at the start of a search |
| `SetTripActive`, `SaveResource`, `SetCatalogResourceActive`, `TransitionTripStatus`, `ReplayTransition` | the transactions of the admin commands, each before its `invalidate` |
| `Invalidate`, `InvalidateFails` | `INCR`; or Redis fails it, loses its answer, or the process dies |
| `ReadGeneration` ... `EndSearch` | `searchTrips` with `get`, the query and `set`, each of which may fail |
| `Expire` | TTL or eviction |

### RefreshSessions and PassengerProfiles

`identity.repository.ts`. The transactions are READ COMMITTED, so `Refresh`
meets others only on row locks.

| Model | Code |
| --- | --- |
| `family`, `revoked`, `rotatedTo`, `expired` | columns of `identity.refresh_sessions`; sessions are numbered as they are issued |
| `owner[s]` | the transaction that holds the row's lock |
| `LockSession`, `Refuse` | `selectRefreshSession` with `FOR UPDATE`, and what its row decides |
| `Rotate` | insert the successor, revoke the session, commit |
| `BeginUpdate`, `VisitRow`, `CommitUpdate` | the UPDATE of a reuse: it sees what is live as it begins, and waits row by row |
| `AnswerReuse`, `AbortRequest` | the refusal; a rollback at any await |
| `login`, `logout`, `ExpireSession` | one statement each, and the clock |
| `label[p]`, `creating[c]` | `identity.passenger_profiles` of one user; a creation between its advisory lock, its count and its insert |

### AnalyticsInbox

`analytics.consumer.ts` and `analytics.service.ts`; one log stands for the
partitions.

| Model | Code |
| --- | --- |
| `log`, `committed`, `assignee`, `position` | the topics, the group's offset, which member has the partition, and how far each has read |
| `processed`, `revenueCount`, `routeFact`, `paymentFact`, `searchFact` | the tables; `revenueCount` counts how often an event's amount was added |
| `AnalyticsInit` | tables that earlier generations of the group have left: the migrations added route facts, and their revenue, to a service that ran, and its group id was bumped to read the log again |
| `EachMessage` with `applyBookingEvent`, `applyPaymentEvent`, `applySearchEvent`, `RejectInvalid` | `eachMessage`: one transaction per message, or a message passed over |
| `Assign`, `Leave`, `CommitOffset` | rebalances, crashes, and the offset commit that is a step of its own; a member that has lost the partition may still work |

### SeatFeed

One seat and one browser, across four parts of the code.

| Model | Code |
| --- | --- |
| `durable`, `lease`, `unswept` | the seat's row, its lease, and a lapse that no sweep has seen |
| `pending` | operations of Seat Inventory between their commit and their announcement |
| `acquire` ... `publishSeats`, `NotificationFails` | `seat-hold.store.ts`, `seat-inventory.service.ts`: what announces, when, and what fails |
| `link`, `queued` | `seat-status-subscription.service.ts`: the subscription and its bounded stream, which drops its oldest |
| `SubscriberDrops`, `SubscriberReconnects`, `link = "deaf"` | the gateway's one Redis client: while it has no connection no announcement arrives, and no browser learns of it |
| `fetch[f]`, `shown` | `seat-selector.tsx`: requests for the map, of which only the last one begun is shown |
| `ReadDurable`, `getSeatHolds`, `composeSeatMap` | `getSeatMap` reads rows and leases side by side and composes them |
| `missed` | history: the screen cannot know, because nobody was told or an answer failed |

`PROJECT.json` maps every definition to its lines.

## The runs

TLC explores each instance completely.

| Run | Instance | States | Shows |
| --- | --- | --- | --- |
| `seat_holds` | 2 seats, 2 owners, 2 keys each, 2 tokens, a booking, a confirm call | 122,933 | `LiveHoldsOwnTheirSeats`, `OneLiveHoldPerKey`: no release, sweep, expiry or cleanup takes another hold's lease; retries do not hold twice |
| `seat_confirmation` | 2 seats, 2 tokens, 2 bookings on one hold or two, 2 confirm calls | 217,097 | `ConfirmedSeatsAreBooked`, `BookedAllOrNothing`, `ImplementsLedger` |
| `seat_liveness` | 2 seats, 2 tokens, batches of one | 79,644 | `EveryHoldIsSwept` |
| `checkout_release` | 1 booking, 2 commands, 2 keys, lost locks | 512,336 | `OnlyCancelledIsReleased`, `AcknowledgedIsReleased` |
| `checkout_payment` | 2 bookings on one seat, 2 calls that outlive their clients | 538,788 | `PaidSeatsAreBooked`, `SoldSeatsAreCharged`, `ImplementsLifecycle` |
| `checkout_liveness` | 1 booking, 2 commands, 2 keys, 1 call, no lost lock | 51,820 | `PaymentsAreNotOvertaken`, `ReleasesAreAccepted`, `PendingIsResolved`, `CancelledIsReleased` |
| `outbox` | 2 rows, 2 relays, batches of 2, 2 attempts | 17,084 | `OwnersRowsAreUnsettled`, `ImplementsDelivery`, `EveryRowIsSettled` |
| `fulfilment` | 1 booking, both workers, 2 handlers at once, 3 messages, 2 attempts | 1,202,193 | `NoEventIsLost`, `SkippedLeavesNothing`, `ImplementsWorkflow` |
| `platform_services` | see the next table | 175,508 | `AcknowledgedChangesAreSeen`, `StaleEntriesVanish`; `OneLivePerFamily`, `ReuseRevokesFamily`, `LocksDoNotDeadlock`, `ImplementsFamilies`, `RefreshesEnd`; `ProfilesWithinLimit`; `RevenueCountedOnce`, `CommittedIsProjected`, `LagVanishes`; `CheckInAnswersAreTrue`, `ImplementsBoarding`; `SettledMapIsTrue` |
| `checkout_expiry` | 1 booking, 1 command at a time | violated | see below |
| `checkout_rebook` | 1 booking, 1 command at a time | violated | see below |
| `fulfilment_unrouted` | 1 booking | violated | see below |

The instances of `platform_services`:

| Part | Instance | States |
| --- | --- | --- |
| `SearchCache` | 2 searches, 1 command at a time, 1 change (`MaxVersion`), 1 advance of the generation (`MaxGeneration`) | 15,330 |
| `RefreshSessions` | 2 requests, 3 sessions (`MaxSession`) | 14,132 |
| `PassengerProfiles` | 2 creations, 3 profiles, 3 labels, a limit of 2 (`ProfileLimit`, 20 in the code) | 103 |
| `AnalyticsInbox` | 1 event of each kind, 2 members, 3 messages (`MaxLog`) | 12,704 |
| `CheckIn` | 2 tickets, 2 desks, 2 keys | 1,341 |
| `SeatFeed` | 1 operation under way (`MaxPending`), 2 fetches, a stream of 1 (`QueueLimit`, 100 in the code) | 131,844 |

Two searches are a reader and one that fills the cache behind its back; three
sessions are a rotated one, its successor and another login or a successor of
that; three messages are two events and a duplicate, over tables filled by
earlier groups in every way; a stream of one overflows with the second
announcement; two fetches answer in either order.

Five properties have theorems and no run of their own, because a refinement
that is checked implies them: `BookedUntilReleased` (`SeatLedger`), `SettledOnce`
(`Delivery`), `IssuedTicketsExist` (`Workflow`), `RevocationIsFinal`
(`SessionFamilies`) and `CheckInsMatchBooking` (`Boarding`).

The bounds are the numbers of seats, tokens, bookings, keys, commands, calls,
rows, relays, messages and handlers in the `.cfg` files. Beside them:
`Outbox` counts attempts up to `MaxAttempts`, since the code compares and never
subtracts; in `Fulfilment`, `Copy` bounds how many messages the broker has at
once, and an event is published, or a channel lost after a republication, only
while that leaves room (`RoomFor`). Three messages are both workers' copies and
a duplicate or a retry; bookings do not meet in fulfilment, so one is enough.
They are enough for the conflicts the properties are about:
two of everything that can compete (holds for a seat, bookings for a hold,
commands for a booking, calls for a confirmation, keys for a command, relays for
a row, deliveries of an event; two calls at once in `checkout_payment`, two keys
at once in `checkout_liveness`), a hold
of two seats that can be confirmed or released by half, a token that is reused
by nobody, and a sweep that is smaller than what it has to sweep. The safety
properties do not rest on the bounds: they are proved for all of them.

Symmetry is used in the safety runs only, over sets that are interchangeable in
the model. The checkout runs set `CHECK_DEADLOCK FALSE`: once every booking is
checked in, expired or released, every hold is gone and the trip has departed,
checkout really has nothing left to do. So does `outbox`, where every row may
be settled, and `platform_services`, whose parts stop where their bounds do:
a family has all its sessions, the log all its messages. The seat runs and
`fulfilment` check deadlock.

Every property has a mutant in `PROJECT.json`: a variant of one definition, as
a bug in that code would have it (a lock that does not lock, a release without
its row, a lease deleted without comparing), under which TLC finds the property
violated. The mutated operators stand beside the ones they vary, marked
`Mutation`.

## Fairness

`SeatInventory!Fairness`: Redis enforces every PX, so a live hold expires; the
sweeper runs on an interval timer and reads the index in the order of the
scores, so it reaches every entry that is due. Nothing is assumed of clients.

`Checkout!Fairness`: every request has a deadline, so a command that runs makes
progress or gives up (weak fairness of `Progress`, which includes `GiveUp`).
The reconcilers' timers keep firing, and PostgreSQL grants an advisory lock in
the order of the requests; commands of customers can keep the lock busy in
between, hence strong fairness of `ReconcileExpired` and `ResumeRelease`. A
pass that is repeated for ever is not cut at the same await every time, hence
strong fairness of the steps it takes. A request that fails for ever for a
reason of its own would break this; the safety theorems exclude the reasons the
protocol itself could give (a cancelled booking's seats are its own until they
are released, and the release is answered under the booking's key), as long as
no lock session dies, which is why that run has `LockLoss = FALSE`.

`Outbox!Fairness`: locks time out, backoffs end, relays poll, and a request to
the broker or the database ends in some way. A relay may always stall past the
lock timeout or die, but not each time before it has published a row it still
owns, and not each time before it has marked it: the lock timeout is several
times the publishers' timeouts. Without that, two relays could take a row from
each other for ever, and `attempt_count` alone would end nothing, because it is
only compared when a relay marks a failure.

`CatalogFairness`: a search ends, and what the active generation has stored
expires, because every entry is written with a TTL. Nothing is assumed of
commands: an invalidation that failed need not be repeated.

`SessionsFairness`: a request that waits for no lock goes on; PostgreSQL grants
a row's lock in the order of the requests, and other requests may have it in
between, hence strong fairness of `LockSession`, `Refuse` and `VisitRow`. No
request need die: `AbortRequest` is fair only where the bound on sessions would
keep a rotation from ending. `RefreshesEnd` therefore says that the updates of
two reuses never wait for each other.

`AnalyticsFairness`: while there is something to read, the group finds a member,
and members do not all die before they have projected a message, nor all before
they have committed its offset: strong fairness of the two, since a rebalance
may come in between any number of times.

Nothing is claimed to happen eventually of `Fulfilment`. A consumer whose
channel has closed does not connect again; a restart is up to the deployment.

## The proofs

`tlapm` checks every theorem below for arbitrary constants that satisfy the
modules' assumptions: the null values are not members of the sets they stand
beside, `SweepBatch`, `BatchSize` and `MaxAttempts` are positive numbers, and
the queues are those of the two workers; `QueueLimit` and `MaxSession` are
positive, the other limits natural numbers, and the kinds of events disjoint.
`Profile` is assumed to be finite, because the model counts rows; no other set
is.

| Theorem | States |
| --- | --- |
| `SeatInventoryProofs!TypeCorrect` | `Spec => []TypeOK` |
| `LeasesAreExclusive` | `LiveHoldsOwnTheirSeats` |
| `RetriesAcquireOnce` | `OneLiveHoldPerKey` |
| `ConfirmationsAreBacked` | `ConfirmedSeatsAreBooked` |
| `BookedAllOrNothingHolds` | `BookedAllOrNothing` |
| `SoldSeatsAreKept` | `BookedUntilReleased` |
| `SeatInventoryImplementsLedger` | refinement of `SeatLedger` |
| `CheckoutProofs!CheckoutTypeCorrect` | `Spec => []TypeOK` |
| `PaidBookingsHaveTheirSeats` | `PaidSeatsAreBooked` |
| `NoSeatWithoutPayment` | `SoldSeatsAreCharged` |
| `ReleasesAreCancellations` | `OnlyCancelledIsReleased` |
| `AcknowledgementsAreTrue` | `AcknowledgedIsReleased` |
| `TheLockKeepsPaymentsInOrder` | `PaymentsAreNotOvertaken` |
| `ReleasesGoThrough` | `ReleasesAreAccepted` |
| `CheckoutImplementsLifecycle` | refinement of `BookingLifecycle` |
| `OutboxProofs!OutboxTypeCorrect` | `Spec => []TypeOK` |
| `OwnersMaySettle` | `OwnersRowsAreUnsettled` |
| `SettlementIsFinal` | `SettledOnce` |
| `DeliversAtLeastOnce` | refinement of `Delivery` |
| `FulfilmentProofs!FulfilmentTypeCorrect` | `Spec => []TypeOK` |
| `NothingIsLost` | `NoEventIsLost` |
| `SkippingIsClean` | `SkippedLeavesNothing` |
| `TicketsExist` | `IssuedTicketsExist` |
| `FulfilmentImplementsWorkflow` | refinement of `Workflow` |
| `ReadSideProofs!CatalogTypeCorrect` | `CatalogSpec => []CatalogTypeOK` |
| `AcknowledgedChangesSeen` | `AcknowledgedChangesAreSeen` |
| `EntriesNew` | no entry is older than its generation |
| `FeedTypeCorrect` | `FeedSpec => []FeedTypeOK` |
| `SettledMapTrue` | `SettledMapIsTrue` |
| `ReadSideProofs!AnalyticsTypeCorrect` | `AnalyticsSpec => []AnalyticsTypeOK` |
| `RevenueOnce` | `RevenueCountedOnce` |
| `CommittedProjected` | `CommittedIsProjected` |
| `IdentityProofs!SessionsTypeCorrect` | `SessionsSpec => []SessionsTypeOK` |
| `OneSessionLives` | `OneLivePerFamily` |
| `ReuseRevokes` | `ReuseRevokesFamily` |
| `RevocationStays` | `RevocationIsFinal` |
| `RefreshesDoNotDeadlock` | `LocksDoNotDeadlock` |
| `SessionsImplementFamilies` | refinement of `SessionFamilies` |
| `ProfilesLimited` | `ProfilesWithinLimit`, with the types |
| `CheckInProofs!BoardingTypeCorrect` | `BoardingSpec => []BoardingTypeOK` |
| `CheckInsMatch` | `CheckInsMatchBooking` |
| `CheckInAnswersTrue` | `CheckInAnswersAreTrue` |
| `CheckInImplementsBoarding` | refinement of `Boarding` |
| `PlatformProofs!PartsBehaveAsAlone` | `MCPlatform!Spec` implies each part's own specification |
| `PlatformTypeCorrect` | `MCPlatform`: `Spec => []TypeOK` |
| `PlatformIsSafe` | `MCPlatform!Spec` implies the safety properties and refinements of the parts |

*Seat Inventory.* The inductive invariant has a Redis half and a PostgreSQL
half. `HoldInv` adds to the exclusive leases that a live hold is acquired,
indexed, and named by its idempotency record: the last is what makes a retry
find it, and holds because the record cannot expire before the payload.
`SeatInv` adds to the two invariants of the rows that a booking's hold was
acquired (so the seats of a booking never change) and that a call works for a
booking with a hold. The halves are preserved independently: no durable row
depends on Redis, which is the design the code claims. `BookedUntilReleased`
and the refinement follow step by step.

*Checkout.* `Inv` relates the columns of a booking (`RowInv`), the seats with
confirmations, charges and release rows (`SeatInv`), and says what each command,
call and late request may rely on at its point of progress (`FlightInv`): a
command that was told "confirmed" has a confirmation row, one that releases has
a cancelled booking, a call in flight works for a charged booking, a late
release is for a cancelled booking. All of these are facts that no later step
undoes, so they survive timeouts, late service and a lost lock, and no part of
the invariant mentions the lock: the safety of the rows does not depend on it.
Only `PaymentsAreNotOvertaken` and `ReleasesAreAccepted` do, and both are about
`~LockLoss`. `LockInv` proves the first. For the second, `KeyInv` says that every
release, recorded, under way or late, has the key of the cancellation, and that
no command is about to cancel a booking that is cancelled: the commands of a
booking exclude each other, so whoever cancels it is the one that had read it as
valid, and its key the one in the row. `CancelledInv` adds that a cancelled
booking was confirmed, so there are seats to release. This is the safety half of
the reconciler's convergence; that it is acknowledged in the end is
`CancelledIsReleased`, which TLC checks under fairness. In
the refinement a step changes at most one of status, charge and seats; a
booking's seats leave it only in a release, which `SeatInv` ties to `CANCELLED`.

*Outbox.* The invariant `IInv` adds to the two checked ones that what a relay
remembers of its batch is true of the tables (`RelaysAgree`: its rows are
written, and an accepted one was delivered) and `PublishedIsDelivered`. The lock
is what keeps settlement final: every settlement gives it up, a claim takes only
unsettled rows, and a mark by anyone but the owner changes nothing. Timeouts and
crashes only ever take locks away, so they need no argument of their own.

*Fulfilment.* `Inv` has three parts. `RuntimeInv`: a delivery on an open channel
holds an unacknowledged message of its own queue and event, and no two
deliveries the same one. `RowsAgree`: what the inboxes, the documents and
Booking's references say about each other, requests still to be served
included. `JobsKnow`: what a handler may rely on where it stands; each is a fact
that `Grows` shows no step to take back, so that it survives any interleaving.
From these follows `AllKept`: each event that entered a queue is over, is dead,
or has a message that no acknowledgement is about to remove. It is the part
that needs the order of republication and acknowledgement, and a stronger
statement than `NoEventIsLost`, which is not inductive: it does not tell the
last message of an event from one about to be acknowledged.
For the refinement of `Workflow` the invariant also needs that messages are about
paid bookings (`MessagesArePaid`), as each is a copy of an event that Booking
wrote with the payment. A handler's write is then `Make`, `Skip`, `Complete` or,
if the inbox row is there already, a stutter; `Issue` is Booking's transaction,
whether its client still waits or not; what the broker, the runtime and the
retries do is invisible.

*Search cache.* `IInv` compares three counts of changes: an entry, and whatever
a search is about to store, has at least the changes its generation began with
(`EntriesAreNew`, `Sound`), and the active generation began with everything that
was answered for (`AnsweredIsActive`). Both need the order of the code: a search
reads the generation before the database, a command advances it after its
commit.

*Seat map.* `FeedInv` says who still owes the screen something after each
change. Unless the screen is true or `missed`, there is an operation or a sweep
that will announce the seat, an announcement that will cause a fetch, or the
last fetch begun, of which everything read so far is still so. A lost connection
takes announcements only with `missed`. A change that overtakes a fetch leaves a promise behind, which is why the two reads may come
in either order.

*Sessions.* `Knows` says what a request relies on: one that rotates has locked
its session, and so it is live; one that updates has locked what it has visited,
and saw every session of the family that is still live and no newer than the
update. Since every writer of `revoked_at` locks the row first, no other request
disturbs this. With it a new session joins a family whose only live session
leaves it in the same transaction. No circle of waiting requests
(`LocksDoNotDeadlock`): `LocksInv` says that a request which waits while it has
locks of its own is an update of a reuse, and that what it has locked is older
than what it waits for, because the one live session of a family is its newest.
Of the rows that are waited for, the newest is held by a request that does not
wait. In the refinement only the commits are steps, the insert with the
revocation of `Rotate`, the one live session that `CommitUpdate` ends, and
`logout`; everything a request reads or locks before is a stutter.

*Profiles.* The advisory lock admits one creation, and between its count and its
insert others can only delete.

*Analytics.* Projections are never taken back (`Grows`), a member moves past a
message only when it is projected, and an offset is committed only if a member
has reached it. The inbox row and the revenue are written by one transaction,
which is all that keeps duplicates from counting.

*Check-in.* A request that decides holds the booking's row and so knows its
status; what it has read of the check-ins may be old, but they are never
deleted. So a check-in it has seen is there, and one it has missed is caught by
the primary key. For the refinement of `Boarding` add that a request's ticket is
registered and tickets are never struck off (`Registered`); its insertion is
then a step of `Board` on the status of that moment, and everything else a desk
does is a stutter.

*Platform.* The parts have no variable in common, so a step of one is a stutter
of the others: each behaves as it does alone, and what is proved of it alone
holds of the specification that the run checks.

Only model-checked: the liveness properties (TLAPS cannot reason about the
fairness of these actions, since it has no `ENABLED`): `EveryHoldIsSwept`,
`PendingIsResolved`, `CancelledIsReleased`, `EveryRowIsSettled`,
`StaleEntriesVanish`, `RefreshesEnd` and `LagVanishes`. Every other property of
a passing run is a theorem. The three runs that find a violation refute what
they state, so there is nothing to prove; `PaymentsAreNotOvertaken`,
`ReleasesAreAccepted` and `NoEventIsLost` are the theorems about what the code
guarantees in their place.

## Where code and documentation disagree

The first two come from one fact: the 2 s deadline of a ConfirmSeats request
(`seat-inventory.client.ts`) ends the command and unlocks the booking, but not
the request, which Seat Inventory may still serve.

- `checkout_expiry`: the documentation says that expiry cannot overtake an
  in-flight durable confirmation (`docs/ARCHITECTURE.md:289`,
  `docs/CONTRACTS.md:404`). The command gives up, the reconciler marks the
  booking `EXPIRED`, and the request, which has read the hold as active,
  commits. The booking is charged, owns its seats and is `EXPIRED`; nothing
  releases them. `PaymentsAreNotOvertaken` is what the lock does guarantee, and
  `BookingLifecycle` allows for the rest.
- `checkout_rebook`: the documentation says that release converges
  (`docs/ARCHITECTURE.md:361`). A first request is slow, a retry confirms the
  seats and the booking is paid, cancelled and released, and then the slow
  request's transaction books the seats again: it checks the rows but not
  `release_requests`. A later release is answered from the row and frees
  nothing. `BookedUntilReleased`, `OnlyCancelledIsReleased` and
  `AcknowledgedIsReleased` are what does hold.
- `fulfilment_unrouted`: the documentation says that delivery is at-least-once
  and that a workflow that cannot complete moves to a visible retry or
  dead-letter state (`docs/ARCHITECTURE.md:301`, `:314`). The relay publishes to
  a topic exchange without `mandatory`, and only a worker's own `start` declares
  and binds its queue (`worker-runtime/src/index.ts:48`). An event published
  before a worker's first start is confirmed, marked published, and in no queue.
  Once the queues exist they are durable, and `NoEventIsLost` is what holds from
  then on.

Two things `Fulfilment` shows that no document denies. A booking cancelled after
its documents were made keeps them: a redelivery continues from the inbox row
without reading the booking again, MarkTicketIssued refuses, and the event ends
in the dead-letter queue. And when such a cancellation meets a redelivery
after a lost channel, the second handler may have found no inbox row before the
first wrote it, and the booking cancelled after: its skip conflicts with the
row, the message is acknowledged, and the row stays pending. This is the
exception in `NoEventIsLost`.

What the newer models show without a run that says so, because no document
denies it or because the documents leave it open:

- Two desks that check one ticket in at once, with different keys: the second
  waits for the row, has read that there is no check-in, and its insertion meets
  the primary key (`booking.repository.ts:538`). The request fails with a
  database error nobody maps, where "repeated commands are stable"
  (`docs/CONTRACTS.md:440`) would suggest an answer. Its retry is answered.
- Two refreshes with one token, as a browser with two tabs may send: the second
  finds the token rotated and revokes the family, the first one's successor
  included, although nobody stole it. The code treats this as any reuse
  (`docs/ARCHITECTURE.md:328`).
- The UPDATE of a reuse does not see a session that is rotated into the family
  after it began. `ReuseRevokesFamily` is exact about it (`since`).
- A hold that lapses or is released, and is swept, between the lookup of
  ConfirmSeats and its commit: the seats are booked and nobody announces it,
  because the script finds no hold to consume. The screen shows the seat free
  until its next fetch.
- The gateway's Redis client loses its connection and makes a new one
  (`seat-status-subscription.service.ts:24`). What Seat Inventory announces
  meanwhile is lost. The error is logged and the readiness probe fails, but the
  browsers stay subscribed, so nothing makes them fetch: "clients refetch
  `seatMap` after events and reconnects" (`docs/CONTRACTS.md:304`) means their
  own reconnects. The same staleness follows from a failed notification, from a
  failed fetch and from a subscription that the gateway registers only after the
  page has fetched. `missed` counts all these losses, and `SettledMapIsTrue` says
  that with those the model has there are no others: neither a full stream nor
  fetches that overtake each other or changes leave a false map behind.
- A lifecycle command whose invalidation failed heals it if repeated with the
  same key, and not with a new one: the status is already there and the
  command answers without invalidating. Any other command, or the TTL, heals it.

## Not modelled

In the modelled parts: reads that change nothing (booking history, staff search,
reports), audit rows, prices, names and contact data, the version and content of
a seat-status event (one that arrives causes a fetch, whatever it says).
Rejected commands are not actions. Redis may refuse a call and loses keys when
they expire; that it forgets a lease early, or takes back the version counter of
a trip, as a crash that loses its last writes might, is outside the models.

The outboxes of Payment and Catalog repeat Booking's statements on tables of
their own; `Outbox` stands for all three. One consequence of its claims:
`attempt_count` is counted when a row is claimed (`booking-outbox.repository.ts:99`),
not when it is tried, so a batch that outlasts its lock spends attempts of rows
it never came to, and such a row may be dead-lettered at its first failure.

Hazards that no model covers are listed in `PROJECT.json` with the reason: the
reconciler that one failing candidate starves, the publisher that waits for a
drain event without a deadline, the closed channel that nobody opens again.

Components that stay out: the gateway's resolvers and the MCP tools translate
one request into another and keep no state, and the MCP rate limiter is one
atomic script on one counter; the web pages outside the seat map show what the
gateway answers; password hashing and token signing are cryptography; contracts
are generated, and observability, infrastructure and scripts hold no state the
program depends on.

What can be modelled is a small share of the repository's lines. 28,000 of its
63,000 lines are generated message and schema types, and most of the others are
resolvers, mappers, validation, pages and tests. The state changes of the
services are a few thousand lines, and those the map names.

## Plan

The state of every service has a model, a run and its theorems. What is left
refines them:

1. A refinement of the seat rows and leases in `SeatFeed` by `SeatInventory`,
   whose actions they abstract.
2. Liveness of the seat map while the connection lasts.
3. Two trips in `SearchCache`, and the lifecycle keys instead of the choice of a
   replay.
4. `Checkout` with the check-ins of `CheckIn` in place of `CheckInTicket`.
