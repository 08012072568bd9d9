----------------------------- MODULE SearchCache -----------------------------
(***************************************************************************)
(* catalog-service's cached trip search, and the admin commands that       *)
(* change what it finds.  An answer is stored under a generation; every    *)
(* command commits to PostgreSQL and then advances the generation, so that *)
(* later searches no longer look at what was stored before.  The two       *)
(* stores share no transaction: a search runs between any two steps of a   *)
(* command, and Redis may refuse any call.                                 *)
(*                                                                         *)
(* One search key and one trip are modelled.  What a query finds is the    *)
(* number of changes committed before it, version.  Whether a command's    *)
(* key was spent on the same command before is a choice: the audit tables  *)
(* hold the keys of all commands, those of the time before Init included.  *)
(***************************************************************************)
EXTENDS Naturals

CONSTANTS
  Search,         \* searches in flight
  Admin,          \* admin commands in flight
  MaxVersion,     \* bound: changes committed
  MaxGeneration,  \* bound: advances of the generation
  NoEntry

ASSUME CatalogLimitAssumption == MaxVersion \in Nat /\ MaxGeneration \in Nat

Versions == 0..MaxVersion
Generations == 0..MaxGeneration

ASSUME CatalogNullAssumption == NoEntry \notin Versions

VARIABLES
  status,      \* catalog.trips.status
  version,     \* number of changes committed
  generation,  \* Redis: the active generation
  entry,       \* Redis: what is stored under each generation
  search,      \* what each search does, and what it has read
  admin,       \* what each command does, and the changes it answers for
  base,        \* history: version when each generation became active
  acknowledged \* history: changes that commands have answered for

databaseVars == <<status, version>>
cacheVars == <<generation, entry, base>>
catalogVars == <<databaseVars, cacheVars, search, admin, acknowledged>>

TripStatus == {"SCHEDULED", "DEPARTED", "COMPLETED"}

NoSearch == [pc |-> "idle", generation |-> 0, value |-> 0, floor |-> 0]
NoAdmin == [pc |-> "idle", upto |-> 0]

CatalogTypeOK ==
  /\ status \in TripStatus
  /\ version \in Versions
  /\ generation \in Generations
  /\ entry \in [Generations -> Versions \cup {NoEntry}]
  /\ base \in [Generations -> Versions]
  /\ search \in [Search -> [pc : {"idle", "entry", "query", "bypass", "fill", "answer"},
                            generation : Generations, value : Versions, floor : Versions]]
  /\ admin \in [Admin -> [pc : {"idle", "invalidate"}, upto : Versions]]
  /\ acknowledged \in Versions

CatalogInit ==
  /\ status \in {"SCHEDULED", "DEPARTED"}
  /\ version = 0
  /\ generation = 0
  /\ entry = [g \in Generations |-> NoEntry]
  /\ base = [g \in Generations |-> 0]
  /\ search = [s \in Search |-> NoSearch]
  /\ admin = [a \in Admin |-> NoAdmin]
  /\ acknowledged = 0

-----------------------------------------------------------------------------
(* Admin commands.  The transaction commits, the command goes on to advance
   the generation. *)
Commit(a, changed) ==
  /\ admin[a] = NoAdmin
  /\ changed => version < MaxVersion
  /\ version' = IF changed THEN version + 1 ELSE version
  /\ admin' = [admin EXCEPT ![a] = [pc |-> "invalidate", upto |-> version']]
  /\ UNCHANGED <<cacheVars, search, acknowledged>>

(* setTripActive: the trip may already be as the command asks. *)
SetTripActive(a) ==
  /\ \E changed \in BOOLEAN : Commit(a, changed)
  /\ UNCHANGED status

(* createTrip and saveCatalogResource: a replay changes nothing.  The trip is
   rewritten before it departs only, other resources at any time. *)
SaveResource(a, replayed, ofTrip) ==
  /\ ofTrip /\ ~replayed => status = "SCHEDULED"
  /\ Commit(a, ~replayed)
  /\ UNCHANGED status

(* setCatalogResourceActive: a replay, or what is already so, changes nothing. *)
SetCatalogResourceActive(a) ==
  /\ \E changed \in BOOLEAN : Commit(a, changed)
  /\ UNCHANGED status

isAllowedTransition(from, to) ==
  \/ from = "SCHEDULED" /\ to = "DEPARTED"
  \/ from = "DEPARTED" /\ to = "COMPLETED"

(* transitionTripStatus: a transition, and the replay of any, invalidate.  A
   status that is already there, under a new key, answers at once and does
   not: it adds a row to the audit, which is no part of the model. *)
TransitionTripStatus(a, to) ==
  /\ isAllowedTransition(status, to)
  /\ Commit(a, TRUE)
  /\ status' = to

ReplayTransition(a) ==
  /\ status # "SCHEDULED"
  /\ Commit(a, FALSE)
  /\ UNCHANGED status

(* INCR: Redis creates the key at 1, and a search reads an absent key as 0. *)
Advance ==
  /\ generation < MaxGeneration
  /\ generation' = generation + 1
  /\ base' = [base EXCEPT ![generation + 1] = version]
  /\ UNCHANGED entry

Answered(a) == admin' = [admin EXCEPT ![a] = NoAdmin]

Acknowledge(v) == acknowledged' = IF v > acknowledged THEN v ELSE acknowledged

(* The command answers once the generation has advanced. *)
Invalidate(a) ==
  /\ admin[a].pc = "invalidate"
  /\ Advance
  /\ Acknowledge(admin[a].upto)
  /\ Answered(a)
  /\ UNCHANGED <<databaseVars, search>>

(* Redis is down, or its answer is lost, or the process dies: the caller sees
   an error, the change stays committed. *)
InvalidateFails(a) ==
  /\ admin[a].pc = "invalidate"
  /\ Advance \/ UNCHANGED cacheVars
  /\ Answered(a)
  /\ UNCHANGED <<databaseVars, search, acknowledged>>

-----------------------------------------------------------------------------
(* searchTrips: TripSearchCache.get reads the generation, then the entry stored
   under it.  A failure of either, or an entry that does not parse, bypasses the
   cache.  floor is what the caller may rely on: all that was answered before. *)
ReadGeneration(s) ==
  /\ search[s] = NoSearch
  /\ search' = [search EXCEPT ![s] = [pc |-> "entry", generation |-> generation,
                                      value |-> 0, floor |-> acknowledged]]
  /\ UNCHANGED <<databaseVars, cacheVars, admin, acknowledged>>

ReadGenerationFails(s) ==
  /\ search[s] = NoSearch
  /\ search' = [search EXCEPT ![s].pc = "bypass", ![s].floor = acknowledged]
  /\ UNCHANGED <<databaseVars, cacheVars, admin, acknowledged>>

ReadEntry(s) ==
  LET e == entry[search[s].generation] IN
  /\ search[s].pc = "entry"
  /\ search' = IF e = NoEntry
                 THEN [search EXCEPT ![s].pc = "query"]
                 ELSE [search EXCEPT ![s].pc = "answer", ![s].value = e, ![s].generation = 0]
  /\ UNCHANGED <<databaseVars, cacheVars, admin, acknowledged>>

ReadEntryFails(s) ==
  /\ search[s].pc = "entry"
  /\ search' = [search EXCEPT ![s].pc = "bypass", ![s].generation = 0]
  /\ UNCHANGED <<databaseVars, cacheVars, admin, acknowledged>>

Query(s) ==
  /\ search[s].pc \in {"query", "bypass"}
  /\ search' = [search EXCEPT ![s].value = version,
                              ![s].pc = IF @ = "query" THEN "fill" ELSE "answer"]
  /\ UNCHANGED <<databaseVars, cacheVars, admin, acknowledged>>

(* Mutation: the entry is stored under the generation active by now. *)
FillActiveGeneration(s) ==
  /\ search[s].pc = "fill"
  /\ entry' = [entry EXCEPT ![generation] = search[s].value]
  /\ search' = [search EXCEPT ![s].pc = "answer", ![s].generation = 0]
  /\ UNCHANGED <<databaseVars, generation, base, admin, acknowledged>>

(* TripSearchCache.set stores the answer under the generation the search has
   read, whichever is active by now. *)
Fill(s) ==
  /\ search[s].pc = "fill"
  /\ entry' = [entry EXCEPT ![search[s].generation] = search[s].value]
  /\ search' = [search EXCEPT ![s].pc = "answer", ![s].generation = 0]
  /\ UNCHANGED <<databaseVars, generation, base, admin, acknowledged>>

FillFails(s) ==
  /\ search[s].pc = "fill"
  /\ search' = [search EXCEPT ![s].pc = "answer", ![s].generation = 0]
  /\ UNCHANGED <<databaseVars, cacheVars, admin, acknowledged>>

(* The answer is sent, the publication of the search has failed it, or the
   process has died. *)
EndSearch(s) ==
  /\ search[s].pc # "idle"
  /\ search' = [search EXCEPT ![s] = NoSearch]
  /\ UNCHANGED <<databaseVars, cacheVars, admin, acknowledged>>

(* Mutation: entries are stored without a lifetime. *)
NothingExpires(g) == FALSE /\ UNCHANGED catalogVars

(* EX ttl, or eviction. *)
Expire(g) ==
  /\ entry[g] # NoEntry
  /\ entry' = [entry EXCEPT ![g] = NoEntry]
  /\ UNCHANGED <<databaseVars, generation, base, search, admin, acknowledged>>

-----------------------------------------------------------------------------
RunSearch(s) ==
  \/ ReadEntry(s)
  \/ ReadEntryFails(s)
  \/ Query(s)
  \/ Fill(s)
  \/ FillFails(s)
  \/ EndSearch(s)

RunCommand(a) ==
  \/ SetTripActive(a)
  \/ \E replayed, ofTrip \in BOOLEAN : SaveResource(a, replayed, ofTrip)
  \/ SetCatalogResourceActive(a)
  \/ \E to \in TripStatus : TransitionTripStatus(a, to)
  \/ ReplayTransition(a)
  \/ Invalidate(a)
  \/ InvalidateFails(a)

CatalogNext ==
  \/ \E s \in Search : ReadGeneration(s) \/ ReadGenerationFails(s) \/ RunSearch(s)
  \/ \E a \in Admin : RunCommand(a)
  \/ \E g \in Generations : Expire(g)

CatalogSpec == CatalogInit /\ [][CatalogNext]_catalogVars

(* A search ends, and what searches would find in the cache lapses. *)
CatalogFairness ==
  /\ \A s \in Search : WF_catalogVars(RunSearch(s))
  /\ WF_catalogVars(Expire(generation))

-----------------------------------------------------------------------------
(* A search that begins after a command has answered finds what the command
   changed, although the answer may come from the cache, other searches fill
   the cache with what they read before the change, and Redis fails between
   any two steps.  (A transition to a status that is already there answers
   for nothing.) *)
AcknowledgedChangesAreSeen ==
  \A s \in Search : search[s].pc = "answer" => search[s].value >= search[s].floor

(* Once the catalogue stays as it is, searches find it as it is: a change whose
   invalidation failed, and was never repeated, is hidden for a while only. *)
StaleEntriesVanish ==
  <>[](entry[generation] \in {NoEntry, version})
=============================================================================
