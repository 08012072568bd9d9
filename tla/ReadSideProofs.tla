--------------------------- MODULE ReadSideProofs ---------------------------
(***************************************************************************)
(* What readers of the catalogue, of the seat map and of the reports are   *)
(* promised, for any number of searches, commands, changes, generations,   *)
(* fetches, announcements, events and consumers.                           *)
(*                                                                         *)
(* The search cache: a command answers for its change only after a         *)
(* generation has begun with the change in it, and what is stored under a  *)
(* generation is never older than the generation, because a search reads   *)
(* the generation before it reads the database.                            *)
(*                                                                         *)
(* The seat map: after every change there is, until the screen is true     *)
(* again, an operation or a sweep that will announce it, an announcement   *)
(* that will be taken, or a fetch that has read nothing of before it.      *)
(*                                                                         *)
(* The reports: a member moves past a message only when it is projected,   *)
(* projections are never taken back, and the offset that is committed is   *)
(* one that a member has reached; the inbox row and the revenue are        *)
(* written by one transaction.                                             *)
(***************************************************************************)
EXTENDS SearchCache, SeatFeed, AnalyticsInbox, TLAPS

SearchState == [pc : {"idle", "entry", "query", "bypass", "fill", "answer"},
                generation : Generations, value : Versions, floor : Versions]

AdminState == [pc : {"idle", "invalidate"}, upto : Versions]

(* What a search may rely on where it stands. *)
Sound(r) ==
  /\ r.floor <= version
  /\ r.generation <= generation
  /\ r.pc \in {"entry", "query", "fill"} => r.floor <= base[r.generation]
  /\ r.pc = "fill" => r.value >= base[r.generation]
  /\ r.pc = "answer" => r.value >= r.floor

SearchesAreSound == \A s \in Search : Sound(search[s])

GenerationsAreCommitted == \A g \in Generations : base[g] <= version

(* An entry belongs to a generation that has begun, and is at least as new. *)
EntriesAreNew ==
  \A g \in Generations : entry[g] # NoEntry => g <= generation /\ entry[g] >= base[g]

AnsweredIsActive == acknowledged <= base[generation]

CommandsAreCommitted == \A a \in Admin : admin[a].upto <= version

CatalogInv ==
  /\ CatalogTypeOK
  /\ SearchesAreSound
  /\ GenerationsAreCommitted
  /\ EntriesAreNew
  /\ AnsweredIsActive
  /\ CommandsAreCommitted

-----------------------------------------------------------------------------
LEMMA CatalogBounds ==
  /\ 0 \in Versions /\ Versions \subseteq Nat
  /\ 0 \in Generations /\ Generations \subseteq Nat
BY CatalogLimitAssumption DEF Versions, Generations

LEMMA CatalogInitIsSound == CatalogInit => CatalogInv
<1> SUFFICES ASSUME CatalogInit PROVE CatalogInv
  OBVIOUS
<1> USE CatalogBounds DEF CatalogInit
<1>1. NoSearch \in SearchState /\ NoAdmin \in AdminState
  BY DEF NoSearch, NoAdmin, SearchState, AdminState
<1>2. CatalogTypeOK
  BY <1>1 DEF CatalogTypeOK, SearchState, AdminState, TripStatus
<1>3. SearchesAreSound
  <2>1. NoSearch.floor = 0 /\ NoSearch.generation = 0 /\ NoSearch.pc = "idle"
    BY DEF NoSearch
  <2>2. Sound(NoSearch)
    BY <2>1 DEF Sound
  <2> QED BY <2>2 DEF SearchesAreSound
<1>4. GenerationsAreCommitted /\ EntriesAreNew /\ AnsweredIsActive /\ CommandsAreCommitted
  BY DEF GenerationsAreCommitted, EntriesAreNew, AnsweredIsActive, CommandsAreCommitted, NoAdmin
<1> QED BY <1>2, <1>3, <1>4 DEF CatalogInv

-----------------------------------------------------------------------------
(* The fields of a search. *)
LEMMA SearchFields ==
  ASSUME CatalogInv, NEW s \in Search
  PROVE  /\ search[s] \in SearchState /\ Sound(search[s])
         /\ search[s].generation \in Generations
         /\ search[s].value \in Versions
         /\ search[s].floor \in Versions
         /\ version \in Versions /\ generation \in Generations /\ acknowledged \in Versions
         /\ base \in [Generations -> Versions]
         /\ entry \in [Generations -> Versions \cup {NoEntry}]
<1>1. search[s] \in SearchState
  BY DEF CatalogInv, CatalogTypeOK, SearchState
<1> QED BY <1>1 DEF CatalogInv, CatalogTypeOK, SearchesAreSound, SearchState

(* A step of a search keeps the invariant if the search relies on nothing but
   what is so. *)
LEMMA SearchStep ==
  ASSUME CatalogInv, NEW s \in Search, NEW r \in SearchState, Sound(r),
         search' = [search EXCEPT ![s] = r],
         UNCHANGED <<databaseVars, cacheVars, admin, acknowledged>>
  PROVE  CatalogInv'
<1> USE DEF databaseVars, cacheVars
<1>1. CatalogTypeOK'
  BY DEF CatalogInv, CatalogTypeOK, SearchState
<1>2. ASSUME NEW t \in Search PROVE Sound(search[t])'
  <2>1. search'[t] = IF t = s THEN r ELSE search[t]
    BY DEF CatalogInv, CatalogTypeOK
  <2>2. Sound(search'[t])
    BY <2>1 DEF CatalogInv, SearchesAreSound
  <2> QED BY <2>2 DEF Sound
<1>3. SearchesAreSound'
  BY <1>2 DEF SearchesAreSound
<1> QED
  BY <1>1, <1>3 DEF CatalogInv, GenerationsAreCommitted, EntriesAreNew, AnsweredIsActive,
                    CommandsAreCommitted

LEMMA ReadGenerationKeeps ==
  ASSUME CatalogInv, NEW s \in Search, ReadGeneration(s) PROVE CatalogInv'
<1> DEFINE r == [pc |-> "entry", generation |-> generation, value |-> 0, floor |-> acknowledged]
<1>1. r \in SearchState
  BY SearchFields, CatalogBounds DEF SearchState
<1>2. base[generation] <= version /\ acknowledged <= base[generation]
  BY SearchFields DEF CatalogInv, GenerationsAreCommitted, AnsweredIsActive
<1>3. base[generation] \in Nat /\ version \in Nat /\ acknowledged \in Nat /\ generation \in Nat
  BY SearchFields, CatalogBounds
<1>4. search' = [search EXCEPT ![s] = r]
  BY DEF ReadGeneration
<1>5. r.pc = "entry" /\ r.generation = generation /\ r.floor = acknowledged
  OBVIOUS
<1> HIDE DEF r
<1>6. Sound(r)
  BY <1>2, <1>3, <1>5 DEF Sound
<1> QED BY <1>1, <1>4, <1>6, SearchStep DEF ReadGeneration

LEMMA ReadGenerationFailsKeeps ==
  ASSUME CatalogInv, NEW s \in Search, ReadGenerationFails(s) PROVE CatalogInv'
<1> DEFINE r == [search[s] EXCEPT !.pc = "bypass", !.floor = acknowledged]
<1>1. r \in SearchState
  BY SearchFields DEF SearchState
<1>2. base[generation] <= version /\ acknowledged <= base[generation]
  BY SearchFields DEF CatalogInv, GenerationsAreCommitted, AnsweredIsActive
<1>3. base[generation] \in Nat /\ version \in Nat /\ acknowledged \in Nat
  BY SearchFields, CatalogBounds
<1>4. search' = [search EXCEPT ![s] = r]
  BY DEF ReadGenerationFails, CatalogInv, CatalogTypeOK
<1>5. r.pc = "bypass" /\ r.generation = search[s].generation /\ r.floor = acknowledged
  BY SearchFields DEF SearchState
<1>6. search[s].generation <= generation
  BY SearchFields DEF Sound
<1> HIDE DEF r
<1>7. Sound(r)
  BY <1>2, <1>3, <1>5, <1>6 DEF Sound
<1> QED BY <1>1, <1>4, <1>7, SearchStep DEF ReadGenerationFails

LEMMA ReadEntryKeeps ==
  ASSUME CatalogInv, NEW s \in Search, ReadEntry(s) PROVE CatalogInv'
<1> DEFINE e == entry[search[s].generation]
<1>1. CASE e = NoEntry
  <2> DEFINE r == [search[s] EXCEPT !.pc = "query"]
  <2>1. r \in SearchState
    BY SearchFields DEF SearchState
  <2>2. Sound(r)
    BY SearchFields DEF Sound, ReadEntry, SearchState
  <2>3. search' = [search EXCEPT ![s] = r]
    BY <1>1 DEF ReadEntry
  <2> HIDE DEF r
  <2> QED BY <2>1, <2>2, <2>3, SearchStep DEF ReadEntry
<1>2. CASE e # NoEntry
  <2> DEFINE r == [search[s] EXCEPT !.pc = "answer", !.value = e, !.generation = 0]
  <2>1. e \in Versions
    BY <1>2, SearchFields
  <2>2. e >= base[search[s].generation]
    BY <1>2, SearchFields DEF CatalogInv, EntriesAreNew
  <2>3. search[s].floor <= base[search[s].generation] /\ base[search[s].generation] \in Versions
    BY SearchFields DEF Sound, ReadEntry
  <2>4. search[s].floor <= version /\ search[s].floor <= e
    <3>1. search[s].floor <= version
      BY SearchFields DEF Sound
    <3>2. e \in Nat /\ base[search[s].generation] \in Nat /\ search[s].floor \in Nat
      BY <2>1, <2>3, SearchFields, CatalogBounds
    <3> QED BY <2>2, <2>3, <3>1, <3>2
  <2>5. search' = [search EXCEPT ![s] = r]
    BY <1>2, SearchFields DEF ReadEntry, CatalogInv, CatalogTypeOK
  <2> HIDE DEF e
  <2>6. search[s] \in SearchState /\ 0 \in Generations
    BY SearchFields, CatalogBounds
  <2>7. r \in SearchState
    BY <2>1, <2>6 DEF SearchState
  <2>8. r.pc = "answer" /\ r.generation = 0 /\ r.value = e /\ r.floor = search[s].floor
    BY <2>6 DEF SearchState
  <2> HIDE DEF r
  <2>9. e \in Nat /\ search[s].floor \in Nat /\ generation \in Nat
    BY <2>1, SearchFields, CatalogBounds
  <2>10. Sound(r)
    BY <2>4, <2>8, <2>9 DEF Sound
  <2>11. UNCHANGED <<databaseVars, cacheVars, admin, acknowledged>>
    BY DEF ReadEntry
  <2> QED BY <2>5, <2>7, <2>10, <2>11, SearchStep
<1> QED BY <1>1, <1>2

LEMMA ReadEntryFailsKeeps ==
  ASSUME CatalogInv, NEW s \in Search, ReadEntryFails(s) PROVE CatalogInv'
<1> DEFINE r == [search[s] EXCEPT !.pc = "bypass", !.generation = 0]
<1>1. r \in SearchState
  BY SearchFields, CatalogBounds DEF SearchState
<1>2. Sound(r)
  BY SearchFields, CatalogBounds DEF Sound, SearchState
<1>3. search' = [search EXCEPT ![s] = r]
  BY DEF ReadEntryFails, CatalogInv, CatalogTypeOK
<1> HIDE DEF r
<1> QED BY <1>1, <1>2, <1>3, SearchStep DEF ReadEntryFails

(* What a query finds holds all that was committed: all that was answered for
   and all that the search's generation began with. *)
LEMMA QueryKeeps ==
  ASSUME CatalogInv, NEW s \in Search, Query(s) PROVE CatalogInv'
<1> DEFINE r == [search[s] EXCEPT !.value = version,
                                  !.pc = IF @ = "query" THEN "fill" ELSE "answer"]
<1>1. r \in SearchState
  BY SearchFields DEF SearchState
<1>2. base[search[s].generation] <= version
  BY SearchFields DEF CatalogInv, GenerationsAreCommitted
<1>3. Sound(r)
  BY <1>2, SearchFields, CatalogBounds DEF Sound, SearchState, Query
<1>4. search' = [search EXCEPT ![s] = r]
  BY DEF Query, CatalogInv, CatalogTypeOK
<1> HIDE DEF r
<1> QED BY <1>1, <1>3, <1>4, SearchStep DEF Query

LEMMA FillFailsKeeps ==
  ASSUME CatalogInv, NEW s \in Search, FillFails(s) PROVE CatalogInv'
<1> DEFINE r == [search[s] EXCEPT !.pc = "answer", !.generation = 0]
<1>1. r \in SearchState
  BY SearchFields, CatalogBounds DEF SearchState
<1>2. base[search[s].generation] \in Versions
  BY SearchFields
<1>3. Sound(r)
  BY <1>2, SearchFields, CatalogBounds DEF Sound, SearchState, FillFails
<1>4. search' = [search EXCEPT ![s] = r]
  BY DEF FillFails, CatalogInv, CatalogTypeOK
<1> HIDE DEF r
<1> QED BY <1>1, <1>3, <1>4, SearchStep DEF FillFails

LEMMA EndSearchKeeps ==
  ASSUME CatalogInv, NEW s \in Search, EndSearch(s) PROVE CatalogInv'
<1>1. NoSearch \in SearchState
  BY CatalogBounds DEF NoSearch, SearchState
<1>2. NoSearch.floor = 0 /\ NoSearch.generation = 0 /\ NoSearch.pc = "idle"
  BY DEF NoSearch
<1>3. version \in Nat /\ generation \in Nat
  BY SearchFields, CatalogBounds
<1>4. Sound(NoSearch)
  BY <1>2, <1>3 DEF Sound
<1> QED BY <1>1, <1>4, SearchStep DEF EndSearch

(* A search fills the generation it has read: what it found is no older. *)
LEMMA FillKeeps ==
  ASSUME CatalogInv, NEW s \in Search, Fill(s) PROVE CatalogInv'
<1> DEFINE g == search[s].generation
           r == [search[s] EXCEPT !.pc = "answer", !.generation = 0]
<1>1. base[g] \in Versions /\ search[s].value >= base[g] /\ g <= generation
  BY SearchFields DEF Sound, Fill
<1>2. r \in SearchState
  BY SearchFields, CatalogBounds DEF SearchState
<1>3. Sound(r)
  BY <1>1, SearchFields, CatalogBounds DEF Sound, SearchState, Fill
<1>4. search' = [search EXCEPT ![s] = r]
  BY DEF Fill, CatalogInv, CatalogTypeOK
<1>5. UNCHANGED <<databaseVars, generation, base, admin, acknowledged>>
  BY DEF Fill
<1> HIDE DEF r
<1>6. CatalogTypeOK'
  <2>1. search' \in [Search -> SearchState]
    BY <1>2, <1>4 DEF CatalogInv, CatalogTypeOK, SearchState
  <2>2. entry' \in [Generations -> Versions \cup {NoEntry}]
    BY SearchFields DEF Fill
  <2> QED BY <2>1, <2>2, <1>5 DEF CatalogInv, CatalogTypeOK, SearchState, databaseVars
<1>7. ASSUME NEW t \in Search PROVE Sound(search[t])'
  <2>1. search'[t] = IF t = s THEN r ELSE search[t]
    BY <1>4 DEF CatalogInv, CatalogTypeOK
  <2>2. Sound(search'[t])
    BY <2>1, <1>3 DEF CatalogInv, SearchesAreSound
  <2> QED BY <2>2, <1>5 DEF Sound, databaseVars
<1>8. EntriesAreNew'
  BY <1>1, <1>5, SearchFields DEF Fill, CatalogInv, EntriesAreNew
<1> QED
  BY <1>5, <1>6, <1>7, <1>8 DEF CatalogInv, SearchesAreSound, GenerationsAreCommitted,
     AnsweredIsActive, CommandsAreCommitted, databaseVars

LEMMA ExpireKeeps ==
  ASSUME CatalogInv, NEW g \in Generations, Expire(g) PROVE CatalogInv'
<1> USE DEF Expire, databaseVars, CatalogInv
<1>1. CatalogTypeOK'
  BY DEF CatalogTypeOK
<1>2. SearchesAreSound'
  BY DEF SearchesAreSound, Sound
<1>3. EntriesAreNew'
  BY DEF EntriesAreNew, CatalogTypeOK
<1> QED
  BY <1>1, <1>2, <1>3 DEF GenerationsAreCommitted, AnsweredIsActive, CommandsAreCommitted

-----------------------------------------------------------------------------
(* A commit, whatever it changes and in whichever status. *)
LEMMA CommitKeeps ==
  ASSUME CatalogInv, NEW a \in Admin, NEW changed \in BOOLEAN, Commit(a, changed),
         status' \in TripStatus
  PROVE  CatalogInv'
<1> USE DEF CatalogInv
<1>1. version \in Versions /\ version' \in Versions /\ version <= version'
  BY CatalogLimitAssumption DEF Commit, CatalogTypeOK, Versions
<1>2. admin' = [admin EXCEPT ![a] = [pc |-> "invalidate", upto |-> version']]
      /\ UNCHANGED <<generation, entry, base, search, acknowledged>>
  BY DEF Commit, cacheVars
<1>3. CatalogTypeOK'
  BY <1>1, <1>2 DEF CatalogTypeOK
<1>4. ASSUME NEW s \in Search PROVE Sound(search[s])'
  <2>1. Sound(search[s]) /\ search[s].floor \in Nat /\ version \in Nat /\ version' \in Nat
    BY <1>1, SearchFields, CatalogBounds
  <2> QED BY <1>1, <1>2, <2>1 DEF Sound
<1>5. ASSUME NEW g \in Generations PROVE base'[g] <= version'
  <2>1. base[g] <= version /\ base[g] \in Nat /\ version \in Nat /\ version' \in Nat
    BY <1>1, CatalogBounds DEF GenerationsAreCommitted, CatalogTypeOK
  <2> QED BY <1>1, <1>2, <2>1
<1>6. EntriesAreNew' /\ AnsweredIsActive'
  BY <1>2 DEF EntriesAreNew, AnsweredIsActive
<1>7. ASSUME NEW b \in Admin PROVE admin'[b].upto <= version'
  <2>1. admin[b].upto \in Versions /\ admin[b].upto <= version
    BY DEF CatalogTypeOK, CommandsAreCommitted
  <2>2. admin'[b].upto = IF b = a THEN version' ELSE admin[b].upto
    BY <1>2 DEF CatalogTypeOK
  <2>3. admin[b].upto \in Nat /\ version \in Nat /\ version' \in Nat
    BY <1>1, <2>1, CatalogBounds
  <2> QED BY <1>1, <2>1, <2>2, <2>3
<1> QED
  BY <1>3, <1>4, <1>5, <1>6, <1>7 DEF SearchesAreSound, GenerationsAreCommitted,
                                      CommandsAreCommitted

LEMMA CommandKeeps ==
  ASSUME CatalogInv, NEW a \in Admin,
         \/ SetTripActive(a)
         \/ \E replayed, ofTrip \in BOOLEAN : SaveResource(a, replayed, ofTrip)
         \/ SetCatalogResourceActive(a)
         \/ \E to \in TripStatus : TransitionTripStatus(a, to)
         \/ ReplayTransition(a)
  PROVE  CatalogInv'
<1>1. status \in TripStatus
  BY DEF CatalogInv, CatalogTypeOK
<1>2. status' \in TripStatus /\ \E changed \in BOOLEAN : Commit(a, changed)
  <2>1. CASE SetTripActive(a) \/ SetCatalogResourceActive(a)
    BY <2>1, <1>1 DEF SetTripActive, SetCatalogResourceActive
  <2>2. CASE \E replayed, ofTrip \in BOOLEAN : SaveResource(a, replayed, ofTrip)
    BY <2>2, <1>1 DEF SaveResource
  <2>3. CASE \E to \in TripStatus : TransitionTripStatus(a, to)
    BY <2>3 DEF TransitionTripStatus
  <2>4. CASE ReplayTransition(a)
    BY <2>4, <1>1 DEF ReplayTransition
  <2> QED BY <2>1, <2>2, <2>3, <2>4
<1> QED BY <1>2, CommitKeeps

(* A generation begins with all that is committed, and with nothing stored. *)
LEMMA AdvanceKeeps ==
  ASSUME CatalogInv, NEW a \in Admin, Advance, Answered(a),
         UNCHANGED <<databaseVars, search>>,
         acknowledged' \in {acknowledged, admin[a].upto}
  PROVE  CatalogInv'
<1> USE DEF CatalogInv
<1>1. version \in Versions /\ generation \in Generations /\ generation + 1 \in Generations
      /\ base \in [Generations -> Versions]
  BY CatalogLimitAssumption DEF Advance, CatalogTypeOK, Generations
<1>2. UNCHANGED <<status, version, search, entry>> /\ generation' = generation + 1
      /\ base' = [base EXCEPT ![generation + 1] = version]
      /\ admin' = [admin EXCEPT ![a] = NoAdmin]
  BY DEF Advance, Answered, databaseVars
<1>3. acknowledged' \in Versions /\ acknowledged' <= version
  <2>1. admin[a].upto \in Versions /\ admin[a].upto <= version
    BY DEF CatalogTypeOK, CommandsAreCommitted
  <2>2. acknowledged \in Versions /\ acknowledged <= version
    <3>1. acknowledged \in Versions /\ acknowledged <= base[generation] /\ base[generation] <= version
      BY <1>1 DEF CatalogTypeOK, AnsweredIsActive, GenerationsAreCommitted
    <3>2. acknowledged \in Nat /\ base[generation] \in Nat /\ version \in Nat
      BY <1>1, <3>1, CatalogBounds
    <3> QED BY <3>1, <3>2
  <2> QED BY <2>1, <2>2
<1>4. CatalogTypeOK'
  <2>1. NoAdmin \in AdminState
    BY CatalogBounds DEF NoAdmin, AdminState
  <2> QED BY <1>1, <1>2, <1>3, <2>1 DEF CatalogTypeOK, AdminState
<1>5. ASSUME NEW s \in Search PROVE Sound(search[s])'
  <2>1. base'[search[s].generation] = base[search[s].generation]
    BY <1>1, <1>2, SearchFields, CatalogBounds DEF Sound
  <2>2. Sound(search[s]) /\ search'[s] = search[s] /\ version' = version
    BY <1>2 DEF SearchesAreSound
  <2>3. search[s].generation \in Nat /\ generation \in Nat
    BY <1>1, SearchFields, CatalogBounds
  <2>4. search[s].generation <= generation => search[s].generation <= generation'
    BY <1>2, <2>3
  <2> QED BY <2>1, <2>2, <2>4 DEF Sound
<1>6. GenerationsAreCommitted'
  BY <1>1, <1>2, CatalogBounds DEF GenerationsAreCommitted
<1>7. EntriesAreNew'
  BY <1>1, <1>2, CatalogBounds DEF EntriesAreNew, CatalogTypeOK
<1>8. AnsweredIsActive'
  BY <1>1, <1>2, <1>3 DEF AnsweredIsActive
<1>9. ASSUME NEW b \in Admin PROVE admin'[b].upto <= version'
  BY <1>1, <1>2, CatalogBounds DEF CatalogTypeOK, CommandsAreCommitted, NoAdmin
<1> QED BY <1>4, <1>5, <1>6, <1>7, <1>8, <1>9 DEF SearchesAreSound, CommandsAreCommitted

LEMMA InvalidateKeeps ==
  ASSUME CatalogInv, NEW a \in Admin, Invalidate(a) PROVE CatalogInv'
BY AdvanceKeeps DEF Invalidate, Acknowledge

LEMMA InvalidateFailsKeeps ==
  ASSUME CatalogInv, NEW a \in Admin, InvalidateFails(a) PROVE CatalogInv'
<1>1. CASE Advance
  BY <1>1, AdvanceKeeps DEF InvalidateFails
<1>2. CASE UNCHANGED cacheVars
  <2> USE <1>2 DEF InvalidateFails, Answered, cacheVars, databaseVars, CatalogInv
  <2>1. NoAdmin \in AdminState
    BY CatalogBounds DEF NoAdmin, AdminState
  <2>2. CatalogTypeOK'
    BY <2>1 DEF CatalogTypeOK, AdminState
  <2>3. SearchesAreSound'
    BY DEF SearchesAreSound, Sound
  <2>4. CommandsAreCommitted'
    BY CatalogBounds DEF CommandsAreCommitted, CatalogTypeOK, NoAdmin
  <2> QED
    BY <2>2, <2>3, <2>4 DEF GenerationsAreCommitted, EntriesAreNew, AnsweredIsActive
<1> QED BY <1>1, <1>2 DEF InvalidateFails

-----------------------------------------------------------------------------
LEMMA CatalogStepKeeps == CatalogInv /\ [CatalogNext]_catalogVars => CatalogInv'
<1> SUFFICES ASSUME CatalogInv, [CatalogNext]_catalogVars PROVE CatalogInv'
  OBVIOUS
<1>1. ASSUME NEW s \in Search, ReadGeneration(s) \/ ReadGenerationFails(s) \/ RunSearch(s)
      PROVE  CatalogInv'
  BY <1>1, ReadGenerationKeeps, ReadGenerationFailsKeeps, ReadEntryKeeps, ReadEntryFailsKeeps,
     QueryKeeps, FillKeeps, FillFailsKeeps, EndSearchKeeps DEF RunSearch
<1>2. ASSUME NEW a \in Admin, RunCommand(a) PROVE CatalogInv'
  BY <1>2, CommandKeeps, InvalidateKeeps, InvalidateFailsKeeps DEF RunCommand
<1>3. ASSUME NEW g \in Generations, Expire(g) PROVE CatalogInv'
  BY <1>3, ExpireKeeps
<1>4. CASE UNCHANGED catalogVars
  BY <1>4 DEF catalogVars, databaseVars, cacheVars, CatalogInv, CatalogTypeOK, SearchesAreSound, Sound,
     GenerationsAreCommitted, EntriesAreNew, AnsweredIsActive, CommandsAreCommitted
<1> QED BY <1>1, <1>2, <1>3, <1>4 DEF CatalogNext

(* The strengthening holds in every reachable state. *)
THEOREM CatalogInductive == CatalogSpec => []CatalogInv
BY CatalogInitIsSound, CatalogStepKeeps, PTL DEF CatalogSpec

(* The state of the search cache and of its commands is well typed. *)
THEOREM CatalogTypeCorrect == CatalogSpec => []CatalogTypeOK
<1>1. CatalogInv => CatalogTypeOK
  BY DEF CatalogInv
<1> QED BY <1>1, CatalogInductive, PTL

(* Cached or not, and whatever fails, a search that begins after a command has
   answered finds what the command changed. *)
THEOREM AcknowledgedChangesSeen == CatalogSpec => []AcknowledgedChangesAreSeen
<1>1. CatalogInv => AcknowledgedChangesAreSeen
  BY DEF CatalogInv, SearchesAreSound, Sound, AcknowledgedChangesAreSeen
<1> QED BY <1>1, CatalogInductive, PTL

(* What is stored under a generation is no older than the generation: what a
   command has invalidated is never found again. *)
THEOREM EntriesNew == CatalogSpec => []EntriesAreNew
<1>1. CatalogInv => EntriesAreNew
  BY DEF CatalogInv
<1> QED BY <1>1, CatalogInductive, PTL

-----------------------------------------------------------------------------
SeatReads == {"none", "held", "unread"}

FetchState == [pc : {"idle", "read"}, last : BOOLEAN,
               durable : Durable \cup {"unread"}, lease : SeatReads]

Held(l) == IF l = "none" THEN "none" ELSE "held"

(* One fetch at most is the last one begun, and it is in flight. *)
FetchesInv ==
  /\ \A f, g \in Fetch : fetch[f].last /\ fetch[g].last => f = g
  /\ \A f \in Fetch : fetch[f].last => fetch[f].pc = "read"

(* The change will be announced, or the announcement taken. *)
Promised == pending # {} \/ unswept \/ queued > 0

(* What the last fetch has read is still so. *)
UpToDate(f) ==
  /\ fetch[f].last
  /\ fetch[f].durable \in {"unread", durable}
  /\ fetch[f].lease \in {"unread", Held(lease)}

ShownIsTrue ==
  /\ \A f \in Fetch : ~fetch[f].last
  /\ shown = composeSeatMap(durable, lease)

NothingForgotten == missed \/ Promised \/ ShownIsTrue \/ \E f \in Fetch : UpToDate(f)

FeedInv == FeedTypeOK /\ FetchesInv /\ NothingForgotten

LEMMA NoFetchIsState == NoFetch \in FetchState /\ ~NoFetch.last
BY DEF NoFetch, FetchState, SeatReads

LEMMA FetchFields ==
  ASSUME FeedTypeOK, NEW f \in Fetch
  PROVE  fetch \in [Fetch -> FetchState] /\ fetch[f] \in FetchState
BY DEF FeedTypeOK, FetchState, SeatReads

LEMMA FeedInitIsSound == FeedInit => FeedInv
<1> SUFFICES ASSUME FeedInit PROVE FeedInv
  OBVIOUS
<1>1. fetch \in [Fetch -> FetchState]
  BY NoFetchIsState DEF FeedInit
<1>3. queued \in 0..QueueLimit
  BY FeedLimitAssumption DEF FeedInit
<1>4. FeedTypeOK
  BY <1>1, <1>3 DEF FeedInit, FeedTypeOK, FetchState, SeatReads, Lease
<1>2. FetchesInv /\ NothingForgotten
  BY NoFetchIsState DEF FeedInit, FetchesInv, NothingForgotten
<1> QED BY <1>2, <1>4 DEF FeedInv

-----------------------------------------------------------------------------
(* The service's steps and the gateway's leave the fetches alone; each announces
   its change, leaves something that will, or misses it. *)
LEMMA AnnounceKeeps ==
  ASSUME FeedInv, Announce
  PROVE  queued' \in 0..QueueLimit /\ missed' \in BOOLEAN /\ (missed' \/ queued' > 0)
<1>1. missed \in BOOLEAN /\ queued \in Nat /\ queued <= QueueLimit
      /\ QueueLimit \in Nat /\ QueueLimit > 0
  BY FeedLimitAssumption DEF FeedInv, FeedTypeOK
<1>2. CASE link = "subscribed"
  <2>1. queued' = IF queued < QueueLimit THEN queued + 1 ELSE queued
    BY <1>2 DEF Announce
  <2>2. queued' \in 0..QueueLimit /\ queued' > 0
    BY <1>1, <2>1
  <2>3. missed' \in BOOLEAN
    BY DEF Announce
  <2> QED BY <2>2, <2>3
<1>3. CASE link # "subscribed"
  <2>1. queued' = queued
    BY <1>3 DEF Announce
  <2>2. missed' = TRUE
    BY <1>3 DEF Announce
  <2> QED BY <1>1, <2>1, <2>2
<1> QED BY <1>2, <1>3

LEMMA ServiceStep ==
  ASSUME FeedInv, UNCHANGED <<fetch, shown>>,
         link' \in {"down", "connected", "subscribed", "deaf"},
         durable' \in Durable, lease' \in Lease, unswept' \in BOOLEAN,
         pending' \subseteq {"consume", "publish"},
         queued' \in 0..QueueLimit, missed' \in BOOLEAN,
         missed' \/ Promised'
  PROVE  FeedInv'
<1>1. FeedTypeOK'
  BY DEF FeedInv, FeedTypeOK
<1>2. FetchesInv'
  BY DEF FeedInv, FetchesInv
<1> QED BY <1>1, <1>2 DEF FeedInv, NothingForgotten

LEMMA ServiceKeeps ==
  ASSUME FeedInv,
         \/ acquire \/ release \/ LeaseLapses \/ sweepExpired \/ ConfirmCommit
         \/ consumeConfirmedHold \/ ReleaseBookedCommit \/ SetBlockedCommit \/ publishSeats
         \/ NotificationFails
  PROVE  FeedInv'
<1> USE DEF FeedInv, FeedTypeOK, seatVars, browserVars, Promised, Durable, Lease
<1>1. CASE acquire
  BY <1>1, AnnounceKeeps, ServiceStep DEF acquire
<1>2. CASE release
  BY <1>2, AnnounceKeeps, ServiceStep DEF release
<1>3. CASE LeaseLapses
  BY <1>3, ServiceStep DEF LeaseLapses
<1>4. CASE sweepExpired
  BY <1>4, AnnounceKeeps, ServiceStep DEF sweepExpired
<1>5. CASE ConfirmCommit
  BY <1>5, ServiceStep DEF ConfirmCommit
<1>6. CASE consumeConfirmedHold
  BY <1>6, AnnounceKeeps, ServiceStep DEF consumeConfirmedHold
<1>7. CASE ReleaseBookedCommit
  BY <1>7, ServiceStep DEF ReleaseBookedCommit
<1>8. CASE SetBlockedCommit
  BY <1>8, ServiceStep DEF SetBlockedCommit
<1>9. CASE publishSeats
  BY <1>9, AnnounceKeeps, ServiceStep DEF publishSeats
<1>10. CASE NotificationFails
  BY <1>10, ServiceStep DEF NotificationFails
<1> QED BY <1>1, <1>2, <1>3, <1>4, <1>5, <1>6, <1>7, <1>8, <1>9, <1>10

(* A fetch that begins has read nothing yet. *)
LEMMA BeginFetchKeeps ==
  ASSUME FeedInv, BeginFetch, UNCHANGED <<seatVars, shown>>,
         link' \in {"down", "connected", "subscribed", "deaf"},
         queued' \in 0..QueueLimit
  PROVE  FeedInv'
<1> DEFINE begun == [NoFetch EXCEPT !.pc = "read", !.last = TRUE]
<1>1. IdleFetch \in Fetch
  BY DEF BeginFetch, IdleFetch
<1>2. \A f \in Fetch : fetch'[f] = IF f = IdleFetch THEN begun ELSE [fetch[f] EXCEPT !.last = FALSE]
  BY DEF BeginFetch
<1>3. begun \in FetchState /\ begun.last /\ begun.pc = "read" /\ begun.durable = "unread"
      /\ begun.lease = "unread"
  BY DEF NoFetch, FetchState, SeatReads
<1> HIDE DEF begun
<1>4. \A f \in Fetch : [fetch[f] EXCEPT !.last = FALSE] \in FetchState
                       /\ ~[fetch[f] EXCEPT !.last = FALSE].last
  BY FetchFields DEF FeedInv, FetchState
<1>5. fetch' \in [Fetch -> FetchState]
  <2>1. fetch' = [f \in Fetch |-> fetch'[f]]
    BY DEF BeginFetch
  <2> QED BY <2>1, <1>2, <1>3, <1>4
<1>6. FeedTypeOK'
  BY <1>5 DEF FeedInv, FeedTypeOK, FetchState, SeatReads, BeginFetch, seatVars
<1>7. FetchesInv'
  BY <1>2, <1>3, <1>4 DEF FetchesInv
<1>8. \E f \in Fetch : UpToDate(f)'
  <2>1. PICK f \in Fetch : f = IdleFetch
    BY <1>1
  <2>2. fetch'[f].last /\ fetch'[f].durable = "unread" /\ fetch'[f].lease = "unread"
    BY <2>1, <1>2, <1>3
  <2> QED BY <2>2 DEF UpToDate
<1> QED BY <1>6, <1>7, <1>8 DEF FeedInv, NothingForgotten

(* Reading, answering and failing. *)
LEMMA ReadDurableKeeps ==
  ASSUME FeedInv, NEW f \in Fetch, ReadDurable(f) PROVE FeedInv'
<1> DEFINE r == [fetch[f] EXCEPT !.durable = durable]
<1>1. /\ fetch' = [fetch EXCEPT ![f].durable = durable]
      /\ UNCHANGED <<durable, lease, unswept, pending, link, queued, shown, missed>>
  BY DEF ReadDurable, seatVars
<1>2. r \in FetchState /\ r.last = fetch[f].last /\ r.pc = fetch[f].pc /\ r.durable = durable
      /\ r.lease = fetch[f].lease
  BY FetchFields DEF FeedInv, FeedTypeOK, FetchState
<1>3. \A g \in Fetch : fetch'[g] = IF g = f THEN r ELSE fetch[g]
  BY <1>1, FetchFields DEF FeedInv
<1>4. fetch' = [fetch EXCEPT ![f] = r]
  BY <1>1
<1> HIDE DEF r
<1>5. fetch' \in [Fetch -> FetchState]
  BY <1>2, <1>4, FetchFields DEF FeedInv
<1>6. FeedTypeOK'
  BY <1>1, <1>5 DEF FeedInv, FeedTypeOK, FetchState, SeatReads
<1>7. FetchesInv'
  BY <1>2, <1>3 DEF FeedInv, FetchesInv
<1>8. ASSUME NEW g \in Fetch, UpToDate(g) PROVE UpToDate(g)'
  BY <1>1, <1>2, <1>3, <1>8 DEF UpToDate, Held
<1>9. ShownIsTrue => ShownIsTrue'
  BY <1>1, <1>2, <1>3 DEF ShownIsTrue
<1> QED BY <1>1, <1>6, <1>7, <1>8, <1>9 DEF FeedInv, NothingForgotten, Promised

LEMMA GetSeatHoldsKeeps ==
  ASSUME FeedInv, NEW f \in Fetch, getSeatHolds(f) PROVE FeedInv'
<1> DEFINE r == [fetch[f] EXCEPT !.lease = Held(lease)]
<1>1. /\ fetch' = [fetch EXCEPT ![f].lease = Held(lease)]
      /\ unswept' = FALSE
      /\ IF unswept THEN Announce ELSE UNCHANGED <<queued, missed>>
      /\ UNCHANGED <<durable, lease, pending, link, shown>>
  BY DEF getSeatHolds, Held
<1>2. r \in FetchState /\ r.last = fetch[f].last /\ r.pc = fetch[f].pc
      /\ r.durable = fetch[f].durable /\ r.lease = Held(lease)
  BY FetchFields DEF FeedInv, FetchState, Held, SeatReads
<1>3. fetch' = [fetch EXCEPT ![f] = r]
  BY <1>1
<1>4. \A g \in Fetch : fetch'[g] = IF g = f THEN r ELSE fetch[g]
  BY <1>3, FetchFields DEF FeedInv
<1> HIDE DEF r
<1>5. fetch' \in [Fetch -> FetchState]
  BY <1>2, <1>3, FetchFields DEF FeedInv
<1>6. queued' \in 0..QueueLimit /\ missed' \in BOOLEAN /\ (unswept => missed' \/ queued' > 0)
      /\ (~unswept => UNCHANGED <<queued, missed>>)
  BY <1>1, AnnounceKeeps DEF FeedInv, FeedTypeOK
<1>7. FeedTypeOK'
  BY <1>1, <1>5, <1>6 DEF FeedInv, FeedTypeOK, FetchState, SeatReads
<1>8. FetchesInv'
  BY <1>2, <1>4 DEF FeedInv, FetchesInv
<1>9. ASSUME NEW g \in Fetch, UpToDate(g) PROVE UpToDate(g)'
  BY <1>1, <1>2, <1>4, <1>9 DEF UpToDate, Held
<1>10. ShownIsTrue => ShownIsTrue'
  BY <1>1, <1>2, <1>4 DEF ShownIsTrue
<1>11. NothingForgotten'
  BY <1>1, <1>6, <1>9, <1>10 DEF FeedInv, NothingForgotten, Promised
<1> QED BY <1>7, <1>8, <1>11 DEF FeedInv

(* A fetch ends. *)
LEMMA FetchEnds ==
  ASSUME FeedInv, NEW f \in Fetch, fetch' = [fetch EXCEPT ![f] = NoFetch],
         UNCHANGED <<seatVars, link, queued>>, shown' \in SeatStatus, missed' \in BOOLEAN,
         missed => missed',
         fetch[f].last => missed' \/ (UpToDate(f) => shown' = composeSeatMap(durable, lease)),
         ~fetch[f].last => shown' = shown
  PROVE  FeedInv'
<1>1. \A g \in Fetch : fetch'[g] = IF g = f THEN NoFetch ELSE fetch[g]
  BY FetchFields DEF FeedInv
<1>2. fetch' \in [Fetch -> FetchState]
  BY NoFetchIsState, FetchFields DEF FeedInv
<1>3. FeedTypeOK'
  BY <1>2 DEF FeedInv, FeedTypeOK, FetchState, SeatReads, seatVars
<1>4. FetchesInv'
  BY <1>1, NoFetchIsState DEF FeedInv, FetchesInv
<1>5. CASE ~fetch[f].last
  <2>1. ASSUME NEW g \in Fetch, UpToDate(g) PROVE UpToDate(g)'
    BY <1>1, <1>5, <2>1 DEF UpToDate, seatVars
  <2>2. ShownIsTrue => ShownIsTrue'
    BY <1>1, <1>5, NoFetchIsState DEF ShownIsTrue, seatVars
  <2> QED BY <1>3, <1>4, <2>1, <2>2 DEF FeedInv, NothingForgotten, Promised, seatVars
<1>6. CASE fetch[f].last
  <2>1. \A g \in Fetch : ~fetch'[g].last
    BY <1>1, <1>6, NoFetchIsState DEF FeedInv, FetchesInv
  <2>2. ~ShownIsTrue /\ \A g \in Fetch : UpToDate(g) => g = f
    BY <1>6 DEF ShownIsTrue, UpToDate, FeedInv, FetchesInv
  <2>3. missed' \/ (UpToDate(f) => ShownIsTrue')
    BY <1>6, <2>1 DEF ShownIsTrue, seatVars
  <2> QED BY <1>3, <1>4, <2>2, <2>3 DEF FeedInv, NothingForgotten, Promised, seatVars
<1> QED BY <1>5, <1>6

LEMMA ShowAnswerKeeps ==
  ASSUME FeedInv, NEW f \in Fetch, ShowAnswer(f) PROVE FeedInv'
<1>1. fetch[f] \in FetchState /\ durable \in Durable /\ lease \in Lease
  BY FetchFields DEF FeedInv, FeedTypeOK
<1>2. fetch[f].durable \in Durable /\ fetch[f].lease \in {"none", "held"}
  BY <1>1 DEF ShowAnswer, HasRead, FetchState, SeatReads
<1>3. \A d \in Durable, l \in Lease : composeSeatMap(d, l) \in SeatStatus
                                   /\ composeSeatMap(d, Held(l)) = composeSeatMap(d, l)
  BY DEF composeSeatMap, Durable, Lease, SeatStatus, Held
<1>4. shown' \in SeatStatus
  BY <1>2, <1>3 DEF ShowAnswer, FeedInv, FeedTypeOK, Lease
<1>5. UpToDate(f) => fetch[f].durable = durable /\ fetch[f].lease = Held(lease)
  BY <1>2 DEF UpToDate, Durable
<1>6. fetch[f].last => (UpToDate(f) => shown' = composeSeatMap(durable, lease))
  BY <1>1, <1>3, <1>5 DEF ShowAnswer
<1>7. missed' = missed /\ missed \in BOOLEAN
  BY DEF ShowAnswer, FeedInv, FeedTypeOK
<1>8. /\ fetch' = [fetch EXCEPT ![f] = NoFetch]
      /\ UNCHANGED <<seatVars, link, queued>>
      /\ ~fetch[f].last => shown' = shown
  BY DEF ShowAnswer
<1>9. missed' \in BOOLEAN /\ (missed => missed')
  BY <1>7
<1>10. fetch[f].last => missed' \/ (UpToDate(f) => shown' = composeSeatMap(durable, lease))
  BY <1>6
<1> QED BY <1>4, <1>8, <1>9, <1>10, FetchEnds

LEMMA FetchFailsKeeps ==
  ASSUME FeedInv, NEW f \in Fetch, FetchFails(f) PROVE FeedInv'
<1>1. missed' \in BOOLEAN /\ (missed => missed') /\ (fetch[f].last => missed')
  BY DEF FetchFails
<1>2. shown \in SeatStatus
  BY DEF FeedInv, FeedTypeOK
<1> QED BY <1>1, <1>2, FetchEnds DEF FetchFails

(* What a lost connection takes with it is missed. *)
LEMMA SubscriberKeeps ==
  ASSUME FeedInv, SubscriberDrops \/ SubscriberReconnects
  PROVE  FeedInv'
<1>1. queued \in 0..QueueLimit /\ missed \in BOOLEAN /\ QueueLimit \in Nat
  BY FeedLimitAssumption DEF FeedInv, FeedTypeOK
<1>2. CASE SubscriberDrops
  <2>3. queued' \in 0..queued /\ missed' = (missed \/ queued' # queued)
    BY <1>2 DEF SubscriberDrops
  <2>4. queued' \in 0..QueueLimit
    BY <1>1, <2>3
  <2>1. queued' \in 0..QueueLimit /\ missed' \in BOOLEAN /\ (missed' \/ queued' = queued)
    BY <2>3, <2>4
  <2>2. (missed => missed') /\ link' = "deaf" /\ UNCHANGED <<seatVars, fetch, shown>>
    BY <1>2 DEF SubscriberDrops
  <2> QED BY <2>1, <2>2 DEF seatVars, FeedInv, FeedTypeOK, FetchesInv, NothingForgotten,
             Promised, UpToDate, ShownIsTrue
<1>3. CASE SubscriberReconnects
  BY <1>3 DEF SubscriberReconnects, seatVars, FeedInv, FeedTypeOK, FetchesInv, NothingForgotten,
     Promised, UpToDate, ShownIsTrue
<1> QED BY <1>2, <1>3

LEMMA BrowserKeeps ==
  ASSUME FeedInv, onConnected \/ subscribeToTrip \/ Disconnect \/ onEvent \/ refreshSeatMap
  PROVE  FeedInv'
<1>1. queued \in 0..QueueLimit
      /\ link \in {"down", "connected", "subscribed", "deaf"}
  BY DEF FeedInv, FeedTypeOK
<1>2. CASE onConnected
  BY <1>1, <1>2, BeginFetchKeeps DEF onConnected
<1>3. CASE subscribeToTrip
  BY <1>3 DEF subscribeToTrip, seatVars, FeedInv, FeedTypeOK, FetchesInv, NothingForgotten,
     Promised, UpToDate, ShownIsTrue
<1>4. CASE Disconnect
  <2>1. 0 \in 0..QueueLimit
    BY FeedLimitAssumption
  <2> QED BY <1>4, <2>1 DEF Disconnect, seatVars, FeedInv, FeedTypeOK, FetchesInv,
             NothingForgotten
<1>5. CASE onEvent
  <2>1. queued' \in 0..QueueLimit
    BY <1>1, <1>5, FeedLimitAssumption DEF onEvent
  <2> QED BY <1>1, <1>5, <2>1, BeginFetchKeeps DEF onEvent
<1>6. CASE refreshSeatMap
  BY <1>1, <1>6, BeginFetchKeeps DEF refreshSeatMap
<1> QED BY <1>2, <1>3, <1>4, <1>5, <1>6

LEMMA FeedStepKeeps == FeedInv /\ [FeedNext]_feedVars => FeedInv'
<1> SUFFICES ASSUME FeedInv, [FeedNext]_feedVars PROVE FeedInv'
  OBVIOUS
<1>1. CASE UNCHANGED feedVars
  BY <1>1 DEF feedVars, seatVars, browserVars, FeedInv, FeedTypeOK, FetchesInv, NothingForgotten,
     Promised, UpToDate, ShownIsTrue
<1> QED
  BY <1>1, ServiceKeeps, SubscriberKeeps, BrowserKeeps, ReadDurableKeeps, GetSeatHoldsKeeps, ShowAnswerKeeps,
     FetchFailsKeeps DEF FeedNext

(* The strengthening holds in every reachable state. *)
THEOREM FeedInductive == FeedSpec => []FeedInv
BY FeedInitIsSound, FeedStepKeeps, PTL DEF FeedSpec

(* Seats, announcements and fetches are well typed. *)
THEOREM FeedTypeCorrect == FeedSpec => []FeedTypeOK
<1>1. FeedInv => FeedTypeOK
  BY DEF FeedInv
<1> QED BY <1>1, FeedInductive, PTL

(* Once nothing is under way, the screen shows the seat as it is, unless
   something was lost and the map not fetched since. *)
THEOREM SettledMapTrue == FeedSpec => []SettledMapIsTrue
<1>1. FeedInv => SettledMapIsTrue
  <2> SUFFICES ASSUME FeedInv, Settled, ~missed
               PROVE  shown = composeSeatMap(durable, lease)
    BY DEF SettledMapIsTrue
  <2>1. \A f \in Fetch : ~fetch[f].last
    BY NoFetchIsState DEF Settled
  <2>2. ~Promised
    BY DEF Settled, Promised
  <2> QED BY <2>1, <2>2 DEF FeedInv, NothingForgotten, UpToDate, ShownIsTrue
<1> QED BY <1>1, FeedInductive, PTL

-----------------------------------------------------------------------------
SearchesAreFacts == \A e \in SearchEvent : e \in processed => e \in searchFact

(* What any member has read is projected. *)
ReadIsProjected == \A c \in Consumer : \A i \in 1..position[c] : IsProjected(log[i])

AnalyticsInv ==
  /\ AnalyticsTypeOK
  /\ RevenueCountedOnce
  /\ SearchesAreFacts
  /\ ReadIsProjected
  /\ CommittedIsProjected

-----------------------------------------------------------------------------
LEMMA AnalyticsInitIsSound == AnalyticsInit => AnalyticsInv
<1> SUFFICES ASSUME AnalyticsInit PROVE AnalyticsInv
  OBVIOUS
<1>1. PICK n \in Nat : log \in [1..n -> Event]
  BY LogLimitAssumption DEF AnalyticsInit
<1>2. log \in Seq(Event) /\ Len(log) = n
  BY <1>1
<1> DEFINE past == {log[i] : i \in 1..Len(log)}
<1>3. PICK first \in SUBSET (past \cap PaidEvent),
           second \in SUBSET (past \cap (PaidEvent \cup SearchEvent)) :
        /\ processed = first \cup second
        /\ revenueCount = [e \in PaidEvent |-> IF e \in first \cup second THEN 1 ELSE 0]
        /\ routeFact = [e \in PaidEvent |-> IF e \in second THEN "bare" ELSE "none"]
        /\ searchFact = second \cap SearchEvent
  BY DEF AnalyticsInit
<1>4. first \subseteq PaidEvent /\ second \subseteq PaidEvent \cup SearchEvent
  OBVIOUS
<1> HIDE DEF past
<1>5. paymentFact = {} /\ committed = 0 /\ assignee = NoConsumer
      /\ position = [c \in Consumer |-> 0]
  BY DEF AnalyticsInit
<1>6. AnalyticsTypeOK
  BY <1>1, <1>2, <1>3, <1>4, <1>5 DEF AnalyticsTypeOK, ValidEvent
<1>7. RevenueCountedOnce
  BY <1>3 DEF RevenueCountedOnce
<1>8. SearchesAreFacts
  BY <1>3, <1>4, EventAssumption DEF SearchesAreFacts
<1>9. ReadIsProjected /\ CommittedIsProjected
  BY <1>5 DEF ReadIsProjected, CommittedIsProjected
<1> QED BY <1>6, <1>7, <1>8, <1>9 DEF AnalyticsInv

-----------------------------------------------------------------------------
(* Projections are never taken back. *)
Grows ==
  /\ processed \subseteq processed'
  /\ \A e \in PaidEvent : routeFact[e] = "priced" => routeFact'[e] = "priced"
  /\ paymentFact \subseteq paymentFact'
  /\ searchFact \subseteq searchFact'

LEMMA ProjectedStays == ASSUME Grows, NEW e, IsProjected(e) PROVE IsProjected(e)'
BY DEF Grows, IsProjected

LEMMA UnchangedGrows == ASSUME UNCHANGED projections PROVE Grows
BY DEF Grows, projections

(* What may change when no projection does. *)
LEMMA ProjectionsKeep ==
  ASSUME AnalyticsInv, UNCHANGED projections
  PROVE  RevenueCountedOnce' /\ SearchesAreFacts'
BY DEF AnalyticsInv, projections, RevenueCountedOnce, SearchesAreFacts

LEMMA ProduceKeeps ==
  ASSUME AnalyticsInv, NEW e \in Event, Produce(e) PROVE AnalyticsInv'
<1>1. log' = Append(log, e) /\ UNCHANGED <<committed, assignee, position, projections>>
  BY DEF Produce
<1>2. log' \in Seq(Event) /\ Len(log') = Len(log) + 1 /\ Len(log) \in Nat
      /\ \A i \in 1..Len(log) : log'[i] = log[i]
  BY <1>1 DEF AnalyticsInv, AnalyticsTypeOK
<1>3. AnalyticsTypeOK'
  BY <1>1, <1>2 DEF AnalyticsInv, AnalyticsTypeOK, projections
<1>4. \A x : IsProjected(x) => IsProjected(x)'
  BY <1>1, UnchangedGrows, ProjectedStays
<1>5. ASSUME NEW c \in Consumer, NEW i \in 1..position'[c] PROVE IsProjected(log[i])'
  <2>1. i \in 1..position[c] /\ i \in 1..Len(log)
    BY <1>1, <1>2 DEF AnalyticsInv, AnalyticsTypeOK
  <2>2. IsProjected(log[i])
    BY <2>1 DEF AnalyticsInv, ReadIsProjected
  <2> QED BY <1>1, <1>2, <2>1, <2>2 DEF IsProjected, projections
<1>6. ASSUME NEW i \in 1..committed' PROVE IsProjected(log[i])'
  <2>1. i \in 1..committed /\ i \in 1..Len(log)
    BY <1>1, <1>2 DEF AnalyticsInv, AnalyticsTypeOK
  <2>2. IsProjected(log[i])
    BY <2>1 DEF AnalyticsInv, CommittedIsProjected
  <2> QED BY <1>1, <1>2, <2>1, <2>2 DEF IsProjected, projections
<1> QED
  BY <1>1, <1>3, <1>5, <1>6, ProjectionsKeep DEF AnalyticsInv, ReadIsProjected, CommittedIsProjected

LEMMA AssignKeeps ==
  ASSUME AnalyticsInv, NEW c \in Consumer, Assign(c) PROVE AnalyticsInv'
<1>1. position' = [position EXCEPT ![c] = committed] /\ assignee' = c
      /\ UNCHANGED <<log, committed, projections>>
  BY DEF Assign
<1>2. AnalyticsTypeOK'
  BY <1>1 DEF AnalyticsInv, AnalyticsTypeOK, projections
<1>3. ASSUME NEW d \in Consumer, NEW i \in 1..position'[d] PROVE IsProjected(log[i])
  BY <1>1 DEF AnalyticsInv, AnalyticsTypeOK, ReadIsProjected, CommittedIsProjected
<1>4. ReadIsProjected' /\ CommittedIsProjected'
  BY <1>1, <1>3 DEF AnalyticsInv, ReadIsProjected, CommittedIsProjected, IsProjected, projections
<1> QED BY <1>1, <1>2, <1>4, ProjectionsKeep DEF AnalyticsInv

LEMMA CommitOffsetKeeps ==
  ASSUME AnalyticsInv, NEW c \in Consumer, CommitOffset(c) PROVE AnalyticsInv'
<1>1. committed' = position[c] /\ UNCHANGED <<log, assignee, position, projections>>
  BY DEF CommitOffset
<1>2. AnalyticsTypeOK'
  BY <1>1 DEF AnalyticsInv, AnalyticsTypeOK, projections
<1>3. ReadIsProjected' /\ CommittedIsProjected'
  BY <1>1 DEF AnalyticsInv, ReadIsProjected, CommittedIsProjected, IsProjected, projections
<1> QED BY <1>1, <1>2, <1>3, ProjectionsKeep DEF AnalyticsInv

LEMMA LeaveKeeps ==
  ASSUME AnalyticsInv, NEW c \in Consumer, Leave(c) PROVE AnalyticsInv'
<1>1. assignee' = NoConsumer /\ UNCHANGED <<log, committed, position, projections>>
  BY DEF Leave
<1>2. AnalyticsTypeOK'
  BY <1>1 DEF AnalyticsInv, AnalyticsTypeOK, projections
<1>3. ReadIsProjected' /\ CommittedIsProjected'
  BY <1>1 DEF AnalyticsInv, ReadIsProjected, CommittedIsProjected, IsProjected, projections
<1> QED BY <1>1, <1>2, <1>3, ProjectionsKeep DEF AnalyticsInv

-----------------------------------------------------------------------------
(* What a transaction on one message does to the projections. *)
ProjectionsTypeOK ==
  /\ processed \subseteq ValidEvent
  /\ revenueCount \in [PaidEvent -> Nat]
  /\ routeFact \in [PaidEvent -> {"none", "bare", "priced"}]
  /\ paymentFact \subseteq PaymentEvent
  /\ searchFact \subseteq SearchEvent

Projects(e) ==
  /\ ProjectionsTypeOK'
  /\ Grows
  /\ RevenueCountedOnce' /\ SearchesAreFacts'
  /\ IsProjected(e)'

(* The revenue is added by the transaction that inserts the inbox row. *)
LEMMA BookingEventProjects ==
  ASSUME AnalyticsInv, NEW c \in Consumer, NEW e, e = CurrentEvent(c), applyBookingEvent(c) PROVE Projects(e)
<1>1. /\ e \in PaidEvent
      /\ processed' = processed \cup {e}
      /\ revenueCount' = [revenueCount EXCEPT ![e] = IF e \in processed THEN @ ELSE @ + 1]
      /\ routeFact' = [routeFact EXCEPT ![e] = "priced"]
      /\ UNCHANGED <<paymentFact, searchFact>>
  BY DEF applyBookingEvent
<1>2. e \notin PaymentEvent /\ e \notin SearchEvent
  BY <1>1, EventAssumption
<1>3. ProjectionsTypeOK
  BY DEF AnalyticsInv, AnalyticsTypeOK, ProjectionsTypeOK
<1>4. ProjectionsTypeOK' /\ Grows
  BY <1>1, <1>3 DEF ProjectionsTypeOK, Grows, ValidEvent
<1>5. RevenueCountedOnce'
  BY <1>1, <1>3 DEF AnalyticsInv, RevenueCountedOnce, ProjectionsTypeOK
<1>6. SearchesAreFacts'
  BY <1>1, <1>2 DEF AnalyticsInv, SearchesAreFacts
<1>7. IsProjected(e)'
  BY <1>1, <1>2, <1>3 DEF IsProjected, ProjectionsTypeOK
<1> QED BY <1>4, <1>5, <1>6, <1>7 DEF Projects

LEMMA PaymentEventProjects ==
  ASSUME AnalyticsInv, NEW c \in Consumer, NEW e, e = CurrentEvent(c), applyPaymentEvent(c) PROVE Projects(e)
<1>1. /\ e \in PaymentEvent
      /\ processed' = processed \cup {e}
      /\ paymentFact' = paymentFact \cup {e}
      /\ UNCHANGED <<revenueCount, routeFact, searchFact>>
  BY DEF applyPaymentEvent
<1>2. e \notin PaidEvent /\ e \notin SearchEvent
  BY <1>1, EventAssumption
<1>3. ProjectionsTypeOK' /\ Grows
  BY <1>1 DEF AnalyticsInv, AnalyticsTypeOK, ProjectionsTypeOK, Grows, ValidEvent
<1>4. RevenueCountedOnce' /\ SearchesAreFacts'
  BY <1>1, <1>2 DEF AnalyticsInv, RevenueCountedOnce, SearchesAreFacts
<1>5. IsProjected(e)'
  BY <1>1, <1>2 DEF IsProjected
<1> QED BY <1>3, <1>4, <1>5 DEF Projects

LEMMA SearchEventProjects ==
  ASSUME AnalyticsInv, NEW c \in Consumer, NEW e, e = CurrentEvent(c), applySearchEvent(c) PROVE Projects(e)
<1>1. /\ e \in SearchEvent
      /\ processed' = processed \cup {e}
      /\ searchFact' = IF e \in processed THEN searchFact ELSE searchFact \cup {e}
      /\ UNCHANGED <<revenueCount, routeFact, paymentFact>>
  BY DEF applySearchEvent
<1>2. e \notin PaidEvent /\ e \notin PaymentEvent
  BY <1>1, EventAssumption
<1>3. e \in searchFact'
  BY <1>1 DEF AnalyticsInv, SearchesAreFacts
<1>4. ProjectionsTypeOK' /\ Grows
  BY <1>1 DEF AnalyticsInv, AnalyticsTypeOK, ProjectionsTypeOK, Grows, ValidEvent
<1>5. RevenueCountedOnce' /\ SearchesAreFacts'
  BY <1>1, <1>2, <1>3 DEF AnalyticsInv, RevenueCountedOnce, SearchesAreFacts
<1>6. IsProjected(e)'
  BY <1>1, <1>2, <1>3 DEF IsProjected
<1> QED BY <1>4, <1>5, <1>6 DEF Projects

LEMMA InvalidProjects ==
  ASSUME AnalyticsInv, NEW c \in Consumer, NEW e, e = CurrentEvent(c), RejectInvalid(c) PROVE Projects(e)
<1>1. e \in InvalidEvent /\ UNCHANGED projections
  BY DEF RejectInvalid
<1>2. ProjectionsTypeOK'
  BY <1>1 DEF AnalyticsInv, AnalyticsTypeOK, ProjectionsTypeOK, projections
<1>3. e \notin ValidEvent
  BY <1>1, EventAssumption
<1>4. IsProjected(e)'
  BY <1>3 DEF IsProjected, ValidEvent
<1> QED BY <1>1, <1>2, <1>4, UnchangedGrows, ProjectionsKeep DEF Projects

LEMMA EachMessageKeeps ==
  ASSUME AnalyticsInv, NEW c \in Consumer, EachMessage(c) PROVE AnalyticsInv'
<1> DEFINE next == log[position[c] + 1]
<1>0. PICK e : e = next
  OBVIOUS
<1>1. /\ position[c] < Len(log)
      /\ position' = [position EXCEPT ![c] = @ + 1]
      /\ UNCHANGED <<log, committed, assignee>>
  BY DEF EachMessage, Read
<1>2. Projects(e)
  BY <1>0, BookingEventProjects, PaymentEventProjects, SearchEventProjects, InvalidProjects
     DEF EachMessage, CurrentEvent
<1>3. Len(log) \in Nat /\ position \in [Consumer -> 0..Len(log)] /\ committed \in 0..Len(log)
  BY DEF AnalyticsInv, AnalyticsTypeOK
<1>4. AnalyticsTypeOK'
  <2>1. position' \in [Consumer -> 0..Len(log)]
    BY <1>1, <1>3
  <2> QED BY <1>1, <1>2, <2>1 DEF Projects, ProjectionsTypeOK, AnalyticsInv, AnalyticsTypeOK
<1> HIDE DEF next
<1>5. ASSUME NEW x, IsProjected(x) PROVE IsProjected(x)'
  BY <1>2, <1>5, ProjectedStays DEF Projects
<1>6. ASSUME NEW d \in Consumer, NEW i \in 1..position'[d] PROVE IsProjected(log[i])'
  <2>1. CASE i \in 1..position[d]
    <3>1. IsProjected(log[i])
      BY <2>1 DEF AnalyticsInv, ReadIsProjected
    <3>2. Grows
      BY <1>2 DEF Projects
    <3> QED BY <3>1, <3>2, <1>1 DEF IsProjected, Grows
  <2>2. CASE i \notin 1..position[d]
    <3>1. d = c /\ i = position[c] + 1
      BY <2>2, <1>1, <1>3, <1>6
    <3>2. log'[i] = e
      BY <3>1, <1>0, <1>1 DEF next
    <3> QED BY <3>2, <1>2 DEF Projects, IsProjected
  <2> QED BY <2>1, <2>2
<1>7. ASSUME NEW i \in 1..committed' PROVE IsProjected(log[i])'
  <2>1. IsProjected(log[i])
    BY <1>1 DEF AnalyticsInv, CommittedIsProjected
  <2>2. Grows
    BY <1>2 DEF Projects
  <2> QED BY <2>1, <2>2, <1>1 DEF IsProjected, Grows
<1> QED
  BY <1>2, <1>4, <1>6, <1>7 DEF Projects, AnalyticsInv, ReadIsProjected, CommittedIsProjected

-----------------------------------------------------------------------------
LEMMA AnalyticsStepKeeps == AnalyticsInv /\ [AnalyticsNext]_analyticsVars => AnalyticsInv'
<1> SUFFICES ASSUME AnalyticsInv, [AnalyticsNext]_analyticsVars PROVE AnalyticsInv'
  OBVIOUS
<1>1. CASE UNCHANGED analyticsVars
  BY <1>1 DEF analyticsVars, projections, AnalyticsInv, AnalyticsTypeOK, RevenueCountedOnce,
     SearchesAreFacts, ReadIsProjected, CommittedIsProjected, IsProjected
<1> QED
  BY <1>1, ProduceKeeps, AssignKeeps, EachMessageKeeps, CommitOffsetKeeps, LeaveKeeps
     DEF AnalyticsNext

(* The strengthening holds in every reachable state. *)
THEOREM AnalyticsInductive == AnalyticsSpec => []AnalyticsInv
BY AnalyticsInitIsSound, AnalyticsStepKeeps, PTL DEF AnalyticsSpec

(* The log, the members and the projections are well typed. *)
THEOREM AnalyticsTypeCorrect == AnalyticsSpec => []AnalyticsTypeOK
<1>1. AnalyticsInv => AnalyticsTypeOK
  BY DEF AnalyticsInv
<1> QED BY <1>1, AnalyticsInductive, PTL

(* Whatever is duplicated, replayed or redelivered, each paid booking is in the
   revenue once if the inbox has it, and not otherwise. *)
THEOREM RevenueOnce == AnalyticsSpec => []RevenueCountedOnce
<1>1. AnalyticsInv => RevenueCountedOnce
  BY DEF AnalyticsInv
<1> QED BY <1>1, AnalyticsInductive, PTL

(* A message whose offset is committed is in every projection. *)
THEOREM CommittedProjected == AnalyticsSpec => []CommittedIsProjected
<1>1. AnalyticsInv => CommittedIsProjected
  BY DEF AnalyticsInv
<1> QED BY <1>1, AnalyticsInductive, PTL
=============================================================================
