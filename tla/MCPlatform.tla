----------------------------- MODULE MCPlatform -----------------------------
(***************************************************************************)
(* The parts of the platform that keep their state to themselves.  They    *)
(* share no variable, so one run checks them side by side: Init chooses    *)
(* the part that runs, the others stay as they start.                      *)
(***************************************************************************)
EXTENDS SearchCache, RefreshSessions, PassengerProfiles, AnalyticsInbox, CheckIn, SeatFeed

VARIABLE part

Part == {"catalog", "sessions", "profiles", "analytics", "boarding", "feed"}

vars == <<part, catalogVars, sessionsVars, profilesVars, analyticsVars, boardingVars, feedVars>>

TypeOK ==
  /\ part \in Part
  /\ CatalogTypeOK
  /\ SessionsTypeOK
  /\ ProfilesTypeOK
  /\ AnalyticsTypeOK
  /\ BoardingTypeOK
  /\ FeedTypeOK

(* Where a part may start in several states, it starts in one when it does not run. *)
Init ==
  /\ part \in Part
  /\ CatalogInit /\ (part = "catalog" \/ status = "SCHEDULED")
  /\ SessionsInit
  /\ ProfilesInit
  /\ AnalyticsInit /\ (part = "analytics" \/ log = <<>>)
  /\ BoardingInit
  /\ FeedInit /\ (part = "feed" \/ (durable = "FREE" /\ lease = "none" /\ shown = "AVAILABLE"))

Next ==
  \/ /\ part = "catalog" /\ CatalogNext
     /\ UNCHANGED <<part, sessionsVars, profilesVars, analyticsVars, boardingVars, feedVars>>
  \/ /\ part = "sessions" /\ SessionsNext
     /\ UNCHANGED <<part, catalogVars, profilesVars, analyticsVars, boardingVars, feedVars>>
  \/ /\ part = "profiles" /\ ProfilesNext
     /\ UNCHANGED <<part, catalogVars, sessionsVars, analyticsVars, boardingVars, feedVars>>
  \/ /\ part = "analytics" /\ AnalyticsNext
     /\ UNCHANGED <<part, catalogVars, sessionsVars, profilesVars, boardingVars, feedVars>>
  \/ /\ part = "boarding" /\ BoardingNext
     /\ UNCHANGED <<part, catalogVars, sessionsVars, profilesVars, analyticsVars, feedVars>>
  \/ /\ part = "feed" /\ FeedNext
     /\ UNCHANGED <<part, catalogVars, sessionsVars, profilesVars, analyticsVars, boardingVars>>

Spec == Init /\ [][Next]_vars /\ CatalogFairness /\ SessionsFairness /\ AnalyticsFairness
=============================================================================
