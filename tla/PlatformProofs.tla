--------------------------- MODULE PlatformProofs ---------------------------
(***************************************************************************)
(* Proofs about the parts side by side: each behaves as it does alone, so  *)
(* what is proved of a part holds of the specification that the run of     *)
(* MCPlatform checks.                                                      *)
(***************************************************************************)
EXTENDS MCPlatform, ReadSideProofs, IdentityProofs, CheckInProofs

LEMMA PartsStart ==
  Init => /\ part \in Part
          /\ CatalogInit /\ SessionsInit /\ ProfilesInit
          /\ AnalyticsInit /\ BoardingInit /\ FeedInit
BY DEF Init

(* A step of one part leaves the variables of the others alone. *)
LEMMA PartsStep ==
  [Next]_vars => /\ part' = part
                 /\ [CatalogNext]_catalogVars /\ [SessionsNext]_sessionsVars
                 /\ [ProfilesNext]_profilesVars /\ [AnalyticsNext]_analyticsVars
                 /\ [BoardingNext]_boardingVars /\ [FeedNext]_feedVars
<1> SUFFICES ASSUME [Next]_vars
             PROVE  /\ part' = part
                    /\ [CatalogNext]_catalogVars /\ [SessionsNext]_sessionsVars
                    /\ [ProfilesNext]_profilesVars /\ [AnalyticsNext]_analyticsVars
                    /\ [BoardingNext]_boardingVars /\ [FeedNext]_feedVars
  OBVIOUS
<1>1. CASE UNCHANGED vars
  BY <1>1 DEF vars
<1>2. CASE Next
  BY <1>2 DEF Next
<1> QED BY <1>1, <1>2

(* The services that share nothing do not disturb each other: in the platform,
   each of the search cache, the refresh sessions, the profiles, analytics,
   check-in and the seat feed behaves as its own specification allows. *)
THEOREM PartsBehaveAsAlone ==
  Spec => /\ CatalogSpec /\ SessionsSpec /\ ProfilesSpec
          /\ AnalyticsSpec /\ BoardingSpec /\ FeedSpec
BY PartsStart, PartsStep, PTL
   DEF Spec, CatalogSpec, SessionsSpec, ProfilesSpec, AnalyticsSpec, BoardingSpec, FeedSpec

(* Every variable of the platform keeps its type. *)
THEOREM PlatformTypeCorrect == Spec => []TypeOK
<1>1. part \in Part /\ part' = part => (part \in Part)'
  OBVIOUS
<1>2. Spec => [](part \in Part)
  BY <1>1, PartsStart, PartsStep, PTL DEF Spec
<1>3. /\ part \in Part /\ CatalogTypeOK /\ SessionsTypeOK /\ ProfilesTypeOK
      /\ AnalyticsTypeOK /\ BoardingTypeOK /\ FeedTypeOK
      => TypeOK
  BY DEF TypeOK
<1> QED
  BY <1>2, <1>3, PartsBehaveAsAlone, CatalogTypeCorrect, SessionsTypeCorrect, ProfilesLimited,
     AnalyticsTypeCorrect, BoardingTypeCorrect, FeedTypeCorrect, PTL

(* What is proved of each service's own specification - searches, sessions,
   profiles, reports, check-ins and the seat map - holds of the platform. *)
THEOREM PlatformIsSafe ==
  Spec => /\ []AcknowledgedChangesAreSeen
          /\ []OneLivePerFamily /\ []ReuseRevokesFamily /\ []LocksDoNotDeadlock
          /\ RevocationIsFinal /\ ImplementsFamilies
          /\ []ProfilesWithinLimit
          /\ []RevenueCountedOnce /\ []CommittedIsProjected
          /\ []CheckInsMatchBooking /\ []CheckInAnswersAreTrue /\ ImplementsBoarding
          /\ []SettledMapIsTrue
BY PartsBehaveAsAlone, AcknowledgedChangesSeen, OneSessionLives, ReuseRevokes,
   RefreshesDoNotDeadlock, RevocationStays, SessionsImplementFamilies, ProfilesLimited,
   RevenueOnce, CommittedProjected, CheckInsMatch, CheckInAnswersTrue,
   CheckInImplementsBoarding, SettledMapTrue, PTL
=============================================================================
