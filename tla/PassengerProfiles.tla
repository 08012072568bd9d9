-------------------------- MODULE PassengerProfiles --------------------------
(***************************************************************************)
(* A customer's saved passengers in identity-service: the limit on their   *)
(* number is a count that a transaction reads before it inserts, so        *)
(* creations of one customer are put one after the other by an advisory    *)
(* lock.  The profiles of one customer are modelled.                       *)
(***************************************************************************)
EXTENDS Naturals, FiniteSets

CONSTANTS
  Creator,       \* requests that create a profile
  Profile,       \* profiles
  Label,         \* labels, in lower case
  ProfileLimit,  \* 20 in the code
  NoLabel        \* no such profile

ASSUME ProfilesAssumption ==
  IsFiniteSet(Profile) /\ ProfileLimit \in Nat /\ NoLabel \notin Label

VARIABLES
  label,    \* rows of identity.passenger_profiles: the label of each
  creating  \* what each creation does

profilesVars == <<label, creating>>

Profiles == {p \in Profile : label[p] # NoLabel}

ProfilesTypeOK ==
  /\ label \in [Profile -> Label \cup {NoLabel}]
  /\ creating \in [Creator -> {"idle", "count", "insert"}]

ProfilesInit ==
  /\ label = [p \in Profile |-> NoLabel]
  /\ creating = [c \in Creator |-> "idle"]

-----------------------------------------------------------------------------
(* Mutation: creations do not wait for each other. *)
AdvisoryLockIsIgnored == TRUE

(* pg_advisory_xact_lock: held to the end of the transaction. *)
AdvisoryLockIsFree == \A c \in Creator : creating[c] = "idle"

createPassengerProfile(c) ==
  /\ creating[c] = "idle"
  /\ AdvisoryLockIsFree
  /\ creating' = [creating EXCEPT ![c] = "count"]
  /\ UNCHANGED label

Count(c) ==
  /\ creating[c] = "count"
  /\ creating' = [creating EXCEPT
       ![c] = IF Cardinality(Profiles) >= ProfileLimit THEN "idle" ELSE "insert"]
  /\ UNCHANGED label

(* UNIQUE (user_id, lower(label)) *)
LabelIsFree(l, p) == \A q \in Profile \ {p} : label[q] # l

InsertProfile(c, p, l) ==
  /\ creating[c] = "insert"
  /\ label[p] = NoLabel /\ LabelIsFree(l, p)
  /\ label' = [label EXCEPT ![p] = l]
  /\ creating' = [creating EXCEPT ![c] = "idle"]

(* The label is taken, or the database fails. *)
InsertProfileFails(c) ==
  /\ creating[c] = "insert"
  /\ creating' = [creating EXCEPT ![c] = "idle"]
  /\ UNCHANGED label

updatePassengerProfile(p, l) ==
  /\ label[p] # NoLabel /\ LabelIsFree(l, p)
  /\ label' = [label EXCEPT ![p] = l]
  /\ UNCHANGED creating

deletePassengerProfile(p) ==
  /\ label[p] # NoLabel
  /\ label' = [label EXCEPT ![p] = NoLabel]
  /\ UNCHANGED creating

-----------------------------------------------------------------------------
ProfilesNext ==
  \/ \E c \in Creator :
       \/ createPassengerProfile(c)
       \/ Count(c)
       \/ \E p \in Profile, l \in Label : InsertProfile(c, p, l)
       \/ InsertProfileFails(c)
  \/ \E p \in Profile :
       \/ \E l \in Label : updatePassengerProfile(p, l)
       \/ deletePassengerProfile(p)

ProfilesSpec == ProfilesInit /\ [][ProfilesNext]_profilesVars

-----------------------------------------------------------------------------
(* However many creations count and insert at once, the customer never has
   more profiles than the limit. *)
ProfilesWithinLimit == Cardinality(Profiles) <= ProfileLimit
=============================================================================
