--------------------------- MODULE IdentityProofs ---------------------------
(***************************************************************************)
(* What identity-service promises of refresh sessions and of passenger     *)
(* profiles, for any number of requests, sessions and profiles.  For the   *)
(* sessions the argument rests on the row locks: a session is live until   *)
(* the request that locked it has rotated it, because each other writer of *)
(* revoked_at locks the row first.  For the profiles it rests on the       *)
(* advisory lock: what a creation has counted can only get less before it  *)
(* inserts.                                                                *)
(***************************************************************************)
EXTENDS RefreshSessions, PassengerProfiles, FiniteSetTheorems,
  WellFoundedInduction, TLAPS

CallerState == [pc : {"idle", "lock", "rotate", "reuse", "update", "reused"},
                session : Session \cup {NoSession},
                saw : SUBSET Session, todo : SUBSET Session,
                since : 0..MaxSession]

(* Families are named by their first session, and have one live session at most. *)
RowsInv ==
  /\ revoked \subseteq Issued
  /\ \A s \in Issued : family[s] \in Session /\ family[s] <= s
  /\ OneLivePerFamily

(* What a request may rely on where it stands. *)
Knows(c) ==
  LET r == caller[c] IN
  /\ r.pc # "idle" => r.session \in Issued
  /\ r.pc = "rotate" => r.session \notin revoked /\ owner[r.session] = c
  /\ r.pc = "update" =>
       /\ r.saw \subseteq Issued
       /\ \A t \in r.saw \ r.todo : owner[t] = c
       /\ \A t \in Live : family[t] = family[r.session] => t \in r.saw \/ t > r.since
  /\ r.pc = "reused" => \A t \in Live : family[t] = family[r.session] => t > r.since
  /\ r.pc \in {"update", "reused"} => r.since <= issued

CallersKnow == \A c \in Caller : Knows(c)

SessionsInv == SessionsTypeOK /\ RowsInv /\ CallersKnow

-----------------------------------------------------------------------------
LEMMA SessionNumbers ==
  ASSUME SessionsTypeOK
  PROVE  /\ issued \in Nat /\ MaxSession \in Nat /\ issued <= MaxSession
         /\ Issued \subseteq Session /\ Session \subseteq Nat
         /\ \A s \in Issued : s <= issued
BY SessionsLimitAssumption DEF SessionsTypeOK, Issued, Session

LEMMA CallerFields ==
  ASSUME SessionsTypeOK, NEW c \in Caller
  PROVE  /\ caller[c] \in CallerState
         /\ caller[c].session \in Session \cup {NoSession}
         /\ caller[c].saw \subseteq Session /\ caller[c].todo \subseteq Session
         /\ caller[c].since \in 0..MaxSession
<1>1. caller[c] \in CallerState
  BY DEF SessionsTypeOK, CallerState
<1> QED BY <1>1 DEF CallerState

LEMMA NoRequestIsState == NoRequest \in CallerState
BY SessionsLimitAssumption DEF NoRequest, CallerState

LEMMA SessionsInitIsSound == SessionsInit => SessionsInv
<1> SUFFICES ASSUME SessionsInit PROVE SessionsInv
  OBVIOUS
<1>1. Issued = {}
  BY DEF SessionsInit, Issued
<1>2. SessionsTypeOK
  BY NoRequestIsState, SessionsLimitAssumption DEF SessionsInit, SessionsTypeOK, CallerState
<1>3. RowsInv
  BY <1>1 DEF SessionsInit, RowsInv, OneLivePerFamily, Live
<1>4. ASSUME NEW c \in Caller PROVE Knows(c)
  <2>1. caller[c].pc = "idle"
    BY DEF SessionsInit, NoRequest
  <2> QED BY <2>1 DEF Knows
<1> QED BY <1>2, <1>3, <1>4 DEF SessionsInv, CallersKnow

-----------------------------------------------------------------------------
(* Sessions are only added, revocations are only added, and never to a row that
   the request has locked. *)
Undisturbed(c) ==
  /\ caller'[c] = caller[c]
  /\ \A t \in Session : owner[t] = c => owner'[t] = c /\ (t \in revoked' => t \in revoked)
  /\ issued' \in Nat /\ issued <= issued'
  /\ \A s \in Issued : family'[s] = family[s]
  /\ revoked \subseteq revoked'

LEMMA UndisturbedKnows ==
  ASSUME SessionsInv, NEW c \in Caller, Undisturbed(c) PROVE Knows(c)'
<1> DEFINE r == caller[c]
<1>1. issued \in Nat /\ Issued \subseteq Session /\ Session \subseteq Nat /\ Issued \subseteq Issued'
      /\ \A s \in Issued' \ Issued : s > issued
  BY SessionNumbers DEF SessionsInv, Undisturbed, Issued
<1>2. caller'[c] = r /\ r.since \in Nat
  BY CallerFields, SessionsLimitAssumption DEF SessionsInv, Undisturbed
<1>3. r.pc # "idle" => r.session \in Issued
  BY DEF SessionsInv, CallersKnow, Knows
<1>4. r.pc = "rotate" => r.session \notin revoked' /\ owner'[r.session] = c
  BY <1>1, <1>3 DEF SessionsInv, CallersKnow, Knows, Undisturbed
<1>5. r.pc \in {"update", "reused"} => r.since <= issued
  BY DEF SessionsInv, CallersKnow, Knows
<1>6. r.pc = "update" => r.saw \subseteq Issued /\ \A t \in r.saw \ r.todo : owner'[t] = c
  BY <1>1 DEF SessionsInv, CallersKnow, Knows, Undisturbed
<1>7. ASSUME r.pc \in {"update", "reused"}, NEW t \in Live', family'[t] = family'[r.session]
      PROVE  (t \in Live /\ family[t] = family[r.session]) \/ t > r.since
  <2>1. CASE t \in Issued
    BY <2>1, <1>3, <1>7 DEF Live, Undisturbed
  <2>2. CASE t \notin Issued
    <3>1. t > issued /\ t \in Nat
      BY <2>2, <1>1, <1>7 DEF Live, Issued, Undisturbed
    <3> QED BY <3>1, <1>1, <1>2, <1>5, <1>7
  <2> QED BY <2>1, <2>2
<1>8. r.pc = "update" => \A t \in Live' :
        family'[t] = family'[r.session] => t \in r.saw \/ t > r.since
  BY <1>7 DEF SessionsInv, CallersKnow, Knows
<1>9. r.pc = "reused" => \A t \in Live' : family'[t] = family'[r.session] => t > r.since
  BY <1>7 DEF SessionsInv, CallersKnow, Knows
<1>10. r.pc \in {"update", "reused"} => r.since <= issued'
  BY <1>1, <1>2, <1>5 DEF Undisturbed
<1> HIDE DEF r
<1> QED BY <1>1, <1>2, <1>3, <1>4, <1>6, <1>8, <1>9, <1>10 DEF Knows

(* A step that leaves the rows alone and moves one request, which takes locks
   that are free and gives up its own. *)
LEMMA RequestStep ==
  ASSUME SessionsInv, NEW c \in Caller, NEW r \in CallerState,
         caller' = [caller EXCEPT ![c] = r],
         owner' \in [Session -> Caller \cup {NoCaller}],
         \A t \in Session : owner[t] \notin {NoCaller, c} => owner'[t] = owner[t],
         UNCHANGED sessionRows,
         Knows(c)'
  PROVE  SessionsInv'
<1>1. UNCHANGED <<issued, family, revoked, rotatedTo, expired>>
  BY DEF sessionRows
<1>2. SessionsTypeOK'
  BY <1>1 DEF SessionsInv, SessionsTypeOK, CallerState
<1>3. RowsInv'
  BY <1>1 DEF SessionsInv, RowsInv, OneLivePerFamily, Live, Issued
<1>4. ASSUME NEW d \in Caller PROVE Knows(d)'
  <2>1. CASE d # c
    <3>1. Undisturbed(d)
      BY <2>1, <1>1, SessionNumbers, SessionsNullAssumption DEF Undisturbed, SessionsInv, SessionsTypeOK
    <3> QED BY <3>1, UndisturbedKnows
  <2> QED BY <2>1
<1> QED BY <1>2, <1>3, <1>4 DEF SessionsInv, CallersKnow

(* The request ends. *)
LEMMA ReleaseKeeps ==
  ASSUME SessionsInv, NEW c \in Caller, Release(c), UNCHANGED sessionRows PROVE SessionsInv'
<1>1. caller' = [caller EXCEPT ![c] = NoRequest] /\ NoRequest \in CallerState
  BY NoRequestIsState DEF Release
<1>2. owner' \in [Session -> Caller \cup {NoCaller}]
      /\ \A t \in Session : owner[t] \notin {NoCaller, c} => owner'[t] = owner[t]
  BY DEF Release, SessionsInv, SessionsTypeOK
<1>3. caller'[c].pc = "idle"
  BY <1>1 DEF SessionsInv, SessionsTypeOK, NoRequest
<1>4. Knows(c)'
  BY <1>3 DEF Knows
<1> QED BY <1>1, <1>2, <1>4, RequestStep

LEMMA RefreshKeeps ==
  ASSUME SessionsInv, NEW c \in Caller, NEW s \in Session, refresh(c, s) PROVE SessionsInv'
<1> DEFINE r == [NoRequest EXCEPT !.pc = "lock", !.session = s]
<1>1. r \in CallerState /\ r.pc = "lock" /\ r.session = s
  BY NoRequestIsState DEF CallerState, NoRequest
<1>2. s \in Issued /\ caller' = [caller EXCEPT ![c] = r] /\ UNCHANGED sessionRows /\ owner' = owner
  BY DEF refresh
<1> HIDE DEF r
<1>3. caller'[c] = r /\ Issued' = Issued
  BY <1>2 DEF SessionsInv, SessionsTypeOK, Issued, sessionRows
<1>4. Knows(c)'
  BY <1>1, <1>2, <1>3 DEF Knows
<1>5. owner' \in [Session -> Caller \cup {NoCaller}]
  BY <1>2 DEF SessionsInv, SessionsTypeOK
<1> QED BY <1>1, <1>2, <1>4, <1>5, RequestStep

(* Only a session that is live is rotated, and it is locked. *)
LEMMA LockSessionKeeps ==
  ASSUME SessionsInv, NEW c \in Caller, LockSession(c) PROVE SessionsInv'
<1> DEFINE s == caller[c].session
<1>1. PICK pc \in {"reuse", "rotate"} :
        /\ caller' = [caller EXCEPT ![c].pc = pc]
        /\ pc = "rotate" => s \notin revoked
  BY DEF LockSession
<1> DEFINE r == [caller[c] EXCEPT !.pc = pc]
<1>2. r \in CallerState /\ r.pc = pc /\ r.session = s
  BY CallerFields DEF SessionsInv, CallerState
<1>3. s \in Issued /\ s \in Session
  BY SessionNumbers DEF LockSession, SessionsInv, CallersKnow, Knows
<1>4. owner' = [owner EXCEPT ![s] = c] /\ owner[s] = NoCaller /\ UNCHANGED sessionRows
  BY DEF LockSession, RowIsFree
<1>5. caller' = [caller EXCEPT ![c] = r]
  BY <1>1 DEF SessionsInv, SessionsTypeOK
<1> HIDE DEF r, s
<1>6. caller'[c] = r /\ Issued' = Issued /\ revoked' = revoked /\ owner'[s] = c
  BY <1>3, <1>4, <1>5 DEF SessionsInv, SessionsTypeOK, Issued, sessionRows
<1>7. Knows(c)'
  <2>1. r.pc # "update" /\ r.pc # "reused"
    BY <1>2
  <2>2. r.pc = "rotate" => s \notin revoked
    BY <1>1, <1>2
  <2> QED BY <1>2, <1>3, <1>6, <2>1, <2>2 DEF Knows
<1>8. owner' \in [Session -> Caller \cup {NoCaller}]
      /\ \A t \in Session : owner[t] \notin {NoCaller, c} => owner'[t] = owner[t]
  BY <1>3, <1>4 DEF SessionsInv, SessionsTypeOK
<1> QED BY <1>2, <1>4, <1>5, <1>7, <1>8, RequestStep

(* The update of a reuse begins with all that is live of the family. *)
LEMMA BeginUpdateKeeps ==
  ASSUME SessionsInv, NEW c \in Caller, BeginUpdate(c) PROVE SessionsInv'
<1> DEFINE s == caller[c].session
           seen == Reused(s)
           r == [caller[c] EXCEPT !.pc = "update", !.saw = seen, !.todo = seen, !.since = issued]
<1>1. seen \subseteq Issued /\ seen \subseteq Session /\ issued \in 0..MaxSession
  BY SessionNumbers DEF Reused, Live, SessionsInv, SessionsTypeOK
<1>2. s \in Issued
  BY DEF BeginUpdate, SessionsInv, CallersKnow, Knows
<1>3. caller' = [caller EXCEPT ![c] = r]
  BY DEF BeginUpdate, SessionsInv, SessionsTypeOK
<1>4. UNCHANGED <<sessionRows, owner>>
  BY DEF BeginUpdate
<1>5. \A t \in Live : family[t] = family[s] => t \in seen
  BY DEF Reused
<1> HIDE DEF seen, s
<1>6. r \in CallerState /\ r.pc = "update" /\ r.session = caller[c].session /\ r.saw = seen
      /\ r.todo = seen /\ r.since = issued
  BY <1>1, CallerFields DEF SessionsInv, CallerState
<1>7. r.session = s
  BY <1>6 DEF s
<1> HIDE DEF r
<1>8. caller'[c] = r /\ UNCHANGED <<issued, family, revoked>> /\ Issued' = Issued /\ Live' = Live
  BY <1>3, <1>4 DEF SessionsInv, SessionsTypeOK, sessionRows, Issued, Live
<1>9. Knows(c)'
  <2>1. issued <= issued'
    BY <1>8, SessionNumbers DEF SessionsInv
  <2> QED BY <1>1, <1>2, <1>5, <1>6, <1>7, <1>8, <2>1 DEF Knows
<1>10. owner' \in [Session -> Caller \cup {NoCaller}]
  BY <1>4 DEF SessionsInv, SessionsTypeOK
<1> QED BY <1>3, <1>4, <1>6, <1>9, <1>10, RequestStep

LEMMA VisitRowKeeps ==
  ASSUME SessionsInv, NEW c \in Caller, NEW t \in Session, VisitRow(c, t) PROVE SessionsInv'
<1> DEFINE r == [caller[c] EXCEPT !.todo = @ \ {t}]
<1>1. r \in CallerState /\ r.pc = "update" /\ r.session = caller[c].session
      /\ r.saw = caller[c].saw /\ r.todo = caller[c].todo \ {t} /\ r.since = caller[c].since
  BY CallerFields DEF SessionsInv, CallerState, VisitRow
<1>2. caller' = [caller EXCEPT ![c] = r] /\ owner' = [owner EXCEPT ![t] = c]
      /\ UNCHANGED sessionRows
  BY DEF VisitRow, SessionsInv, SessionsTypeOK
<1>3. owner' \in [Session -> Caller \cup {NoCaller}]
      /\ \A u \in Session : owner[u] \notin {NoCaller, c} => owner'[u] = owner[u]
  BY <1>2 DEF VisitRow, SessionsInv, SessionsTypeOK
<1> HIDE DEF r
<1>4. caller'[c] = r /\ UNCHANGED <<issued, family, revoked>> /\ Issued' = Issued /\ Live' = Live
  BY <1>2 DEF SessionsInv, SessionsTypeOK, sessionRows, Issued, Live
<1>5. \A u \in r.saw \ r.todo : owner'[u] = c
  BY <1>1, <1>2, CallerFields DEF VisitRow, SessionsInv, SessionsTypeOK, CallersKnow, Knows
<1>6. Knows(c)'
  BY <1>1, <1>4, <1>5 DEF Knows, VisitRow, SessionsInv, CallersKnow
<1> QED BY <1>1, <1>2, <1>3, <1>6, RequestStep

-----------------------------------------------------------------------------
(* Every row that the update revokes is locked by it. *)
LEMMA CommitUpdateKeeps ==
  ASSUME SessionsInv, NEW c \in Caller, CommitUpdate(c) PROVE SessionsInv'
<1> DEFINE r == [caller[c] EXCEPT !.pc = "reused"]
<1>1. r \in CallerState /\ r.pc = "reused" /\ r.session = caller[c].session
      /\ r.since = caller[c].since
  BY CallerFields DEF SessionsInv, CallerState
<1>2. caller' = [caller EXCEPT ![c] = r] /\ caller'[c] = r
  BY DEF CommitUpdate, SessionsInv, SessionsTypeOK
<1>3. UNCHANGED <<issued, family, rotatedTo, expired>> /\ revoked' = revoked \cup caller[c].saw
      /\ owner' = [s \in Session |-> IF owner[s] = c THEN NoCaller ELSE owner[s]]
  BY DEF CommitUpdate
<1>4. /\ caller[c].session \in Issued
      /\ caller[c].saw \subseteq Issued
      /\ \A t \in caller[c].saw : owner[t] = c
      /\ \A t \in Live : family[t] = family[caller[c].session] =>
           t \in caller[c].saw \/ t > caller[c].since
      /\ caller[c].since <= issued
  BY DEF CommitUpdate, SessionsInv, CallersKnow, Knows
<1> HIDE DEF r
<1>5. SessionsTypeOK'
  BY <1>1, <1>2, <1>3, CallerFields DEF SessionsInv, SessionsTypeOK, CallerState
<1>6. RowsInv'
  BY <1>3, <1>4 DEF SessionsInv, RowsInv, OneLivePerFamily, Live, Issued
<1>7. Knows(c)'
  BY <1>1, <1>2, <1>3, <1>4 DEF Knows, Live, Issued
<1>8. ASSUME NEW d \in Caller, d # c PROVE Undisturbed(d)
  <2>1. issued' \in Nat /\ issued <= issued'
    BY <1>3, SessionNumbers DEF SessionsInv
  <2>2. \A t \in Session : owner[t] = d => owner'[t] = d
    BY <1>3, <1>8
  <2>3. \A t \in Session : owner[t] = d => (t \in revoked' => t \in revoked)
    BY <1>3, <1>4, <1>8
  <2>4. caller'[d] = caller[d]
    BY <1>2, <1>8 DEF SessionsInv, SessionsTypeOK
  <2> QED BY <1>3, <2>1, <2>2, <2>3, <2>4 DEF Undisturbed
<1> QED BY <1>5, <1>6, <1>7, <1>8, UndisturbedKnows DEF SessionsInv, CallersKnow

(* A new session joins a family without live ones. *)
LEMMA InsertKeepsRows ==
  ASSUME SessionsInv, NEW f, InsertSession(f), f \in Session, f <= issued + 1,
         revoked \subseteq revoked', revoked' \subseteq Issued,
         \A s \in Issued \ revoked' : family[s] # f
  PROVE  /\ RowsInv'
         /\ issued' \in Nat /\ issued <= issued' /\ issued' \in 0..MaxSession
         /\ family' \in [Session -> Session \cup {NoSession}]
         /\ \A s \in Issued : family'[s] = family[s]
<1>1. issued \in Nat /\ issued' = issued + 1 /\ issued + 1 \in Session /\ Issued \subseteq Session
      /\ family' = [family EXCEPT ![issued + 1] = f] /\ issued' \in 0..MaxSession
  BY SessionsLimitAssumption DEF InsertSession, SessionsInv, SessionsTypeOK, Session, Issued
<1>2. issued + 1 \notin Issued /\ Issued' = Issued \cup {issued + 1}
  BY <1>1 DEF Issued
<1>3. \A s \in Issued : family'[s] = family[s]
  BY <1>1, <1>2 DEF SessionsInv, SessionsTypeOK
<1>4. family'[issued + 1] = f
  BY <1>1 DEF SessionsInv, SessionsTypeOK
<1>5. family' \in [Session -> Session \cup {NoSession}]
  BY <1>1 DEF SessionsInv, SessionsTypeOK
<1>6. \A s \in Issued' : family'[s] \in Session /\ family'[s] <= s
  BY <1>1, <1>2, <1>3, <1>4 DEF SessionsInv, RowsInv
<1>7. Live' = (Issued \ revoked') \cup {issued + 1}
  BY <1>2 DEF Live
<1>8. OneLivePerFamily'
  <2> SUFFICES ASSUME NEW s \in Live', NEW t \in Live', family'[s] = family'[t] PROVE s = t
    BY DEF OneLivePerFamily
  <2>1. CASE s \in Issued /\ t \in Issued
    <3>1. s \in Live /\ t \in Live
      BY <2>1, <1>2, <1>7 DEF Live
    <3> QED BY <3>1, <2>1, <1>3 DEF SessionsInv, RowsInv, OneLivePerFamily
  <2>2. CASE s \notin Issued \/ t \notin Issued
    BY <2>2, <1>2, <1>3, <1>4, <1>7
  <2> QED BY <2>1, <2>2
<1>9. revoked' \subseteq Issued'
  BY <1>2
<1>10. RowsInv'
  BY <1>6, <1>8, <1>9 DEF RowsInv
<1>11. issued <= issued' /\ issued' \in Nat
  BY <1>1
<1> QED BY <1>1, <1>3, <1>5, <1>10, <1>11

(* The session that is rotated is live, hence the only live one of its family,
   and is no longer live. *)
LEMMA RotateKeeps ==
  ASSUME SessionsInv, NEW c \in Caller, Rotate(c) PROVE SessionsInv'
<1> DEFINE s == caller[c].session
<1>1. s \in Issued /\ s \notin revoked /\ owner[s] = c /\ s \in Session
  BY SessionNumbers DEF Rotate, SessionsInv, CallersKnow, Knows
<1>2. InsertSession(family[s]) /\ revoked' = revoked \cup {s} /\ expired' = expired
      /\ rotatedTo' = [rotatedTo EXCEPT ![s] = issued + 1] /\ Release(c)
  BY DEF Rotate
<1> HIDE DEF s
<1>3. issued \in Nat /\ issued + 1 \in Session /\ s \in Nat /\ s <= issued
  BY <1>1, <1>2, SessionsLimitAssumption DEF InsertSession, SessionsInv, SessionsTypeOK, Session, Issued
<1>4. family[s] \in Session /\ family[s] <= s
  BY <1>1 DEF SessionsInv, RowsInv
<1>5. family[s] \in Nat
  BY <1>4, SessionNumbers DEF SessionsInv
<1>6. family[s] <= issued + 1
  BY <1>3, <1>4, <1>5
<1>7. revoked \subseteq revoked' /\ revoked' \subseteq Issued
  BY <1>1, <1>2 DEF SessionsInv, RowsInv
<1>8. \A t \in Issued \ revoked' : family[t] # family[s]
  BY <1>1, <1>2 DEF SessionsInv, RowsInv, OneLivePerFamily, Live
<1>9. /\ RowsInv'
      /\ issued' \in Nat /\ issued <= issued' /\ issued' \in 0..MaxSession
      /\ family' \in [Session -> Session \cup {NoSession}]
      /\ \A t \in Issued : family'[t] = family[t]
  BY <1>2, <1>4, <1>5, <1>6, <1>7, <1>8, InsertKeepsRows
<1>10. owner' = [t \in Session |-> IF owner[t] = c THEN NoCaller ELSE owner[t]]
       /\ caller' = [caller EXCEPT ![c] = NoRequest]
  BY <1>2 DEF Release
<1>11. SessionsTypeOK'
  <2>1. revoked' \subseteq Session /\ rotatedTo' \in [Session -> Session \cup {NoSession}]
        /\ expired' \subseteq Session
    BY <1>1, <1>2, <1>3 DEF SessionsInv, SessionsTypeOK
  <2>2. owner' \in [Session -> Caller \cup {NoCaller}] /\ caller' \in [Caller -> CallerState]
    BY <1>10, NoRequestIsState DEF SessionsInv, SessionsTypeOK, CallerState
  <2> QED BY <1>9, <2>1, <2>2 DEF SessionsTypeOK, CallerState
<1>12. Knows(c)'
  <2>1. caller'[c].pc = "idle"
    BY <1>10 DEF SessionsInv, SessionsTypeOK, NoRequest
  <2> QED BY <2>1 DEF Knows
<1>13. ASSUME NEW d \in Caller, d # c PROVE Undisturbed(d)
  <2>1. \A t \in Session : owner[t] = d => owner'[t] = d /\ (t \in revoked' => t \in revoked)
    BY <1>1, <1>2, <1>10, <1>13
  <2>2. caller'[d] = caller[d]
    BY <1>10, <1>13 DEF SessionsInv, SessionsTypeOK
  <2> QED BY <1>7, <1>9, <2>1, <2>2 DEF Undisturbed
<1> QED BY <1>9, <1>11, <1>12, <1>13, UndisturbedKnows DEF SessionsInv, CallersKnow

(* A login's family is new: no session is named after one not issued yet. *)
LEMMA LoginKeeps == ASSUME SessionsInv, login PROVE SessionsInv'
<1>1. InsertSession(issued + 1) /\ UNCHANGED <<revoked, rotatedTo, expired, owner, caller>>
  BY DEF login
<1>2. issued \in Nat /\ issued + 1 \in Session
  BY <1>1, SessionsLimitAssumption DEF InsertSession, SessionsInv, SessionsTypeOK, Session
<1>3. \A s \in Issued \ revoked' : family[s] # issued + 1
  BY <1>2 DEF SessionsInv, RowsInv, Issued
<1>4. revoked \subseteq revoked' /\ revoked' \subseteq Issued
  BY <1>1 DEF SessionsInv, RowsInv
<1>5. issued + 1 \in Session /\ issued + 1 <= issued + 1
  BY <1>2
<1>6. /\ RowsInv'
      /\ issued' \in Nat /\ issued <= issued' /\ issued' \in 0..MaxSession
      /\ family' \in [Session -> Session \cup {NoSession}]
      /\ \A t \in Issued : family'[t] = family[t]
  BY <1>1, <1>2, <1>3, <1>4, <1>5, InsertKeepsRows
<1>7. SessionsTypeOK'
  BY <1>1, <1>6 DEF SessionsInv, SessionsTypeOK
<1>8. ASSUME NEW d \in Caller PROVE Undisturbed(d)
  BY <1>1, <1>6 DEF Undisturbed
<1> QED BY <1>6, <1>7, <1>8, UndisturbedKnows DEF SessionsInv, CallersKnow

LEMMA LogoutKeeps == ASSUME SessionsInv, NEW s \in Session, logout(s) PROVE SessionsInv'
<1>1. UNCHANGED <<issued, family, rotatedTo, expired, owner, caller>>
      /\ revoked' = revoked \cup {s} /\ owner[s] = NoCaller /\ s \in Issued
  BY DEF logout, RowIsFree, Live
<1>2. SessionsTypeOK'
  BY <1>1 DEF SessionsInv, SessionsTypeOK
<1>3. RowsInv'
  BY <1>1 DEF SessionsInv, RowsInv, OneLivePerFamily, Live, Issued
<1>4. ASSUME NEW d \in Caller PROVE Undisturbed(d)
  BY <1>1, SessionNumbers, SessionsNullAssumption DEF Undisturbed, SessionsInv
<1> QED BY <1>2, <1>3, <1>4, UndisturbedKnows DEF SessionsInv, CallersKnow

LEMMA ExpireSessionKeeps == ASSUME SessionsInv, NEW s \in Session, ExpireSession(s) PROVE SessionsInv'
<1>1. UNCHANGED <<issued, family, revoked, rotatedTo, owner, caller>>
      /\ expired' = expired \cup {s}
  BY DEF ExpireSession
<1>2. SessionsTypeOK'
  BY <1>1 DEF SessionsInv, SessionsTypeOK
<1>3. RowsInv'
  BY <1>1 DEF SessionsInv, RowsInv, OneLivePerFamily, Live, Issued
<1>4. ASSUME NEW d \in Caller PROVE Undisturbed(d)
  BY <1>1, SessionNumbers DEF Undisturbed, SessionsInv
<1> QED BY <1>2, <1>3, <1>4, UndisturbedKnows DEF SessionsInv, CallersKnow

-----------------------------------------------------------------------------
LEMMA SessionsStepKeeps == SessionsInv /\ [SessionsNext]_sessionsVars => SessionsInv'
<1> SUFFICES ASSUME SessionsInv, [SessionsNext]_sessionsVars PROVE SessionsInv'
  OBVIOUS
<1>1. ASSUME NEW c \in Caller, RunRequest(c) PROVE SessionsInv'
  <2>1. CASE Refuse(c) \/ AnswerReuse(c) \/ AbortRequest(c)
    BY <2>1, ReleaseKeeps DEF Refuse, AnswerReuse, AbortRequest
  <2> QED BY <1>1, <2>1, LockSessionKeeps, RotateKeeps, BeginUpdateKeeps, VisitRowKeeps,
             CommitUpdateKeeps DEF RunRequest
<1>2. CASE UNCHANGED sessionsVars
  BY <1>2 DEF sessionsVars, sessionRows, SessionsInv, SessionsTypeOK, RowsInv, OneLivePerFamily,
     CallersKnow, Knows, Live, Issued
<1> QED
  BY <1>1, <1>2, LoginKeeps, RefreshKeeps, LogoutKeeps, ExpireSessionKeeps DEF SessionsNext

-----------------------------------------------------------------------------
(* Why the row locks do not deadlock: the live session of a family is its
   newest, so that an update waits for one row, and for a newer one than any it
   has locked. *)
LiveIsNewest == \A s \in Live, t \in Issued : family[t] = family[s] => t <= s

Holds(c) == {u \in Session : owner[u] = c}

(* What a request may have locked where it stands, and what it may wait for. *)
Locks(c) ==
  LET r == caller[c] IN
  /\ Holds(c) # {} => r.pc \in {"rotate", "reuse", "update"}
  /\ r.pc \in {"rotate", "reuse"} => Holds(c) \subseteq {r.session}
  /\ r.pc = "reuse" => r.session \in revoked
  /\ r.pc = "update" =>
       /\ r.todo \subseteq r.saw
       /\ \A t, u \in r.saw : t = u
       /\ \A t \in r.saw : r.session < t /\ family[t] = family[r.session]
       /\ Holds(c) \subseteq {r.session} \cup (r.saw \ r.todo)

LocksInv == LiveIsNewest /\ \A c \in Caller : Locks(c)

LEMMA LocksInit == SessionsInit => LocksInv
<1> SUFFICES ASSUME SessionsInit PROVE LocksInv
  OBVIOUS
<1>1. Live = {}
  BY DEF SessionsInit, Live, Issued
<1>2. ASSUME NEW c \in Caller PROVE caller[c].pc = "idle" /\ Holds(c) = {}
  BY SessionsNullAssumption DEF SessionsInit, NoRequest, Holds
<1> QED BY <1>1, <1>2 DEF LocksInv, LiveIsNewest, Locks

(* A request that does nothing in a step, and gets no lock, keeps its place. *)
Rests(d) ==
  /\ caller'[d] = caller[d]
  /\ Holds(d)' \subseteq Holds(d)
  /\ revoked \subseteq revoked'
  /\ \A s \in Issued : family'[s] = family[s]

LEMMA RestingKeepsLocks ==
  ASSUME SessionsInv, LocksInv, NEW d \in Caller, Rests(d) PROVE Locks(d)'
<1> DEFINE r == caller[d]
<1>1. Locks(d) /\ caller'[d] = r
  BY DEF LocksInv, Rests
<1>2. r.pc = "update" => r.session \in Issued /\ r.saw \subseteq Issued
  BY DEF SessionsInv, CallersKnow, Knows
<1>3. r.pc = "update" => \A t \in r.saw :
        r.session < t /\ family'[t] = family'[r.session]
  BY <1>1, <1>2 DEF Locks, Rests
<1>4. r.pc = "update" =>
        /\ r.todo \subseteq r.saw
        /\ \A t, u \in r.saw : t = u
        /\ Holds(d)' \subseteq {r.session} \cup (r.saw \ r.todo)
  BY <1>1 DEF Locks, Rests
<1>5. /\ Holds(d)' # {} => r.pc \in {"rotate", "reuse", "update"}
      /\ r.pc \in {"rotate", "reuse"} => Holds(d)' \subseteq {r.session}
      /\ r.pc = "reuse" => r.session \in revoked'
  BY <1>1 DEF Locks, Rests
<1> HIDE DEF r
<1> QED BY <1>1, <1>3, <1>4, <1>5 DEF Locks

(* A step of one request takes and gives up locks of its own. *)
LEMMA OthersRest ==
  ASSUME SessionsInv, NEW c \in Caller, RunRequest(c), NEW d \in Caller, d # c
  PROVE  Rests(d)
<1>1. caller'[d] = caller[d]
  BY DEF RunRequest, LockSession, Refuse, Rotate, BeginUpdate, VisitRow, CommitUpdate, AnswerReuse,
     AbortRequest, Release, SessionsInv, SessionsTypeOK
<1>2. ASSUME NEW u \in Session, owner'[u] = d PROVE owner[u] = d
  <2>1. CASE LockSession(c) \/ \E t \in Session : VisitRow(c, t)
    BY <2>1, <1>2 DEF LockSession, VisitRow, SessionsInv, SessionsTypeOK
  <2>2. CASE BeginUpdate(c)
    BY <2>2, <1>2 DEF BeginUpdate
  <2>3. CASE Refuse(c) \/ Rotate(c) \/ CommitUpdate(c) \/ AnswerReuse(c) \/ AbortRequest(c)
    BY <2>3, <1>2, SessionsNullAssumption
       DEF Refuse, Rotate, CommitUpdate, AnswerReuse, AbortRequest, Release
  <2> QED BY <2>1, <2>2, <2>3 DEF RunRequest
<1>3. revoked \subseteq revoked'
  BY DEF RunRequest, LockSession, Refuse, Rotate, BeginUpdate, VisitRow, CommitUpdate, AnswerReuse,
     AbortRequest, sessionRows
<1>4. \A s \in Issued : family'[s] = family[s]
  <2>1. CASE Rotate(c)
    BY <2>1, SessionNumbers DEF Rotate, InsertSession, SessionsInv, SessionsTypeOK, Issued
  <2> QED
    BY <2>1 DEF RunRequest, LockSession, Refuse, BeginUpdate, VisitRow, CommitUpdate, AnswerReuse,
       AbortRequest, sessionRows
<1> QED BY <1>1, <1>2, <1>3, <1>4 DEF Rests, Holds

(* The request's own step. *)
LEMMA RequestKeepsLocks ==
  ASSUME SessionsInv, LocksInv, NEW c \in Caller, RunRequest(c) PROVE Locks(c)'
<1>1. Locks(c) /\ caller[c] \in CallerState /\ caller[c].session \in Session \cup {NoSession}
  BY CallerFields DEF LocksInv, SessionsInv
<1>2. CASE LockSession(c)
  <2> DEFINE s == caller[c].session
  <2>1. PICK pc \in {"reuse", "rotate"} :
          /\ caller' = [caller EXCEPT ![c].pc = pc]
          /\ pc = "reuse" => s \in revoked
    BY <1>2 DEF LockSession
  <2>2. caller'[c].pc = pc /\ caller'[c].session = s
    BY <1>1, <2>1 DEF SessionsInv, SessionsTypeOK, CallerState
  <2>3. Holds(c) = {} /\ revoked' = revoked /\ owner' = [owner EXCEPT ![s] = c]
    BY <1>1, <1>2 DEF LockSession, Locks, sessionRows
  <2> HIDE DEF s
  <2>4. Holds(c)' \subseteq {s}
    BY <2>3 DEF Holds, SessionsInv, SessionsTypeOK
  <2> QED BY <2>1, <2>2, <2>3, <2>4 DEF Locks
<1>3. CASE BeginUpdate(c)
  <2> DEFINE s == caller[c].session
             seen == Reused(s)
  <2>1. /\ caller'[c].pc = "update" /\ caller'[c].session = s
        /\ caller'[c].saw = seen /\ caller'[c].todo = seen
        /\ UNCHANGED <<owner, family>>
    BY <1>1, <1>3 DEF BeginUpdate, SessionsInv, SessionsTypeOK, CallerState, sessionRows
  <2>2. s \in Issued /\ s \in revoked /\ Holds(c) \subseteq {s}
    BY <1>1, <1>3 DEF BeginUpdate, Locks, SessionsInv, CallersKnow, Knows
  <2>3. \A t \in seen : t \in Live /\ family[t] = family[s]
    BY DEF Reused
  <2>4. \A t, u \in seen : t = u
    BY <2>3 DEF SessionsInv, RowsInv, OneLivePerFamily
  <2>5. \A t \in seen : s < t
    BY <2>2, <2>3, SessionNumbers DEF LocksInv, LiveIsNewest, Live, SessionsInv
  <2>6. Holds(c)' \subseteq {s}
    BY <2>1, <2>2 DEF Holds
  <2> HIDE DEF s, seen
  <2> QED BY <2>1, <2>3, <2>4, <2>5, <2>6 DEF Locks
<1>4. ASSUME NEW t \in Session, VisitRow(c, t) PROVE Locks(c)'
  <2> DEFINE r == caller[c]
  <2>1. /\ caller'[c].pc = "update" /\ caller'[c].session = r.session
        /\ caller'[c].saw = r.saw /\ caller'[c].todo = r.todo \ {t}
        /\ r.pc = "update" /\ t \in r.todo
        /\ owner' = [owner EXCEPT ![t] = c] /\ family' = family
    BY <1>1, <1>4 DEF VisitRow, SessionsInv, SessionsTypeOK, CallerState, sessionRows
  <2>2. /\ r.todo \subseteq r.saw
        /\ \A v, u \in r.saw : v = u
        /\ \A u \in r.saw : r.session < u /\ family[u] = family[r.session]
        /\ Holds(c) \subseteq {r.session} \cup (r.saw \ r.todo)
    BY <1>1, <2>1 DEF Locks
  <2> HIDE DEF r
  <2>3. Holds(c)' \subseteq Holds(c) \cup {t}
    BY <2>1 DEF Holds, SessionsInv, SessionsTypeOK
  <2> QED BY <2>1, <2>2, <2>3 DEF Locks
<1>5. CASE Refuse(c) \/ Rotate(c) \/ CommitUpdate(c) \/ AnswerReuse(c) \/ AbortRequest(c)
  <2>1. Holds(c)' = {}
    BY <1>5, SessionsNullAssumption
       DEF Refuse, Rotate, CommitUpdate, AnswerReuse, AbortRequest, Release, Holds
  <2>2. caller'[c].pc \in {"idle", "reused"}
    BY <1>1, <1>5 DEF Refuse, Rotate, CommitUpdate, AnswerReuse, AbortRequest, Release, NoRequest,
       SessionsInv, SessionsTypeOK, CallerState
  <2> QED BY <2>1, <2>2 DEF Locks
<1> QED BY <1>2, <1>3, <1>4, <1>5 DEF RunRequest

(* A new session is newer than all of its family, and the only live one. *)
LEMMA InsertKeepsNewest ==
  ASSUME SessionsInv, LocksInv, NEW f, InsertSession(f), revoked \subseteq revoked',
         \A s \in Issued \ revoked' : family[s] # f
  PROVE  LiveIsNewest'
<1>1. /\ issued \in Nat /\ issued' = issued + 1 /\ family' = [family EXCEPT ![issued + 1] = f]
      /\ issued + 1 \in Session
  BY SessionsLimitAssumption DEF InsertSession, SessionsInv, SessionsTypeOK, Session
<1>2. /\ issued + 1 \notin Issued /\ Issued' = Issued \cup {issued + 1}
      /\ \A s \in Issued : s \in Nat /\ s <= issued
  BY <1>1 DEF Issued
<1>3. /\ \A s \in Issued : family'[s] = family[s]
      /\ family'[issued + 1] = f
  BY <1>1, <1>2 DEF SessionsInv, SessionsTypeOK
<1> SUFFICES ASSUME NEW s \in Live', NEW t \in Issued', family'[t] = family'[s] PROVE t <= s
  BY DEF LiveIsNewest
<1>4. CASE s = issued + 1
  BY <1>4, <1>1, <1>2
<1>5. CASE s \in Issued /\ t \in Issued
  <2>1. s \in Live
    BY <1>5 DEF Live
  <2> QED BY <2>1, <1>3, <1>5 DEF LocksInv, LiveIsNewest
<1>6. CASE s \in Issued /\ t = issued + 1
  BY <1>6, <1>3 DEF Live
<1> QED BY <1>2, <1>4, <1>5, <1>6 DEF Live

LEMMA NewestStays ==
  ASSUME SessionsInv, LocksInv, SessionsNext PROVE LiveIsNewest'
<1>1. CASE login
  <2>1. InsertSession(issued + 1) /\ revoked' = revoked
    BY <1>1 DEF login
  <2>2. \A s \in Issued : family[s] # issued + 1
    BY SessionNumbers DEF SessionsInv, RowsInv
  <2> QED BY <2>1, <2>2, InsertKeepsNewest
<1>2. ASSUME NEW c \in Caller, Rotate(c) PROVE LiveIsNewest'
  <2> DEFINE s == caller[c].session
  <2>1. s \in Live /\ InsertSession(family[s]) /\ revoked' = revoked \cup {s}
    BY <1>2 DEF Rotate, SessionsInv, CallersKnow, Knows, Live
  <2>2. \A t \in Issued \ revoked' : family[t] # family[s]
    BY <2>1 DEF SessionsInv, RowsInv, OneLivePerFamily, Live
  <2> QED BY <2>1, <2>2, InsertKeepsNewest
<1>3. CASE UNCHANGED <<issued, family>> /\ revoked \subseteq revoked'
  BY <1>3 DEF LocksInv, LiveIsNewest, Live, Issued
<1> QED
  BY <1>1, <1>2, <1>3 DEF SessionsNext, refresh, RunRequest, LockSession, Refuse, BeginUpdate,
     VisitRow, CommitUpdate, AnswerReuse, AbortRequest, logout, ExpireSession, sessionRows

LEMMA LocksStep ==
  SessionsInv /\ LocksInv /\ [SessionsNext]_sessionsVars => LocksInv'
<1> SUFFICES ASSUME SessionsInv, LocksInv, [SessionsNext]_sessionsVars PROVE LocksInv'
  OBVIOUS
<1>1. CASE UNCHANGED sessionsVars
  <2>1. UNCHANGED <<issued, family, revoked, owner, caller>>
    BY <1>1 DEF sessionsVars, sessionRows
  <2> QED BY <2>1 DEF LocksInv, LiveIsNewest, Locks, Holds, Live, Issued
<1>2. ASSUME NEW c \in Caller, RunRequest(c) PROVE \A d \in Caller : Locks(d)'
  BY <1>2, OthersRest, RestingKeepsLocks, RequestKeepsLocks
<1>3. ASSUME NEW c \in Caller, NEW s \in Session, refresh(c, s) PROVE \A d \in Caller : Locks(d)'
  <2>1. caller'[c].pc = "lock" /\ \A d \in Caller \ {c} : caller'[d] = caller[d]
    BY <1>3 DEF refresh, SessionsInv, SessionsTypeOK, NoRequest
  <2>2. Holds(c) = {} /\ UNCHANGED <<revoked, family, owner>>
    BY <1>3 DEF refresh, NoRequest, LocksInv, Locks, sessionRows
  <2>3. \A d \in Caller : Holds(d)' = Holds(d)
    BY <2>2 DEF Holds
  <2>4. Locks(c)'
    BY <2>1, <2>2, <2>3 DEF Locks
  <2>5. \A d \in Caller \ {c} : Rests(d)
    BY <2>1, <2>2, <2>3 DEF Rests
  <2> QED BY <2>4, <2>5, RestingKeepsLocks
<1>4. ASSUME login \/ \E s \in Session : logout(s) \/ ExpireSession(s)
      PROVE  \A d \in Caller : Locks(d)'
  <2>1. \A d \in Caller : caller'[d] = caller[d] /\ Holds(d)' = Holds(d)
    BY <1>4 DEF login, logout, ExpireSession, Holds
  <2>2. revoked \subseteq revoked'
    BY <1>4 DEF login, logout, ExpireSession
  <2>3. \A s \in Issued : family'[s] = family[s]
    BY <1>4, SessionNumbers DEF login, logout, ExpireSession, InsertSession, SessionsInv,
       SessionsTypeOK, Issued
  <2>4. \A d \in Caller : Rests(d)
    BY <2>1, <2>2, <2>3 DEF Rests
  <2> QED BY <2>4, RestingKeepsLocks
<1> QED BY <1>1, <1>2, <1>3, <1>4, NewestStays DEF LocksInv, SessionsNext

(* A set of sessions that is not empty has a newest one. *)
LEMMA NewestExists ==
  ASSUME NEW T \in SUBSET Session, T # {}
  PROVE  \E t \in T : \A u \in T : u <= t
<1> DEFINE Less == {p \in Nat \X Nat : p[1] < p[2]}
           U == {MaxSession - t : t \in T}
<1>1. IsWellFoundedOn(Less, Nat)
  BY NatLessThanWellFounded DEF OpToRel
<1>2. \A t \in T : t \in Nat /\ MaxSession - t \in Nat /\ MaxSession \in Nat
  BY SessionsLimitAssumption DEF Session
<1>3. U \subseteq Nat /\ U # {}
  BY <1>2
<1> HIDE DEF Less, U
<1>4. PICK x \in U : \A y \in U : ~(<<y, x>> \in Less)
  BY <1>1, <1>3, WFMin
<1>5. PICK t \in T : x = MaxSession - t
  BY <1>4 DEF U
<1>6. ASSUME NEW u \in T PROVE u <= t
  <2>1. MaxSession - u \in U
    BY DEF U
  <2>2. ~(MaxSession - u < MaxSession - t)
    BY <2>1, <1>2, <1>4, <1>5 DEF Less
  <2> QED BY <2>2, <1>2
<1> QED BY <1>6

(* Of the rows that are waited for, the newest is held by a request that does
   not wait: it would wait for a newer one. *)
LEMMA LocksAreFreed == SessionsInv /\ LocksInv => LocksDoNotDeadlock
<1> SUFFICES ASSUME SessionsInv, LocksInv, NEW b \in Caller, caller[b].pc # "idle",
                    \A c \in Caller : ~DoesNotWait(c)
             PROVE  FALSE
  BY DEF LocksDoNotDeadlock
<1> DEFINE Wants(c, t) ==
      \/ caller[c].pc = "lock" /\ t = caller[c].session
      \/ caller[c].pc = "update" /\ t \in caller[c].todo
    W == {t \in Session : owner[t] \in Caller /\ \E c \in Caller : c # owner[t] /\ Wants(c, t)}
<1>1. ASSUME NEW c \in Caller, caller[c].pc # "idle"
      PROVE  \E t \in Session : owner[t] \in Caller \ {c} /\ Wants(c, t)
  <2>1. caller[c].pc \in {"lock", "update"}
    BY <1>1 DEF DoesNotWait
  <2>2. CASE caller[c].pc = "lock"
    <3>1. caller[c].session \in Session /\ owner[caller[c].session] # NoCaller
      BY <2>2, SessionNumbers DEF DoesNotWait, RowIsFree, SessionsInv, CallersKnow, Knows
    <3>2. owner[caller[c].session] # c
      BY <2>2, <3>1 DEF LocksInv, Locks, Holds
    <3> QED BY <2>2, <3>1, <3>2 DEF SessionsInv, SessionsTypeOK
  <2>3. CASE caller[c].pc = "update"
    <3>1. PICK t \in caller[c].todo : owner[t] \notin {NoCaller, c}
      BY <2>3 DEF DoesNotWait
    <3>2. t \in Session
      BY CallerFields DEF SessionsInv
    <3> QED BY <2>3, <3>1, <3>2 DEF SessionsInv, SessionsTypeOK
  <2> QED BY <2>1, <2>2, <2>3
<1>2. W # {} /\ W \subseteq Session
  BY <1>1
<1> HIDE DEF W, Wants
<1>3. PICK t \in W : \A u \in W : u <= t
  BY <1>2, NewestExists
<1>4. PICK d \in Caller : owner[t] = d
  BY <1>3 DEF W
<1>5. t \in Holds(d) /\ t \in Nat
  BY <1>2, <1>3, <1>4, SessionNumbers DEF Holds, SessionsInv
<1>6. caller[d].pc \in {"rotate", "reuse", "update"} /\ caller[d].pc # "idle"
  BY <1>5 DEF LocksInv, Locks
<1>7. PICK u \in Session : owner[u] \in Caller \ {d} /\ Wants(d, u)
  BY <1>1, <1>6
<1>8. caller[d].pc = "update" /\ u \in caller[d].todo
  BY <1>6, <1>7 DEF Wants
<1>9. u <= t
  BY <1>3, <1>7 DEF W
<1>10. /\ u \in caller[d].saw
       /\ caller[d].session < u
       /\ t = caller[d].session \/ t \in caller[d].saw \ caller[d].todo
       /\ \A v, w \in caller[d].saw : v = w
  BY <1>5, <1>8 DEF LocksInv, Locks
<1>11. t # caller[d].session
  BY <1>5, <1>7, <1>9, <1>10, SessionNumbers DEF SessionsInv
<1> QED BY <1>8, <1>10, <1>11

(* The strengthening holds in every reachable state. *)
THEOREM SessionsInductive == SessionsSpec => []SessionsInv
BY SessionsInitIsSound, SessionsStepKeeps, PTL DEF SessionsSpec

(* Sessions, locks and requests are well typed. *)
THEOREM SessionsTypeCorrect == SessionsSpec => []SessionsTypeOK
<1>1. SessionsInv => SessionsTypeOK
  BY DEF SessionsInv
<1> QED BY <1>1, SessionsInductive, PTL

(* However many requests present, rotate, reuse and revoke the tokens of a
   login at once, one session of its family is live at most. *)
THEOREM OneSessionLives == SessionsSpec => []OneLivePerFamily
<1>1. SessionsInv => OneLivePerFamily
  BY DEF SessionsInv, RowsInv
<1> QED BY <1>1, SessionsInductive, PTL

(* An answered reuse has left nothing live of what the family had. *)
THEOREM ReuseRevokes == SessionsSpec => []ReuseRevokesFamily
<1>1. SessionsInv => ReuseRevokesFamily
  BY DEF SessionsInv, CallersKnow, Knows, ReuseRevokesFamily
<1> QED BY <1>1, SessionsInductive, PTL

(* Revoked sessions stay revoked, and get no successor, or no other. *)
THEOREM RevocationStays == SessionsSpec => RevocationIsFinal
<1> DEFINE Final == \A s \in revoked : s \in revoked' /\ rotatedTo'[s] = rotatedTo[s]
<1>1. SessionsInv /\ [SessionsNext]_sessionsVars => [Final]_sessionsVars
  <2> SUFFICES ASSUME SessionsInv, SessionsNext PROVE Final
    OBVIOUS
  <2>1. ASSUME NEW c \in Caller, RunRequest(c) PROVE Final
    <3>1. CASE Rotate(c)
      <4>1. caller[c].session \notin revoked
        BY <3>1 DEF Rotate, SessionsInv, CallersKnow, Knows
      <4> QED BY <4>1, <3>1 DEF Rotate, SessionsInv, SessionsTypeOK
    <3>2. CASE CommitUpdate(c)
      BY <3>2 DEF CommitUpdate
    <3> QED
      BY <2>1, <3>1, <3>2 DEF RunRequest, LockSession, Refuse, BeginUpdate, VisitRow, AnswerReuse,
         AbortRequest, sessionRows
  <2> QED BY <2>1 DEF SessionsNext, login, refresh, logout, ExpireSession, sessionRows
<1> QED BY <1>1, SessionsInductive, PTL DEF SessionsSpec, RevocationIsFinal

(* A request waits for a newer row than any it has locked, always. *)
THEOREM LocksInductive == SessionsSpec => []LocksInv
BY LocksInit, LocksStep, SessionsInductive, PTL DEF SessionsSpec

(* However many refreshes rotate, reuse and revoke at once, their row locks do
   not deadlock. *)
THEOREM RefreshesDoNotDeadlock == SessionsSpec => []LocksDoNotDeadlock
BY LocksAreFreed, SessionsInductive, LocksInductive, PTL

-----------------------------------------------------------------------------
(* The refinement: what each step does to the tokens of SessionFamilies. *)
LEMMA FamiliesInit == SessionsInit => Families!Init
<1> SUFFICES ASSUME SessionsInit PROVE Families!Init
  OBVIOUS
<1>1. Issued = {} /\ Live = {}
  BY DEF SessionsInit, Issued, Live
<1> QED BY <1>1 DEF SessionsInit, Families!Init

LEMMA FamiliesUnchanged ==
  ASSUME UNCHANGED sessionRows PROVE UNCHANGED Families!familiesVars
BY DEF sessionRows, Families!familiesVars, Issued, Live

(* InsertSession issues a token that was not there. *)
LEMMA InsertIssues ==
  ASSUME SessionsInv, NEW f, InsertSession(f)
  PROVE  /\ Families!Issue(issued + 1, f)
         /\ issued + 1 \in Session \ Issued
         /\ Issued' = Issued \cup {issued + 1}
         /\ issued + 1 \notin revoked
<1>1. issued \in Nat /\ issued' = issued + 1 /\ issued + 1 \in Session
  BY SessionsLimitAssumption DEF InsertSession, SessionsInv, SessionsTypeOK, Session
<1>2. issued + 1 \notin Issued /\ Issued' = Issued \cup {issued + 1}
  BY <1>1 DEF Issued
<1> QED BY <1>1, <1>2 DEF Families!Issue, InsertSession, SessionsInv, RowsInv

(* The update of a reuse revokes one live token, or none. *)
LEMMA CommitUpdateEnds ==
  ASSUME SessionsInv, LocksInv, NEW c \in Caller, CommitUpdate(c)
  PROVE  UNCHANGED Families!familiesVars \/ \E s \in Session : Families!End(s)
<1>1. /\ revoked' = revoked \cup caller[c].saw
      /\ UNCHANGED <<issued, family, rotatedTo>> /\ Issued' = Issued
  BY DEF CommitUpdate, Issued
<1>2. \A t, u \in caller[c].saw : t = u
  BY DEF CommitUpdate, LocksInv, Locks
<1>3. CASE caller[c].saw \cap Live = {}
  BY <1>1, <1>3 DEF Live, Families!familiesVars
<1>4. ASSUME NEW s \in caller[c].saw \cap Live PROVE Families!End(s) /\ s \in Session
  <2>1. caller[c].saw = {s}
    BY <1>2, <1>4
  <2>2. Live' = Live \ {s}
    BY <1>1, <2>1 DEF Live
  <2> QED BY <1>1, <1>4, <2>2, SessionNumbers DEF Families!End, Live, SessionsInv
<1> QED BY <1>3, <1>4

LEMMA FamiliesStep ==
  SessionsInv /\ LocksInv /\ [SessionsNext]_sessionsVars
    => [Families!Next]_(Families!familiesVars)
<1> SUFFICES ASSUME SessionsInv, LocksInv, [SessionsNext]_sessionsVars
             PROVE  Families!Next \/ UNCHANGED Families!familiesVars
  OBVIOUS
<1>1. CASE login
  <2>1. InsertSession(issued + 1) /\ UNCHANGED <<revoked, rotatedTo>>
    BY <1>1 DEF login
  <2>2. Live' = Live \cup {issued + 1}
    BY <2>1, InsertIssues DEF Live
  <2>3. Families!Login(issued + 1)
    BY <2>1, <2>2, InsertIssues DEF Families!Login
  <2> QED BY <2>1, <2>3, InsertIssues DEF Families!Next
<1>2. ASSUME NEW c \in Caller, Rotate(c) PROVE Families!Next
  <2> DEFINE s == caller[c].session
  <2>1. s \in Live /\ s \in Session
    BY <1>2, SessionNumbers DEF Rotate, SessionsInv, CallersKnow, Knows, Live
  <2>2. /\ InsertSession(family[s]) /\ revoked' = revoked \cup {s}
        /\ rotatedTo' = [rotatedTo EXCEPT ![s] = issued + 1]
    BY <1>2 DEF Rotate
  <2> HIDE DEF s
  <2>3. Live' = (Live \ {s}) \cup {issued + 1}
    BY <2>1, <2>2, InsertIssues DEF Live
  <2>4. Families!Exchange(s, issued + 1)
    BY <2>1, <2>2, <2>3, InsertIssues DEF Families!Exchange
  <2> QED BY <2>1, <2>2, <2>4, InsertIssues DEF Families!Next
<1>3. ASSUME NEW c \in Caller, CommitUpdate(c)
      PROVE  Families!Next \/ UNCHANGED Families!familiesVars
  BY <1>3, CommitUpdateEnds DEF Families!Next
<1>4. ASSUME NEW s \in Session, logout(s) PROVE Families!Next
  <2>1. s \in Live /\ Live' = Live \ {s} /\ UNCHANGED <<Issued, family, rotatedTo>>
    BY <1>4 DEF logout, Live, Issued
  <2> QED BY <2>1 DEF Families!Next, Families!End
<1>5. ASSUME NEW s \in Session, ExpireSession(s) PROVE UNCHANGED Families!familiesVars
  BY <1>5 DEF ExpireSession, Families!familiesVars, Issued, Live
<1>6. CASE UNCHANGED sessionsVars
  BY <1>6, FamiliesUnchanged DEF sessionsVars
<1>7. ASSUME NEW c \in Caller,
             \/ \E s \in Session : refresh(c, s) \/ VisitRow(c, s)
             \/ LockSession(c) \/ Refuse(c) \/ BeginUpdate(c) \/ AnswerReuse(c) \/ AbortRequest(c)
      PROVE  UNCHANGED Families!familiesVars
  BY <1>7, FamiliesUnchanged
     DEF refresh, VisitRow, LockSession, Refuse, BeginUpdate, AnswerReuse, AbortRequest
<1> QED
  BY <1>1, <1>2, <1>3, <1>4, <1>5, <1>6, <1>7 DEF SessionsNext, RunRequest

(* identity-service's sessions, with requests that interleave, die and wait for
   rows, implement the tokens of SessionFamilies. *)
THEOREM SessionsImplementFamilies == SessionsSpec => ImplementsFamilies
BY FamiliesInit, FamiliesStep, SessionsInductive, LocksInductive, PTL
   DEF SessionsSpec, ImplementsFamilies, Families!Spec

-----------------------------------------------------------------------------
(* One creation at most is under way, and it has counted what is there. *)
ProfilesInv ==
  /\ ProfilesTypeOK
  /\ ProfilesWithinLimit
  /\ \A c, d \in Creator : creating[c] # "idle" /\ creating[d] # "idle" => c = d
  /\ \A c \in Creator : creating[c] = "insert" => Cardinality(Profiles) < ProfileLimit

LEMMA ProfilesAreFinite ==
  /\ IsFiniteSet(Profiles) /\ Cardinality(Profiles) \in Nat
  /\ \A p \in Profile \ Profiles : Cardinality(Profiles \cup {p}) = Cardinality(Profiles) + 1
  /\ \A p \in Profiles : Cardinality(Profiles \ {p}) = Cardinality(Profiles) - 1
<1>1. IsFiniteSet(Profiles)
  BY ProfilesAssumption, FS_Subset DEF Profiles
<1> QED BY <1>1, FS_CardinalityType, FS_AddElement, FS_RemoveElement

LEMMA ProfilesInitIsSound == ProfilesInit => ProfilesInv
<1> SUFFICES ASSUME ProfilesInit PROVE ProfilesInv
  OBVIOUS
<1>1. Profiles = {}
  BY DEF ProfilesInit, Profiles
<1>2. Cardinality(Profiles) = 0
  BY <1>1, FS_EmptySet
<1> QED
  BY <1>2, ProfilesAssumption DEF ProfilesInit, ProfilesInv, ProfilesTypeOK, ProfilesWithinLimit

LEMMA CreationKeeps ==
  ASSUME ProfilesInv, NEW c \in Creator,
         createPassengerProfile(c) \/ Count(c) \/ InsertProfileFails(c)
  PROVE  ProfilesInv'
<1>1. Profiles' = Profiles
  BY DEF Profiles, createPassengerProfile, Count, InsertProfileFails
<1>2. PICK pc \in {"idle", "count", "insert"} :
        /\ creating' = [creating EXCEPT ![c] = pc]
        /\ pc = "insert" => Cardinality(Profiles) < ProfileLimit
        /\ creating[c] = "idle" => \A d \in Creator : creating[d] = "idle"
  BY ProfilesAreFinite, ProfilesAssumption
     DEF createPassengerProfile, Count, InsertProfileFails, AdvisoryLockIsFree
<1>3. ProfilesTypeOK'
  BY <1>2 DEF ProfilesInv, ProfilesTypeOK, createPassengerProfile, Count, InsertProfileFails
<1>4. \A d \in Creator : creating'[d] = IF d = c THEN pc ELSE creating[d]
  BY <1>2 DEF ProfilesInv, ProfilesTypeOK
<1> QED BY <1>1, <1>2, <1>3, <1>4 DEF ProfilesInv, ProfilesWithinLimit

LEMMA InsertProfileKeeps ==
  ASSUME ProfilesInv, NEW c \in Creator, NEW p \in Profile, NEW l \in Label,
         InsertProfile(c, p, l)
  PROVE  ProfilesInv'
<1>1. Profiles' = Profiles \cup {p} /\ p \in Profile \ Profiles
  BY ProfilesAssumption DEF Profiles, InsertProfile, ProfilesInv, ProfilesTypeOK
<1>2. Cardinality(Profiles') = Cardinality(Profiles) + 1
  BY <1>1, ProfilesAreFinite
<1>3. Cardinality(Profiles) < ProfileLimit
  BY DEF InsertProfile, ProfilesInv
<1>4. ProfilesWithinLimit'
  BY <1>2, <1>3, ProfilesAreFinite, ProfilesAssumption DEF ProfilesWithinLimit
<1>5. \A d \in Creator : creating'[d] = "idle"
  BY DEF InsertProfile, ProfilesInv, ProfilesTypeOK
<1>6. ProfilesTypeOK'
  BY DEF InsertProfile, ProfilesInv, ProfilesTypeOK
<1> QED BY <1>4, <1>5, <1>6 DEF ProfilesInv

LEMMA UpdateProfileKeeps ==
  ASSUME ProfilesInv, NEW p \in Profile, NEW l \in Label, updatePassengerProfile(p, l)
  PROVE  ProfilesInv'
<1>1. Profiles' = Profiles
  BY ProfilesAssumption DEF Profiles, updatePassengerProfile, ProfilesInv, ProfilesTypeOK
<1>2. ProfilesTypeOK' /\ creating' = creating
  BY DEF updatePassengerProfile, ProfilesInv, ProfilesTypeOK
<1> QED BY <1>1, <1>2 DEF ProfilesInv, ProfilesWithinLimit

LEMMA DeleteProfileKeeps ==
  ASSUME ProfilesInv, NEW p \in Profile, deletePassengerProfile(p) PROVE ProfilesInv'
<1>1. Profiles' = Profiles \ {p} /\ p \in Profiles
  BY DEF Profiles, deletePassengerProfile, ProfilesInv, ProfilesTypeOK
<1>2. ProfilesTypeOK' /\ creating' = creating
  BY DEF deletePassengerProfile, ProfilesInv, ProfilesTypeOK
<1>3. Cardinality(Profiles') = Cardinality(Profiles) - 1
  BY <1>1, ProfilesAreFinite
<1> QED
  BY <1>2, <1>3, ProfilesAreFinite, ProfilesAssumption DEF ProfilesInv, ProfilesWithinLimit

(* The strengthening, with the count that a creation has made, holds throughout. *)
THEOREM ProfilesInductive == ProfilesSpec => []ProfilesInv
<1>1. ProfilesInv /\ [ProfilesNext]_profilesVars => ProfilesInv'
  <2> SUFFICES ASSUME ProfilesInv, [ProfilesNext]_profilesVars PROVE ProfilesInv'
    OBVIOUS
  <2>1. CASE UNCHANGED profilesVars
    BY <2>1 DEF profilesVars, ProfilesInv, ProfilesTypeOK, ProfilesWithinLimit, Profiles
  <2> QED
    BY <2>1, CreationKeeps, InsertProfileKeeps, UpdateProfileKeeps, DeleteProfileKeeps
       DEF ProfilesNext
<1> QED BY <1>1, ProfilesInitIsSound, PTL DEF ProfilesSpec

(* A customer never has more profiles than the limit, however many creations
   race; and the rows are well typed. *)
THEOREM ProfilesLimited == ProfilesSpec => [](ProfilesTypeOK /\ ProfilesWithinLimit)
<1>1. ProfilesInv => ProfilesTypeOK /\ ProfilesWithinLimit
  BY DEF ProfilesInv
<1> QED BY <1>1, ProfilesInductive, PTL
=============================================================================
