--------------------------- MODULE RefreshSessions ---------------------------
(***************************************************************************)
(* identity-service's refresh sessions.  A refresh token is good for one   *)
(* rotation: it is exchanged for its successor in the same family, and a   *)
(* token that is presented again after that revokes what is live of the    *)
(* family.  The transactions are READ COMMITTED; they meet on row locks,   *)
(* and an UPDATE that has waited for a row looks at it once more.          *)
(***************************************************************************)
EXTENDS Naturals

CONSTANTS
  Caller,      \* requests in flight
  MaxSession,  \* bound: sessions issued
  NoCaller, NoSession

ASSUME SessionsLimitAssumption == MaxSession \in Nat \ {0}

Session == 1..MaxSession

ASSUME SessionsNullAssumption == NoCaller \notin Caller /\ NoSession \notin Session

VARIABLES
  issued,     \* number of rows of identity.refresh_sessions
  family,     \* family_id, named by the session that the login created
  revoked,    \* sessions with revoked_at
  rotatedTo,  \* rotated_to_session_id
  expired,    \* sessions whose expires_at has passed
  owner,      \* the transaction that holds each row's lock
  caller      \* what each request does, the session of its token, the rows its
              \* update saw live and those it has still to visit, and (history)
              \* the sessions issued when the update began

sessionRows == <<issued, family, revoked, rotatedTo, expired>>
sessionsVars == <<sessionRows, owner, caller>>

Issued == 1..issued
Live == Issued \ revoked

NoRequest == [pc |-> "idle", session |-> NoSession, saw |-> {}, todo |-> {}, since |-> 0]

SessionsTypeOK ==
  /\ issued \in 0..MaxSession
  /\ family \in [Session -> Session \cup {NoSession}]
  /\ revoked \subseteq Session
  /\ rotatedTo \in [Session -> Session \cup {NoSession}]
  /\ expired \subseteq Session
  /\ owner \in [Session -> Caller \cup {NoCaller}]
  /\ caller \in [Caller -> [pc : {"idle", "lock", "rotate", "reuse", "update", "reused"},
                            session : Session \cup {NoSession},
                            saw : SUBSET Session, todo : SUBSET Session,
                            since : 0..MaxSession]]

SessionsInit ==
  /\ issued = 0
  /\ family = [s \in Session |-> NoSession]
  /\ revoked = {}
  /\ rotatedTo = [s \in Session |-> NoSession]
  /\ expired = {}
  /\ owner = [s \in Session |-> NoCaller]
  /\ caller = [c \in Caller |-> NoRequest]

-----------------------------------------------------------------------------
(* The end of c's transaction. *)
Release(c) ==
  /\ owner' = [s \in Session |-> IF owner[s] = c THEN NoCaller ELSE owner[s]]
  /\ caller' = [caller EXCEPT ![c] = NoRequest]

(* createRefreshSession inserts the next session. *)
InsertSession(f) ==
  /\ issued < MaxSession
  /\ issued' = issued + 1
  /\ family' = [family EXCEPT ![issued + 1] = f]

login ==
  /\ InsertSession(issued + 1)
  /\ UNCHANGED <<revoked, rotatedTo, expired, owner, caller>>

(* A request presents the token of a session, its newest or an older one. *)
refresh(c, s) ==
  /\ caller[c] = NoRequest
  /\ s \in Issued
  /\ caller' = [caller EXCEPT ![c] = [NoRequest EXCEPT !.pc = "lock", !.session = s]]
  /\ UNCHANGED <<sessionRows, owner>>

(* Mutation: the session is read without FOR UPDATE. *)
RowIsFreeAlways(s) == s \in Session

RowIsFree(s) == owner[s] = NoCaller

(* Mutation: a session that was logged out is rotated. *)
LockSessionRevoked(c) ==
  LET s == caller[c].session IN
  /\ caller[c].pc = "lock"
  /\ RowIsFree(s)
  /\ s \notin expired
  /\ caller' = [caller EXCEPT ![c].pc = IF rotatedTo[s] # NoSession THEN "reuse" ELSE "rotate"]
  /\ owner' = [owner EXCEPT ![s] = c]
  /\ UNCHANGED sessionRows

(* selectRefreshSession, FOR UPDATE: a token that has been rotated is reused,
   one that is live is rotated. *)
LockSession(c) ==
  LET s == caller[c].session IN
  /\ caller[c].pc = "lock"
  /\ RowIsFree(s)
  /\ \/ /\ s \in revoked /\ rotatedTo[s] # NoSession
        /\ caller' = [caller EXCEPT ![c].pc = "reuse"]
     \/ /\ s \notin revoked \cup expired
        /\ caller' = [caller EXCEPT ![c].pc = "rotate"]
  /\ owner' = [owner EXCEPT ![s] = c]
  /\ UNCHANGED sessionRows

(* The session was logged out or has expired; or it is live and the token's
   secret is wrong or the user is inactive. *)
Refuse(c) ==
  LET s == caller[c].session IN
  /\ caller[c].pc = "lock"
  /\ RowIsFree(s)
  /\ s \in revoked => rotatedTo[s] = NoSession
  /\ Release(c)
  /\ UNCHANGED sessionRows

(* The successor is inserted and the session revoked, both seen at commit. *)
Rotate(c) ==
  LET s == caller[c].session IN
  /\ caller[c].pc = "rotate"
  /\ InsertSession(family[s])
  /\ revoked' = revoked \cup {s}
  /\ rotatedTo' = [rotatedTo EXCEPT ![s] = issued + 1]
  /\ Release(c)
  /\ UNCHANGED expired

(* Mutations: revoked rows are updated too; only the presented session is. *)
ReusedWholeFamily(s) == {t \in Issued : family[t] = family[s]}
ReusedSessionOnly(s) == Live \cap {s}

(* WHERE family_id = $1 AND revoked_at IS NULL *)
Reused(s) == {t \in Live : family[t] = family[s]}

(* The update sees the rows that are live as it begins, visits them one by one
   and waits for each. *)
BeginUpdate(c) ==
  LET seen == Reused(caller[c].session) IN
  /\ caller[c].pc = "reuse"
  /\ caller' = [caller EXCEPT ![c].pc = "update", ![c].saw = seen, ![c].todo = seen,
                              ![c].since = issued]
  /\ UNCHANGED <<sessionRows, owner>>

VisitRow(c, t) ==
  /\ caller[c].pc = "update"
  /\ t \in caller[c].todo
  /\ owner[t] \in {NoCaller, c}
  /\ owner' = [owner EXCEPT ![t] = c]
  /\ caller' = [caller EXCEPT ![c].todo = @ \ {t}]
  /\ UNCHANGED sessionRows

(* COALESCE(revoked_at, $2): a row revoked meanwhile stays as it is. *)
CommitUpdate(c) ==
  /\ caller[c].pc = "update"
  /\ caller[c].todo = {}
  /\ revoked' = revoked \cup caller[c].saw
  /\ owner' = [s \in Session |-> IF owner[s] = c THEN NoCaller ELSE owner[s]]
  /\ caller' = [caller EXCEPT ![c].pc = "reused"]
  /\ UNCHANGED <<issued, family, rotatedTo, expired>>

(* The reuse is answered: unauthenticated. *)
AnswerReuse(c) ==
  /\ caller[c].pc = "reused"
  /\ Release(c)
  /\ UNCHANGED sessionRows

(* The process dies or the database gives the connection up: roll back. *)
AbortRequest(c) ==
  /\ caller[c].pc \in {"lock", "rotate", "reuse", "update"}
  /\ Release(c)
  /\ UNCHANGED sessionRows

(* revokeRefreshSession, one statement. *)
logout(s) ==
  /\ s \in Live \ expired
  /\ RowIsFree(s)
  /\ revoked' = revoked \cup {s}
  /\ UNCHANGED <<issued, family, rotatedTo, expired, owner, caller>>

ExpireSession(s) ==
  /\ s \in Issued \ expired
  /\ expired' = expired \cup {s}
  /\ UNCHANGED <<issued, family, revoked, rotatedTo, owner, caller>>

-----------------------------------------------------------------------------
RunRequest(c) ==
  \/ LockSession(c)
  \/ Refuse(c)
  \/ Rotate(c)
  \/ BeginUpdate(c)
  \/ \E t \in Session : VisitRow(c, t)
  \/ CommitUpdate(c)
  \/ AnswerReuse(c)
  \/ AbortRequest(c)

SessionsNext ==
  \/ login
  \/ \E c \in Caller : (\E s \in Session : refresh(c, s)) \/ RunRequest(c)
  \/ \E s \in Session : logout(s) \/ ExpireSession(s)

SessionsSpec == SessionsInit /\ [][SessionsNext]_sessionsVars

(* Requests go on, unless they wait for a lock; a row's lock is granted in the
   order in which it was asked for.  No request need die, but for those that
   would exceed the bound. *)
SessionsFairness ==
  \A c \in Caller :
    /\ WF_sessionsVars(\/ Rotate(c) \/ BeginUpdate(c) \/ CommitUpdate(c) \/ AnswerReuse(c)
                       \/ issued = MaxSession /\ caller[c].pc = "rotate" /\ AbortRequest(c))
    /\ SF_sessionsVars(LockSession(c) \/ Refuse(c) \/ \E t \in Session : VisitRow(c, t))

-----------------------------------------------------------------------------
(* However many requests present the tokens of a login at once, rotate them,
   reuse them, log them out or die half-way, one session of its family is live
   at most. *)
OneLivePerFamily ==
  \A s, t \in Live : family[s] = family[t] => s = t

(* A session that was revoked, by a logout or by a reuse, never gets a
   successor, and one that was rotated keeps the successor it has. *)
RevocationIsFinal ==
  [][\A s \in revoked : s \in revoked' /\ rotatedTo'[s] = rotatedTo[s]]_sessionsVars

(* When a reuse is answered, no session that the family had when its update
   began is live, whoever held the rows while it waited. *)
ReuseRevokesFamily ==
  \A c \in Caller : caller[c].pc = "reused" =>
    \A t \in Live : family[t] = family[caller[c].session] => t > caller[c].since

(* A request that does not wait for a row: it has none left to lock, or one of
   those it wants is free. *)
DoesNotWait(c) ==
  LET r == caller[c] IN
  /\ r.pc # "idle"
  /\ r.pc = "lock" => RowIsFree(r.session)
  /\ r.pc = "update" => r.todo = {} \/ \E t \in r.todo : owner[t] \in {NoCaller, c}

(* Two updates of reuses, or an update and a rotation, never wait for each
   other's rows, in a circle of whatever length: while there are requests, one
   of them need not wait. *)
LocksDoNotDeadlock ==
  (\E c \in Caller : caller[c].pc # "idle") => \E c \in Caller : DoesNotWait(c)

(* Every refresh is answered: updates that wait for each other's rows would not
   be. *)
RefreshesEnd ==
  \A c \in Caller : caller[c].pc # "idle" ~> caller[c].pc = "idle"

(* The sessions are the tokens of SessionFamilies: however requests interleave,
   what becomes of them is a sequence of logins, single exchanges and ends. *)
Families == INSTANCE SessionFamilies WITH
  Token <- Session, None <- NoSession,
  issued <- Issued, live <- Live, successor <- rotatedTo

ImplementsFamilies == Families!Spec
=============================================================================
