--------------------------- MODULE SessionFamilies ---------------------------
(***************************************************************************)
(* What refresh tokens promise, without requests, locks or transactions: a *)
(* login starts a family with one live token; a live token is exchanged    *)
(* for a new one of its family, once; a token that has ended stays so.     *)
(* There is no step that gives a family a live token again once it has     *)
(* none, and none that gives it a second one.                              *)
(***************************************************************************)
CONSTANTS Token, None

VARIABLES
  issued,    \* the tokens there are
  live,      \* those that can be exchanged
  family,    \* the token of the login each one descends from
  successor  \* what each one was exchanged for

familiesVars == <<issued, live, family, successor>>

Init ==
  /\ issued = {}
  /\ live = {}
  /\ family = [t \in Token |-> None]
  /\ successor = [t \in Token |-> None]

Issue(t, f) ==
  /\ t \in Token \ issued
  /\ issued' = issued \cup {t}
  /\ family' = [family EXCEPT ![t] = f]

Login(t) ==
  /\ Issue(t, t)
  /\ live' = live \cup {t}
  /\ UNCHANGED successor

Exchange(s, t) ==
  /\ s \in live
  /\ Issue(t, family[s])
  /\ live' = (live \ {s}) \cup {t}
  /\ successor' = [successor EXCEPT ![s] = t]

End(s) ==
  /\ s \in live
  /\ live' = live \ {s}
  /\ UNCHANGED <<issued, family, successor>>

Next == \E s, t \in Token : Login(t) \/ Exchange(s, t) \/ End(s)

Spec == Init /\ [][Next]_familiesVars
=============================================================================
