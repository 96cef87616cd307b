------------------------------ MODULE Sessions ------------------------------
(***************************************************************************)
(* The refresh tokens of one driver: drivers/tokens.py, the views that     *)
(* hand them out and accounts/authentication.py.                           *)
(*                                                                         *)
(* What a logout revokes is kept in the cache until the token would have   *)
(* expired, in whole seconds: a token has a last second in which           *)
(* int(remaining) is 0.  Access tokens are not kept anywhere; the driver   *)
(* is looked up with each.                                                 *)
(***************************************************************************)
EXTENDS Naturals, FiniteSets

CONSTANTS
  MaxTokens,   \* bound: the refresh tokens handed out
  Servers      \* processes that serve the requests

VARIABLES
  active,    \* the driver's account is active and not deleted
  life,      \* token -> what is left of it
  denied,    \* the tokens the cache knows as revoked
  out,       \* history: the tokens the driver has logged out
  call       \* server -> the request it serves

vars == <<active, life, denied, out, call>>

Tokens == 1..MaxTokens
Life   == {"unused", "fresh", "last", "expired"}
Ready  == [op |-> "idle"]

Init ==
  /\ active = TRUE
  /\ life = [t \in Tokens |-> "unused"]
  /\ denied = {} /\ out = {}
  /\ call = [s \in Servers |-> Ready]

Accept(s, r) == call[s] = Ready /\ call' = [call EXCEPT ![s] = r]
Answer(s)    == call' = [call EXCEPT ![s] = Ready]

Lives(t)    == life[t] \in {"fresh", "last"}
\* _parse_refresh.
CanRenew(t) == Lives(t) /\ t \notin denied

----------------------------------------------------------------------------
\* A code was right (SignIn).
SignsIn(s) ==
  /\ active
  /\ Accept(s, [op |-> "issue"])
  /\ UNCHANGED <<active, life, denied, out>>

\* refresh: the token handed in stays what it is.
RefreshParse(s, t) ==
  /\ CanRenew(t)
  /\ Accept(s, [op |-> "renew"])
  /\ UNCHANGED <<active, life, denied, out>>

RefreshLook(s) ==
  /\ call[s].op = "renew"
  /\ active
  /\ call' = [call EXCEPT ![s].op = "issue"]
  /\ UNCHANGED <<active, life, denied, out>>

\* issue_pair.
Issue(s) ==
  LET t == Cardinality({u \in Tokens : life[u] # "unused"}) + 1 IN
  /\ call[s].op = "issue"
  /\ t \in Tokens
  /\ life' = [life EXCEPT ![t] = "fresh"]
  /\ Answer(s)
  /\ UNCHANGED <<active, denied, out>>

LogoutParse(s, t) ==
  /\ CanRenew(t)
  /\ Accept(s, [op |-> "deny", token |-> t])
  /\ UNCHANGED <<active, life, denied, out>>

\* revoke; with no whole second left, nothing is stored.
LogoutDeny(s) ==
  LET t == call[s].token IN
  /\ call[s].op = "deny"
  /\ denied' = IF life[t] = "fresh" THEN denied \union {t} ELSE denied
  /\ out' = out \union {t}
  /\ Answer(s)
  /\ UNCHANGED <<active, life>>

Drop(s) ==
  /\ call[s] # Ready
  /\ Answer(s)
  /\ UNCHANGED <<active, life, denied, out>>

Age(t) ==
  /\ Lives(t)
  /\ life' = [life EXCEPT ![t] = IF @ = "fresh" THEN "last" ELSE "expired"]
  /\ UNCHANGED <<active, denied, out, call>>

\* Slip: the entry lives as long as an access token.
ForgetEarly(t) ==
  /\ t \in denied
  /\ denied' = denied \ {t}
  /\ UNCHANGED <<active, life, out, call>>

\* The entry's timeout is what was left of the token, in whole seconds.
Forget(t) ==
  /\ t \in denied /\ life[t] # "fresh"
  /\ denied' = denied \ {t}
  /\ UNCHANGED <<active, life, out, call>>

\* Blocked, locked or retired, and opened again (Fleet, Onboarding).
SetActive ==
  /\ active' = ~active
  /\ UNCHANGED <<life, denied, out, call>>

----------------------------------------------------------------------------
Next ==
  \/ \E s \in Servers :
       \/ SignsIn(s) \/ RefreshLook(s) \/ Issue(s) \/ LogoutDeny(s) \/ Drop(s)
       \/ \E t \in Tokens : RefreshParse(s, t) \/ LogoutParse(s, t)
  \/ \E t \in Tokens : Age(t) \/ Forget(t)
  \/ SetActive

Spec == Init /\ [][Next]_vars

----------------------------------------------------------------------------
\* revoke and _parse_refresh: a token its driver has logged out opens no session again,
\* until its last second.
LoggedOutStaysOut == \A t \in out : CanRenew(t) => life[t] = "last"
=============================================================================
