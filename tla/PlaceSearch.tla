---------------------------- MODULE PlaceSearch ----------------------------
(***************************************************************************)
(* Looking places up for the booking pages (booking/services.py): Google   *)
(* when it is set up and did not fail of late, Photon (OpenStreetMap)      *)
(* otherwise or in its place, and a cache before each.  Both are external; *)
(* what they know of a place is fixed, whether they answer is not.         *)
(***************************************************************************)
EXTENDS FiniteSets

CONSTANTS
  Servers     \* processes that serve the requests

VARIABLES
  keyed,      \* GOOGLE_MAPS_API_KEY is set
  knows,      \* the lookups a provider has an answer for
  cache,      \* the cached lookups: "some", "nothing", or "miss"
  down,       \* GOOGLE_DOWN_KEY is in the cache
  call        \* server -> the request it serves

vars == <<keyed, knows, cache, down, call>>
fixed == <<keyed, knows>>

Asks    == {"search", "details", "reverse"}
Lookups == {<<"google", "search">>, <<"google", "details">>, <<"google", "reverse">>,
            <<"photon", "search">>, <<"photon", "reverse">>}
Ready   == [op |-> "idle"]
Truth(l) == IF l \in knows THEN "some" ELSE "nothing"

Init ==
  /\ keyed \in BOOLEAN
  /\ knows \in SUBSET Lookups
  /\ cache = [l \in Lookups |-> "miss"]
  /\ down = FALSE
  /\ call = [s \in Servers |-> Ready]

UseGoogle == keyed /\ ~down

At(s, provider, ask) == call' = [call EXCEPT ![s] = [op |-> provider, ask |-> ask]]
Tell(s)              == call' = [call EXCEPT ![s] = Ready]

\* search_places, place_details and reverse; only the details need Google.
Ask(s, ask) ==
  /\ call[s] = Ready
  /\ ask = "details" => keyed
  /\ At(s, IF ask = "details" \/ UseGoogle THEN "google" ELSE "photon", ask)
  /\ UNCHANGED <<fixed, cache, down>>

\* An empty list is an answer to a search; an unknown address or id is not.
IsAnswer(ask, value) == value = "some" \/ (ask = "search" /\ value = "nothing")

\* What the request does with what a provider (or its cache) said; "failed" is None.
\* After Photon, [] is the answer, and reverse makes do with the coordinates.
After(s, provider, ask, value) ==
  IF provider = "photon" \/ IsAnswer(ask, value) \/ ask = "details" THEN Tell(s)
  ELSE At(s, "photon", ask)

\* _cached, when it hits.
Hit(s) ==
  LET c == call[s] IN
  /\ c # Ready /\ cache[<<c.op, c.ask>>] # "miss"
  /\ After(s, c.op, c.ask, cache[<<c.op, c.ask>>])
  /\ UNCHANGED <<fixed, cache, down>>

\* What a lookup keeps: Google's lists, details and addresses, Photon's lists.
Kept(provider, ask, value) == value = "some" \/ (value = "nothing" /\ (provider = "photon" \/ ask = "search"))

\* _cached, when it misses and the provider answers (OK or ZERO_RESULTS).
Answer(s) ==
  LET c == call[s]  l == <<c.op, c.ask>> IN
  /\ c # Ready /\ cache[l] = "miss"
  /\ cache' = IF Kept(c.op, c.ask, Truth(l)) THEN [cache EXCEPT ![l] = Truth(l)] ELSE cache
  /\ After(s, c.op, c.ask, Truth(l))
  /\ UNCHANGED <<fixed, down>>

\* Slip: a failed lookup is kept as an empty one.
FailKeeping(s) ==
  LET c == call[s] IN
  /\ c # Ready /\ cache[<<c.op, c.ask>>] = "miss"
  /\ cache' = [cache EXCEPT ![<<c.op, c.ask>>] = "nothing"]
  /\ down' \in IF c.op = "google" THEN {TRUE, down} ELSE {down}
  /\ After(s, c.op, c.ask, "failed")
  /\ UNCHANGED fixed

\* No answer, or a refused key, and Google is skipped for a while; or another error.
Fail(s) ==
  LET c == call[s] IN
  /\ c # Ready /\ cache[<<c.op, c.ask>>] = "miss"
  /\ down' \in IF c.op = "google" THEN {TRUE, down} ELSE {down}
  /\ After(s, c.op, c.ask, "failed")
  /\ UNCHANGED <<fixed, cache>>

\* Cached answers and the mark against Google run out.
Expire(l) ==
  /\ cache[l] # "miss"
  /\ cache' = [cache EXCEPT ![l] = "miss"]
  /\ UNCHANGED <<fixed, down, call>>
GoogleAgain ==
  /\ down
  /\ down' = FALSE
  /\ UNCHANGED <<fixed, cache, call>>

Next ==
  \/ \E s \in Servers :
       \/ \E ask \in Asks : Ask(s, ask)
       \/ Hit(s) \/ Answer(s) \/ Fail(s)
  \/ \E l \in Lookups : Expire(l)
  \/ GoogleAgain

----------------------------------------------------------------------------
(* Properties.                                                             *)

\* _cached: a failure is never remembered as an answer, so nobody is told that there is
\* no such place because a provider was down a while ago.
FailuresForgotten == \A l \in Lookups : cache[l] \in {"miss", Truth(l)}
=============================================================================
