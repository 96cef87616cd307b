----------------------------- MODULE TrackPage -----------------------------
(***************************************************************************)
(* The tracking page (booking/static/booking/trip.js): every few seconds   *)
(* it asks for the state of its trip and draws the answer.  Coming back to *)
(* the page starts another chain of polls beside one that is waiting for   *)
(* an answer, so answers may overtake one another, and any of them may be  *)
(* lost.                                                                   *)
(***************************************************************************)
EXTENDS FiniteSets

CONSTANTS
  Chains    \* bound: the chains of polls at one time

VARIABLES
  trip,     \* the status of the trip at the server
  shown,    \* the status the page shows (s)
  chain,    \* chain -> what it waits for: its timer, an answer, or nothing any more
  timer,    \* the chain whose timer the page remembers, and clears
  giveUp    \* the request to cancel, as the chains

vars == <<trip, shown, chain, timer, giveUp>>

Final   == {"completed", "cancelled"}
Waiting == [at |-> "timer"]
Sent    == [at |-> "server"]
Over    == [at |-> "none"]
Back(status) == [at |-> "page", status |-> status]

Init ==
  /\ trip = "assigned" /\ shown = "assigned"
  /\ timer \in Chains
  /\ chain = [c \in Chains |-> IF c = timer THEN Waiting ELSE Over]
  /\ giveUp = Over

\* TripLifecycle says how.
Advance ==
  /\ \/ trip = "assigned" /\ trip' \in {"in_progress", "cancelled"}
     \/ trip = "in_progress" /\ trip' = "completed"
  /\ UNCHANGED <<shown, chain, timer, giveUp>>

\* poll().
Asked == IF shown \in Final THEN Over ELSE Sent

Poll(c) ==
  /\ chain[c] = Waiting
  /\ chain' = [chain EXCEPT ![c] = Asked]
  /\ UNCHANGED <<trip, shown, timer, giveUp>>

\* api_trip.
Read(c) ==
  /\ chain[c] = Sent
  /\ chain' = [chain EXCEPT ![c] = Back(trip)]
  /\ UNCHANGED <<trip, shown, timer, giveUp>>

\* finally: the next poll, whatever became of this one.
Again(c) == chain' = [chain EXCEPT ![c] = Waiting] /\ timer' = c

Render(c) ==
  /\ chain[c].at = "page"
  /\ shown' = chain[c].status
  /\ Again(c)
  /\ UNCHANGED <<trip, giveUp>>

\* Slip: only an answer sets the next timer.
PollFailsForGood(c) ==
  /\ chain[c].at = "page"
  /\ chain' = [chain EXCEPT ![c] = Over]
  /\ UNCHANGED <<trip, shown, timer, giveUp>>

\* No connection, or an error in place of an answer.  A request that is lost on its way
\* changes nothing at the server: it is an answer that is lost.
PollFails(c) ==
  /\ chain[c].at = "page"
  /\ Again(c)
  /\ UNCHANGED <<trip, shown, giveUp>>

\* visibilitychange: the remembered timer is cleared, a chain that waits for an answer is not.
ComeBack(c) ==
  LET cleared == [chain EXCEPT ![timer] = IF @ = Waiting THEN Over ELSE @] IN
  /\ cleared[c] = Over
  /\ chain' = [cleared EXCEPT ![c] = Asked]
  /\ UNCHANGED <<trip, shown, timer, giveUp>>

\* The sheet with the reasons, and api_cancel.
Cancel ==
  /\ giveUp = Over /\ shown = "assigned"
  /\ giveUp' = Sent
  /\ UNCHANGED <<trip, shown, chain, timer>>

CancelRead ==
  /\ giveUp = Sent
  /\ IF trip = "assigned" THEN trip' = "cancelled" /\ giveUp' = Back("cancelled")
     ELSE giveUp' = Over /\ UNCHANGED trip
  /\ UNCHANGED <<shown, chain, timer>>

CancelRender ==
  /\ giveUp.at = "page"
  /\ shown' = giveUp.status
  /\ giveUp' = Over
  /\ UNCHANGED <<trip, chain, timer>>

CancelFails ==
  /\ giveUp # Over
  /\ giveUp' = Over
  /\ UNCHANGED <<trip, shown, chain, timer>>

Next ==
  \/ Advance \/ Cancel \/ CancelRead \/ CancelRender \/ CancelFails
  \/ \E c \in Chains : Poll(c) \/ Read(c) \/ Render(c) \/ PollFails(c) \/ ComeBack(c)

----------------------------------------------------------------------------
(* Properties.                                                             *)

\* poll, render: while the page stays open and the network is not down for good, it ends
\* up showing how the trip ended, and no late answer takes that back.
TrackingEnds == [](trip \in Final => <>[](shown = trip))
=============================================================================
