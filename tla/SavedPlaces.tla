----------------------------- MODULE SavedPlaces -----------------------------
(***************************************************************************)
(* The addresses one customer keeps (booking/services.py, save_place): at  *)
(* most MAX of them, one Home and one Work among them.  The rows are       *)
(* looked at and counted before the one that is saved.                     *)
(***************************************************************************)
EXTENDS Naturals, FiniteSets

CONSTANTS
  Rows,        \* ids of SavedPlace rows, those not yet inserted included
  MaxPlaces,   \* the limit, 20
  Servers,     \* processes that serve the requests
  Nothing      \* Python's None

VARIABLES
  place,    \* row -> its kind, Nothing when there is no such row
  recast,   \* an edit has given an address another kind
  call,     \* server -> the request it serves
  single    \* requests do not overlap

vars == <<place, recast, call, single>>

Kind  == {"home", "work", "other"}
Ready == [op |-> "idle"]
Saved == {r \in Rows : place[r] # Nothing}
OfKind(k) == {r \in Rows : place[r] = k}

Init ==
  /\ place = [r \in Rows |-> Nothing]
  /\ recast = FALSE
  /\ call = [s \in Servers |-> Ready]
  /\ single \in BOOLEAN

Accept(s, r) ==
  /\ call[s] = Ready
  /\ single => \A v \in Servers : call[v] = Ready
  /\ call' = [call EXCEPT ![s] = r]
Then(s, op, row) == call' = [call EXCEPT ![s] = [op |-> op, kind |-> @.kind, row |-> row]]
Answer(s)        == call' = [call EXCEPT ![s] = Ready]

\* Slip: an address is always a further one.
AddLookNew(s, k) ==
  /\ Accept(s, [op |-> "count", kind |-> k, row |-> Nothing])
  /\ UNCHANGED <<place, recast, single>>

\* api_saved: another Home or Work replaces the one there is, first() of its kind.
AddLook(s, k) ==
  /\ \/ /\ k = "other" \/ OfKind(k) = {}
        /\ Accept(s, [op |-> "count", kind |-> k, row |-> Nothing])
     \/ \E r \in OfKind(k) : k # "other" /\ Accept(s, [op |-> "save", kind |-> k, row |-> r])
  /\ UNCHANGED <<place, recast, single>>

\* TOO_MANY_PLACES, or the id of the row that will be inserted.
AddCount(s, r) ==
  /\ call[s].op = "count"
  /\ IF Cardinality(Saved) >= MaxPlaces THEN Answer(s)
     ELSE /\ place[r] = Nothing
          /\ \A v \in Servers : call[v] # Ready => call[v].row # r
          /\ Then(s, "save", r)
  /\ UNCHANGED <<place, recast, single>>

\* api_saved_place reads the row it edits; the new kind is the customer's choice.
EditFetch(s, r, k) ==
  /\ place[r] # Nothing
  /\ recast' = (recast \/ k # place[r])
  /\ Accept(s, [op |-> "save", kind |-> k, row |-> r])
  /\ UNCHANGED <<place, single>>

\* place.save() of a whole row: one that was removed meanwhile is back.
Save(s) ==
  /\ call[s].op = "save"
  /\ place' = [place EXCEPT ![call[s].row] = call[s].kind]
  /\ Answer(s)
  /\ UNCHANGED <<recast, single>>

RemoveFetch(s, r) ==
  /\ place[r] # Nothing
  /\ Accept(s, [op |-> "remove", row |-> r])
  /\ UNCHANGED <<place, recast, single>>

\* place.delete() of a row that was read; it may be gone already.
Remove(s) ==
  /\ call[s].op = "remove"
  /\ place' = [place EXCEPT ![call[s].row] = Nothing]
  /\ Answer(s)
  /\ UNCHANGED <<recast, single>>

\* INVALID_PLACE, or the process dies.
Drop(s) ==
  /\ call[s] # Ready
  /\ Answer(s)
  /\ UNCHANGED <<place, recast, single>>

Serve(s) ==
  \/ \E k \in Kind : AddLook(s, k)
  \/ \E r \in Rows :
       \/ AddCount(s, r) \/ RemoveFetch(s, r)
       \/ \E k \in Kind : EditFetch(s, r, k)
  \/ Save(s) \/ Remove(s) \/ Drop(s)

Next == \E s \in Servers : Serve(s)

----------------------------------------------------------------------------
(* Properties.                                                             *)

Overshoot == IF single THEN 0 ELSE Cardinality(Servers) - 1

\* save_place: requests that count at the same moment, or bring back a row that was
\* removed under them, overshoot the limit by no more than one for every further server.
LimitNearlyKept == Cardinality(Saved) <= MaxPlaces + Overshoot

\* save_place, "One Home and one Work": while requests do not overlap and no edit gives an
\* address another kind, saving another replaces it.
OneOfAKind == single /\ ~recast => \A k \in {"home", "work"} : Cardinality(OfKind(k)) <= 1

PlacesKept == LimitNearlyKept /\ OneOfAKind
=============================================================================
