----------------------------- MODULE ReviewMap -----------------------------
(***************************************************************************)
(* The map of the review (mobmap.js, and home.js from fillRoute to         *)
(* loadNearby): Google's when the server has a key, Leaflet's otherwise,   *)
(* and Leaflet's in place of Google's when Google refuses the key while    *)
(* the map is in use.  The page draws the trip's stops, its route and the  *)
(* drivers nearby through one object that remembers them.  A library       *)
(* arrives late, or not at all, and whoever asks for the map meanwhile     *)
(* waits for one of his own.                                               *)
(***************************************************************************)
EXTENDS Naturals, Sequences, SequencesExt

CONSTANTS
  MaxTrips,     \* bound: the trips that are looked at
  MaxWaiting    \* bound: how many wait for a map

VARIABLES
  library,   \* M.loadMaps: the library that is asked for ("google?", "leaflet?") or there
  waiting,   \* ensureMap's callers without a map, in order
  page,      \* the maps that were built, the one home.js holds, where its marks are,
             \* whether nearbyTimer runs, and the pickups loadNearby waits for
  trip,      \* the trip under review
  priced,    \* its options have come
  review,    \* reviewOpen
  patient    \* nobody asks for the map while another waits for it

vars == <<library, waiting, page, trip, priced, review, patient>>

Things == {"stops", "route", "nearby"}
Blank  == [x \in Things |-> 0]   \* 0: not there; otherwise the trip it belongs to

\* googleMap and leafletMap: a map on the screen, with what the page put on it (recs, in
\* swappable) and what is drawn.
GoogleMap  == [kind |-> "google", recs |-> Blank, drawn |-> Blank]
LeafletMap == [kind |-> "leaflet", recs |-> Blank, drawn |-> Blank]

Init ==
  /\ library \in {"google?", "leaflet?"}
  /\ waiting = <<>>
  /\ page = [maps |-> <<>>, map |-> 0, at |-> Blank, timer |-> FALSE, near |-> {}]
  /\ trip = 0 /\ priced = TRUE /\ review = FALSE
  /\ patient \in BOOLEAN

----------------------------------------------------------------------------
\* marker, route and remove of swappable; while it is switching they reach a stub.
Mark(map, what, t) ==
  [map EXCEPT !.recs[what] = t,
              !.drawn[what] = IF map.kind \in {"google", "leaflet"} THEN t ELSE 0]

Erase(pg, what) ==
  IF pg.at[what] = 0 THEN pg
  ELSE [pg EXCEPT !.maps[pg.at[what]] = Mark(@, what, 0), !.at[what] = 0]

\* What the page had drawn is removed, wherever it is, and drawn on the map it holds.
Put(pg, what, t) ==
  LET clean == Erase(pg, what)
  IN [clean EXCEPT !.maps[pg.map] = Mark(@, what, t), !.at[what] = pg.map]

\* Slip: the route of the trip before stays.
DrawStopsOver(pg, t) == [Put(pg, "stops", t) EXCEPT !.timer = TRUE, !.near = @ \union {t}]

\* It asks for the drivers nearby, too, and goes on asking.
DrawStops(pg, t) == [Put(Erase(pg, "route"), "stops", t) EXCEPT !.timer = TRUE, !.near = @ \union {t}]

\* drawStops looks at the trip there is by then, drawRoute draws the route it was given.
Draw(pg, caller, now) == IF caller[1] = "stops" THEN DrawStops(pg, now) ELSE Put(pg, "route", caller[2])

\* M.map has the library: a second Leaflet map on the element throws, and its caller
\* draws nothing; a second Google map takes the first one's place.
Build(pg, kind, caller, now) ==
  IF kind = "leaflet" /\ pg.maps # <<>> THEN pg
  ELSE Draw([pg EXCEPT !.maps = Append(@, IF kind = "google" THEN GoogleMap ELSE LeafletMap),
                       !.map = Len(pg.maps) + 1], caller, now)

BuildAll(pg, kind, callers, now) == FoldLeft(LAMBDA p, c : Build(p, kind, c, now), pg, callers)

\* ensureMap, and what is done with the map.
EnsureMap(caller) ==
  IF page.map # 0
  THEN page' = Draw(page, caller, trip') /\ UNCHANGED <<waiting, library>>
  ELSE IF library \in {"google", "leaflet"}
  THEN page' = BuildAll(page, library, <<caller>>, trip') /\ UNCHANGED <<waiting, library>>
  ELSE /\ Len(waiting) < MaxWaiting
       /\ patient => waiting = <<>>
       /\ waiting' = Append(waiting, caller)
       /\ library' = IF library = "none" THEN "leaflet?" ELSE library
       /\ UNCHANGED page

----------------------------------------------------------------------------
\* loadMaps.

Arrives(kind, maps) ==
  /\ library' = kind /\ waiting' = <<>>
  /\ UNCHANGED <<trip, priced, review, patient>>
  /\ page' = BuildAll([page EXCEPT !.maps = maps], kind, waiting, trip)

GoogleArrives == library = "google?" /\ Arrives("google", page.maps)

\* The script fails, or takes more than 12 seconds: Leaflet for the rest of the visit.
GoogleFails ==
  /\ library = "google?"
  /\ library' = "leaflet?"
  /\ UNCHANGED <<waiting, page, trip, priced, review, patient>>

\* toLeaflet: a clean element and a stand-in that draws nothing.
ToLeaflet(map) == IF map.kind = "google" THEN [map EXCEPT !.kind = "switching", !.drawn = Blank] ELSE map

\* gm_authFailure, before or after the maps were built.
GoogleRefuses ==
  /\ library \in {"google?", "google"}
  /\ library' = "leaflet?"
  /\ page' = [page EXCEPT !.maps = [i \in DOMAIN @ |-> ToLeaflet(@[i])]]
  /\ UNCHANGED <<waiting, trip, priced, review, patient>>

\* Slip: the markers are drawn again, not the routes.
ReplayMarkers(map) ==
  IF map.kind = "switching" THEN [map EXCEPT !.kind = "leaflet", !.drawn = [map.recs EXCEPT !["route"] = 0]] ELSE map
Replay(map) ==
  IF map.kind = "switching" THEN [map EXCEPT !.kind = "leaflet", !.drawn = map.recs] ELSE map

\* The switching maps first: they asked before anyone who waits now.
LeafletArrives ==
  /\ library = "leaflet?"
  /\ Arrives("leaflet", [i \in DOMAIN page.maps |-> Replay(page.maps[i])])

\* Who waits for a map gets an error and draws nothing; the next one asks again.
LeafletFails ==
  /\ library = "leaflet?"
  /\ library' = "none" /\ waiting' = <<>>
  /\ page' = [page EXCEPT !.maps = [i \in DOMAIN @ |->
                IF @[i].kind = "switching" THEN [@[i] EXCEPT !.kind = "broken"] ELSE @[i]]]
  /\ UNCHANGED <<trip, priced, review, patient>>

----------------------------------------------------------------------------
\* home.js.

\* openReview, for a trip that was chosen or changed.
OpenReview ==
  /\ trip < MaxTrips
  /\ trip' = trip + 1 /\ priced' = FALSE /\ review' = TRUE
  /\ UNCHANGED patient
  /\ EnsureMap(<<"stops", trip'>>)

CloseReview ==
  /\ review
  /\ review' = FALSE
  /\ page' = [page EXCEPT !.timer = FALSE]
  /\ UNCHANGED <<library, waiting, trip, priced, patient>>

\* loadOptions' answer, the last one's: drawRoute.
OptionsCome ==
  /\ ~priced /\ trip > 0
  /\ priced' = TRUE
  /\ UNCHANGED <<trip, review, patient>>
  /\ EnsureMap(<<"route", trip>>)

\* loadNearby: its timer fires, and its answers, whichever comes first.
AskNearby ==
  /\ page.timer
  /\ page' = [page EXCEPT !.near = @ \union {trip}]
  /\ UNCHANGED <<library, waiting, trip, priced, review, patient>>

NearbyComes(t) ==
  /\ t \in page.near
  /\ page' = [Put(page, "nearby", t) EXCEPT !.near = @ \ {t}]
  /\ UNCHANGED <<library, waiting, trip, priced, review, patient>>

Next ==
  \/ GoogleArrives \/ GoogleFails \/ GoogleRefuses \/ LeafletArrives \/ LeafletFails
  \/ OpenReview \/ CloseReview \/ OptionsCome \/ AskNearby
  \/ \E t \in page.near : NearbyComes(t)

----------------------------------------------------------------------------
(* Properties.                                                             *)

\* toLeaflet, "move them all onto a Leaflet map without the page noticing": whatever was
\* drawn or removed before, while or after the maps are switched is drawn, or gone; and,
\* unless callers of ensureMap overlap, no route of another trip is left on the map.
MapAgrees ==
  /\ \A i \in DOMAIN page.maps : LET map == page.maps[i] IN
       map.kind \in {"google", "leaflet"} => map.drawn = map.recs
  /\ patient => \A i \in DOMAIN page.maps : page.maps[i].recs["route"] \in {0, trip}
=============================================================================
