------------------------------- MODULE Fares -------------------------------
(***************************************************************************)
(* What a trip costs (trips/routing.py, trips/pricing.py): the list of     *)
(* vehicles with their fares that is asked for first (TripEstimateView,    *)
(* BookingService.options), and the fare create_trip computes again when   *)
(* the trip is booked.  Both read the fare cards, then wait for Google,    *)
(* whose routes are remembered for a day, or for Valhalla when Google is   *)
(* not configured or does not answer; meanwhile the company may change its *)
(* cards. Money is in paise, a road in metres and seconds.                 *)
(***************************************************************************)
EXTENDS Integers, Sequences, FiniteSets, SequencesExt, Polyline

CONSTANTS
  Types,      \* vehicle types
  MaxEdits    \* bound: changes of the fare cards, and routes that are forgotten

VARIABLES
  google,     \* _use_google: a key is set and the provider is not "valhalla"
  cards,      \* the types' fare cards
  active,     \* the types on offer
  cached,     \* the legs whose route the cache has
  edits,
  asking,     \* the request for a list of fares
  quote,      \* the list it was answered with
  buying,     \* the request that books
  bought      \* the trip it made

vars == <<google, cards, active, cached, edits, asking, quote, buying, bought>>

Trips   == {<<"a", "b">>, <<"a", "c", "b">>}   \* a stop on the way, or none
Legs(trip) == {<<trip[n], trip[n + 1]>> : n \in 1 .. Len(trip) - 1}

Card(perKm, min) == [base |-> 2500, perKm |-> perKm, perMin |-> 130, min |-> min]
Cards == {Card(1250, 4000), Card(1255, 9000), Card(1250, 0)}   \* the last is not filled in

\* costing_for_category: the kinds of road user that Valhalla tells apart.
Costing(t) == IF t = CHOOSE u \in Types : TRUE THEN "truck" ELSE "auto"

\* A leg by its provider (Google knows one kind of car).
Length(by) == CASE by = "google" -> [metres |-> 1234, seconds |-> 250]
                [] by = "auto"   -> [metres |-> 1322, seconds |-> 305]
                [] by = "truck"  -> [metres |-> 1401, seconds |-> 420]
Line(leg, by) == <<leg[1], by, leg[2]>>

\* Both providers' answers: the legs' sums, and their lines joined.
Road(trip, by) ==
  LET n == Len(trip) - 1
  IN [metres    |-> n * Length(by).metres,
      seconds   |-> n * Length(by).seconds,
      line      |-> Joined([i \in 1 .. n |-> Line(<<trip[i], trip[i + 1]>>, by)])]

NoRoad == [metres |-> 0]   \* ROUTING_UNAVAILABLE

\* (n / of).quantize(CENTS, ROUND_HALF_UP), n >= 0.
Rounded(n, of) == (2 * n + of) \div (2 * of)

\* calculate_fare, with a surge of 1.
Fare(card, road) ==
  LET total == card.base + Rounded(road.metres * card.perKm, 1000) + Rounded(road.seconds * card.perMin, 60)
  IN IF total < card.min THEN card.min ELSE total
Priceable(card) == card.min > 0   \* FARE_NOT_CONFIGURED

Idle     == [kind |-> "none"]
NoQuote  == [roads |-> <<>>]
NoTrip   == [type |-> "none"]

Init ==
  /\ google \in BOOLEAN
  /\ cards \in [Types -> {Card(1250, 4000), Card(1250, 0)}]
  /\ active = Types
  /\ cached = {} /\ edits = 0
  /\ asking = Idle /\ quote = NoQuote
  /\ buying = Idle /\ bought = NoTrip

----------------------------------------------------------------------------
\* Slip: what Google answered is not remembered.
AskGoogleForgetting(trip, got) == cached' = cached

\* _google_route for every leg: the cache's, else Google's, which is then remembered;
\* got is what there is afterwards.
AskGoogle(trip, got) == cached' = cached \union got

\* get_route and get_route_via: Google if it has every leg, else Valhalla for the whole
\* trip, else nothing.
Route(trip, costing, road) ==
  IF google
  THEN \E got \in SUBSET Legs(trip) :
         /\ cached \intersect Legs(trip) \subseteq got
         /\ AskGoogle(trip, got)
         /\ road \in IF got = Legs(trip) THEN {Road(trip, "google")} ELSE {Road(trip, costing), NoRoad}
  ELSE UNCHANGED cached /\ road \in {Road(trip, costing), NoRoad}

Roads(trip, t) == {Road(trip, "google"), Road(trip, Costing(t)), NoRoad}

\* The company's fleet API and the admin change a type.
Edit(t, card) ==
  /\ edits < MaxEdits
  /\ edits' = edits + 1
  /\ cards' = [cards EXCEPT ![t] = card]
  /\ UNCHANGED <<google, active, cached, asking, quote, buying, bought>>

Withdraw(t) ==
  /\ edits < MaxEdits
  /\ edits' = edits + 1
  /\ active' = active \ {t}
  /\ UNCHANGED <<google, cards, cached, asking, quote, buying, bought>>

\* ROUTE_CACHE_SECONDS are over; quotes that rely on the route do not hold any longer.
Forget(leg) ==
  /\ leg \in cached /\ edits < MaxEdits
  /\ edits' = edits + 1
  /\ cached' = cached \ {leg}
  /\ quote' = IF quote = NoQuote THEN quote ELSE [quote EXCEPT !.kept = FALSE]
  /\ asking' = IF asking = Idle THEN Idle ELSE [asking EXCEPT !.kept = FALSE]
  /\ UNCHANGED <<google, cards, active, buying, bought>>

----------------------------------------------------------------------------
\* The types are read at once and priced one after the other, between two points.
Ask(kind) ==
  /\ asking = Idle /\ quote = NoQuote /\ active # {}
  /\ asking' = [kind |-> kind, cards |-> [t \in active |-> cards[t]], roads |-> <<>>, kept |-> TRUE]
  /\ UNCHANGED <<google, cards, active, cached, edits, quote, buying, bought>>

Unpriced == DOMAIN asking.cards \ DOMAIN asking.roads

\* options asks for one route for each kind of road user.
Reused(t) == {asking.roads[u] : u \in {u \in DOMAIN asking.roads : asking.kind = "options" /\ Costing(u) = Costing(t)}}

\* One type that cannot be priced, for want of a route or of a fare card, leaves the
\* whole list without an answer.
Price(t) ==
  /\ asking # Idle /\ t \in Unpriced
  /\ \E road \in Roads(<<"a", "b">>, t) :
       /\ IF Reused(t) # {} THEN road \in Reused(t) /\ UNCHANGED cached
          ELSE Route(<<"a", "b">>, Costing(t), road)
       /\ LET roads == [u \in DOMAIN asking.roads \union {t} |-> IF u = t THEN road ELSE asking.roads[u]]
          IN IF road = NoRoad \/ ~Priceable(asking.cards[t]) THEN asking' = Idle /\ UNCHANGED quote
             ELSE IF DOMAIN roads # DOMAIN asking.cards
             THEN asking' = [asking EXCEPT !.roads = roads] /\ UNCHANGED quote
             ELSE /\ quote' = [roads |-> roads, cards |-> asking.cards, kept |-> asking.kept]
                  /\ asking' = Idle
  /\ UNCHANGED <<google, cards, active, edits, buying, bought>>

\* create_trip: the type as it was read, then the route through all stops and the fare.
Buy(t, trip) ==
  /\ buying = Idle /\ bought = NoTrip /\ t \in active
  /\ buying' = [kind |-> "book", type |-> t, card |-> cards[t], trip |-> trip]
  /\ UNCHANGED <<google, cards, active, cached, edits, asking, quote, bought>>

Book ==
  /\ buying # Idle
  /\ \E road \in Roads(buying.trip, buying.type) :
       /\ Route(buying.trip, Costing(buying.type), road)
       /\ bought' = IF road = NoRoad \/ ~Priceable(buying.card) THEN NoTrip
                    ELSE [type |-> buying.type, trip |-> buying.trip, card |-> buying.card, road |-> road,
                          fare |-> Fare(buying.card, road), agreed |-> quote]
  /\ buying' = Idle
  /\ UNCHANGED <<google, cards, active, edits, asking, quote>>

Next ==
  \/ \E t \in Types : \/ Withdraw(t) \/ Price(t)
                      \/ \E card \in Cards : Edit(t, card)
                      \/ \E trip \in Trips : Buy(t, trip)
  \/ \E kind \in {"options", "estimate"} : Ask(kind)
  \/ \E leg \in cached : Forget(leg)
  \/ Book

----------------------------------------------------------------------------
(* Properties.                                                             *)

\* The stops of a trip that a line passes, in its order.
Passed(line, trip) ==
  FoldLeft(LAMBDA stops, p : IF p \in ToSet(trip) THEN Append(stops, p) ELSE stops, <<>>, line)

\* What the customer was shown for the type, on Google's road, not a day old.
PromisedRoad(t) ==
  /\ bought.agreed # NoQuote /\ bought.agreed.kept
  /\ t \in DOMAIN bought.agreed.roads
  /\ bought.agreed.roads[t] = Road(<<"a", "b">>, "google")

\* _google_route, "the same pair asked again within a day - fares, then booking - costs one
\* call": a fare shown on Google's road is the fare of the trip, whether Google answers
\* now or not, unless the card was changed; and the road passes every stop once, in order.
QuoteKept ==
  bought # NoTrip =>
    /\ Passed(bought.road.line, bought.trip) = bought.trip
    /\ PromisedRoad(bought.type) /\ bought.trip = <<"a", "b">>
         => /\ bought.road = bought.agreed.roads[bought.type]
            /\ bought.card = bought.agreed.cards[bought.type]
                 => bought.fare = Fare(bought.agreed.cards[bought.type], bought.agreed.roads[bought.type])
=============================================================================
