------------------------------ MODULE Booking ------------------------------
(***************************************************************************)
(* The customer's side of the program: booking/services.py and views.py,   *)
(* trips/routing.py and pricing.py, and the scripts of the pages.  The     *)
(* server keeps the codes (CustomerCode), the saved addresses              *)
(* (SavedPlaces), the lookups (PlaceSearch), the routes and fares (Fares,  *)
(* Polyline) and the booking itself (BookTrip); the phone runs the sign-in *)
(* page (LoginPage), the booking page (BookPage) with the place picker on  *)
(* top of it (PlacePicker) and the map under it (ReviewMap), the list of   *)
(* trips (TripList) and the tracking page (TrackPage).  They share no      *)
(* variable: what one gets from another (an address, a fare, the state of  *)
(* the trip) comes in a request and is any value in the module that gets   *)
(* it.  A behaviour follows one part and leaves the others where they      *)
(* begin.                                                                  *)
(***************************************************************************)
EXTENDS Naturals, FiniteSets

CONSTANTS MaxTries, MaxSent, Servers,              \* CustomerCode
          Rows, MaxPlaces, Nothing,                \* SavedPlaces, BookTrip
          Spots, Nowhere, MaxAsked,                \* BookPage, PlacePicker
          Texts, MaxLayers,                        \* PlacePicker
          Chains,                                  \* TrackPage
          Types, MaxEdits,                         \* Fares
          MaxLooked, MaxWaiting,                   \* ReviewMap
          PageSize, MaxTrips, MaxEnds,             \* TripList
          MaxPosts, NoCode                         \* LoginPage

ASSUME BoundsAssumption == {MaxSent, MaxAsked, MaxLayers, MaxEdits, MaxLooked, MaxWaiting,
                            MaxTrips, MaxEnds, MaxPosts} \subseteq Nat
ASSUME LimitsAssumption == MaxTries \in Nat \ {0} /\ MaxPlaces \in Nat \ {0} /\ PageSize \in Nat \ {0}
ASSUME ServersAssumption == IsFiniteSet(Servers)
ASSUME NullsAssumption  == /\ Nowhere \notin Spots \union Texts /\ "searching" \notin Texts /\ NoCode \notin Nat
                           /\ Nothing \notin Rows \union {"home", "work", "other"}

VARIABLES
  part,                                                            \* the part a behaviour follows
  open, sent, throttle, code, wrong, used, member, verify, single, \* CustomerCode
  place, recast, saving, alone,                                    \* SavedPlaces
  keyed, knows, cache, down, lookup,                               \* PlaceSearch
  trip, booker, leaving,                                           \* BookTrip
  from, to, finding, review, picker, seq, asked, failed, fare, booking,   \* BookPage
  layers, shown, sub, pin, typed, list, searching, asks, details,  \* PlacePicker
  locating, map, center, moving, pinTimer, pinCenter, pinned, patient,
  status, drawn, chain, timer, giveUp,                             \* TrackPage
  google, cards, active, cached, edits, asking, quote, buying, bought,   \* Fares
  line,                                                            \* Polyline
  library, waiting, view, looked, priced, looking, oneByOne,       \* ReviewMap
  trips, ends, tab, next, loading, turn, pages, scrolled, error, steady, \* TripList
  step, digits, resend, busy, posts, count, right, texted, named, session, askedName, posted   \* LoginPage

codes  == <<open, sent, throttle, code, wrong, used, member, verify, single>>
places == <<place, recast, saving, alone>>
search == <<keyed, knows, cache, down, lookup>>
book   == <<trip, booker, leaving>>
home   == <<from, to, finding, review, picker, seq, asked, failed, fare, booking>>
pick   == <<layers, shown, sub, pin, typed, list, searching, asks, details, locating,
            map, center, moving, pinTimer, pinCenter, pinned, patient>>
track  == <<status, drawn, chain, timer, giveUp>>
fares  == <<google, cards, active, cached, edits, asking, quote, buying, bought>>
over   == <<library, waiting, view, looked, priced, looking, oneByOne>>
bookings  == <<trips, ends, tab, next, loading, turn, pages, scrolled, error, steady>>
login  == <<step, digits, resend, busy, posts, count, right, texted, named, session, askedName, posted>>
server == <<codes, places, search, book, fares, line>>
phone  == <<home, pick, track, over, bookings, login>>
vars   == <<part, server, phone>>

Code   == INSTANCE CustomerCode WITH call <- verify
Kept   == INSTANCE SavedPlaces WITH call <- saving, single <- alone
Search == INSTANCE PlaceSearch WITH call <- lookup
Book   == INSTANCE BookTrip
Page   == INSTANCE BookPage WITH Places <- Spots
Picker == INSTANCE PlacePicker WITH Points <- Spots, Empty <- Nowhere
Track  == INSTANCE TrackPage WITH trip <- status, shown <- drawn
Fare   == INSTANCE Fares
Poly   == INSTANCE Polyline
Map    == INSTANCE ReviewMap WITH page <- view, trip <- looked, review <- looking, patient <- oneByOne,
                                  MaxTrips <- MaxLooked
List   == INSTANCE TripList WITH seq <- turn, asked <- pages, list <- scrolled
Login  == INSTANCE LoginPage WITH asks <- posts, code <- right, codes <- texted, asked <- askedName,
                                  MaxAsks <- MaxPosts

Parts == {"codes", "places", "search", "book", "home", "pick", "track", "fares", "line", "map", "list", "login"}

\* A part that is not followed begins in one way only.
Init ==
  /\ part \in Parts
  /\ Code!Init /\ (part # "codes" => open /\ single)
  /\ Kept!Init /\ (part # "places" => alone)
  /\ Search!Init /\ (part # "search" => ~keyed /\ knows = {})
  /\ Book!Init
  /\ Page!Init /\ (part # "home" => from = Nowhere)
  /\ Picker!Init /\ (part # "pick" => patient)
  /\ Track!Init /\ (part # "track" => timer = CHOOSE c \in Chains : TRUE)
  /\ Fare!Init /\ (part # "fares" => google /\ \A t \in Types : Fare!Priceable(cards[t]))
  /\ line \in IF part = "line" THEN Poly!Lines ELSE {<<Poly!Origin>>}
  /\ Map!Init /\ (part # "map" => oneByOne /\ library = "google?")
  /\ List!Init /\ (part # "list" => steady /\ trips = <<>> /\ tab = "all")
  /\ Login!Init /\ (part # "login" => named)

ServerStep ==
  \/ part = "codes" /\ Code!Next /\ UNCHANGED <<places, search, book, fares>>
  \/ part = "places" /\ Kept!Next /\ UNCHANGED <<codes, search, book, fares>>
  \/ part = "search" /\ Search!Next /\ UNCHANGED <<codes, places, book, fares>>
  \/ part = "book" /\ Book!Next /\ UNCHANGED <<codes, places, search, fares>>
  \/ part = "fares" /\ Fare!Next /\ UNCHANGED <<codes, places, search, book>>

PhoneStep ==
  \/ part = "home" /\ Page!Next /\ UNCHANGED <<pick, track, over, bookings, login>>
  \/ part = "pick" /\ Picker!Next /\ UNCHANGED <<home, track, over, bookings, login>>
  \/ part = "map" /\ Map!Next /\ UNCHANGED <<home, pick, track, bookings, login>>
  \/ part = "list" /\ List!Next /\ UNCHANGED <<home, pick, track, over, login>>
  \/ part = "login" /\ Login!Next /\ UNCHANGED <<home, pick, track, over, bookings>>

Tracking(Step) == part = "track" /\ Step /\ UNCHANGED <<part, server, home, pick, over, bookings, login>>

Next ==
  \/ ServerStep /\ UNCHANGED <<part, line, phone>>
  \/ PhoneStep /\ UNCHANGED <<part, server>>
  \/ Tracking(Track!Next)

Spec == Init /\ [][Next]_vars

\* The page's timers fire and the server answers; an answer that comes again and again
\* reaches the page now and then.
Polls(c) == /\ WF_vars(Tracking(Track!Poll(c) \/ Track!Read(c)))
            /\ SF_vars(Tracking(Track!Render(c)))

FairSpec == Spec /\ \A c \in Chains : Polls(c)

\* verify_otp: the guesses a code answers are bounded however requests overlap; while they
\* do not, OTP_MAX_ATTEMPTS bounds them, a code lets in once, and the last SMS has it.
CodesHold == part = "codes" => Code!CodesHold

\* save_place and _cached: the limit of addresses holds but for requests that count
\* together, one Home and one Work, and no failed lookup is remembered as an answer.
\* create_trip: the fare that was shown is the fare of the trip while cards and remembered
\* routes last; decode and encode: a line is read back as it was written.
KeepsWhatItShould ==
  /\ part = "places" => Kept!PlacesKept
  /\ part = "search" => Search!FailuresForgotten
  /\ part = "fares" => Fare!QuoteKept
  /\ part = "line" => Poly!RoundTrip(line)

\* book: storing whose the trip is undoes nothing that was done to it since create_trip.
BookingKept == Book!BookingKept

\* home.js and places.js: a trip is booked at its own fare, the address above the button
\* is the pin's, results are the text's, and back closes the screens in their order.
\* mobmap.js: what is on the map survives the change of maps.  trips.html and login.html:
\* the cards are of the tab that is chosen, and nobody leaves the sign-in page who is not
\* signed in and named.
ScreensAgree ==
  /\ part = "home" => Page!BookedAtItsFare
  /\ part = "pick" => Picker!PickerAgrees
  /\ part = "map" => Map!MapAgrees
  /\ part = "list" => List!ListAgrees
  /\ part = "login" => Login!LoginHolds

\* trip.js: however answers are lost or overtaken, the page ends up with how the trip
\* ended and stays there.
TrackingEnds == Track!TrackingEnds
=============================================================================
