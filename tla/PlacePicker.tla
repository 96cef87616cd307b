---------------------------- MODULE PlacePicker ----------------------------
(***************************************************************************)
(* The place picker (booking/static/booking/places.js): a list to search   *)
(* and a map whose centre is the pin.  Moving the map asks the server for  *)
(* the address there; searches, addresses, place details and the device's  *)
(* location all answer late or never.  One counter, seq, tells an answer   *)
(* that is still wanted: here a question carries whether seq is still its  *)
(* own. A point stands for its coordinates and its address.                *)
(***************************************************************************)
EXTENDS Naturals, Sequences, FiniteSets

CONSTANTS
  Points,
  Texts,       \* what the customer types, two characters or more
  Empty,       \* no point, no text
  MaxLayers    \* bound: the screens a late answer may pile up

VARIABLES
  layers,      \* M.nav.stack above the page: the picker, From in it, the map
  shown,       \* the picker is on the screen
  sub,         \* st.sub: From is being changed
  pin,         \* st.pinActive
  typed, list, \* the text, and what the list answers: Empty, "searching" or a text
  searching,   \* searchTimer runs
  asks,        \* the searches and addresses on their way
  details,     \* the points whose details are on their way (choose)
  locating,    \* the device's location is on its way (useHere)
  map,         \* "none", "loading" (with what openPin asked for) or "up"
  center,      \* the centre of the map, or where it is moving to
  moving,      \* it is not there yet
  pinTimer,    \* the address will be looked up soon
  pinCenter,   \* st.pinCenter
  pinned,      \* st.pinned, the address the customer reads
  patient      \* the customer waits for details and location

vars == <<layers, shown, sub, pin, typed, list, searching, asks, details, locating,
          map, center, moving, pinTimer, pinCenter, pinned, patient>>
screen == <<layers, shown, sub>>
search == <<typed, list, searching>>
late   == <<details, locating>>
ground == <<map, center, moving>>

Up       == [state |-> "up"]
NoMap    == [state |-> "none"]
Fresh(kind, of) == [kind |-> kind, of |-> of, live |-> TRUE]
\* ++seq.
Outdated == {[a EXCEPT !.live = FALSE] : a \in asks}

Init ==
  /\ layers = <<>> /\ shown = FALSE /\ sub = FALSE /\ pin = FALSE
  /\ typed = Empty /\ list = Empty /\ searching = FALSE
  /\ asks = {} /\ details = {} /\ locating = FALSE
  /\ map = NoMap /\ center = Empty /\ moving = FALSE
  /\ pinTimer = FALSE /\ pinCenter = Empty /\ pinned = Empty
  /\ patient \in BOOLEAN

\* The customer does something.
Acts    == patient => details = {} /\ ~locating
OnList  == shown /\ ~pin /\ Acts
OnMap   == shown /\ pin /\ Acts

Push(layer) == Len(layers) < MaxLayers /\ layers' = Append(layers, layer)
DropLayers(n) == layers' = SubSeq(layers, 1, IF Len(layers) > n THEN Len(layers) - n ELSE 0)

\* configure: the list as it begins.
Configure ==
  /\ pin' = FALSE /\ asks' = Outdated
  /\ pinTimer' = FALSE /\ searching' = FALSE
  /\ typed' = Empty /\ list' = Empty

----------------------------------------------------------------------------
\* M.pickPlace.
PickPlace ==
  /\ ~shown /\ Acts
  /\ shown' = TRUE /\ sub' = FALSE
  /\ Configure
  /\ pinned' = Empty /\ pinCenter' = Empty
  /\ Push("picker")
  /\ UNCHANGED <<late, ground, patient>>

\* changeFrom, while a drop is picked.
ChangeFrom ==
  /\ OnList /\ ~sub
  /\ sub' = TRUE
  /\ Configure
  /\ pinned' = Empty /\ pinCenter' = Empty
  /\ Push("from")
  /\ UNCHANGED <<shown, late, ground, patient>>

\* M.nav.back: the closer of the top screen.
GoBack ==
  /\ layers # <<>> /\ Acts
  /\ DropLayers(1)
  /\ CASE layers[Len(layers)] = "picker" ->
            shown' = FALSE /\ UNCHANGED <<sub, pin, asks, pinTimer, search>>
       [] layers[Len(layers)] = "from" ->
            sub' = FALSE /\ Configure /\ UNCHANGED shown
       [] layers[Len(layers)] = "map" ->   \* closePin
            pin' = FALSE /\ asks' = Outdated /\ pinTimer' = FALSE /\ UNCHANGED <<shown, sub, search>>
  /\ UNCHANGED <<late, ground, pinCenter, pinned, patient>>

\* finish: a From returns to the drop, anything else to the page.
Finish(depth) ==
  /\ DropLayers(depth)
  /\ IF sub THEN sub' = FALSE /\ Configure /\ UNCHANGED shown
     ELSE /\ shown' = FALSE
          /\ pin' = FALSE /\ asks' = Outdated /\ pinTimer' = FALSE /\ searching' = FALSE
          /\ UNCHANGED <<sub, typed, list>>
  /\ UNCHANGED <<late, ground, pinCenter, pinned, patient>>

----------------------------------------------------------------------------
(* Searching.                                                              *)

\* onType; an empty text shows the saved and the recent places again.
Type(text) ==
  /\ OnList
  /\ typed' = text
  /\ asks' = Outdated
  /\ searching' = (text # Empty)
  /\ list' = IF text = Empty THEN Empty ELSE "searching"
  /\ UNCHANGED <<screen, pin, late, ground, pinTimer, pinCenter, pinned, patient>>

Search ==
  /\ searching
  /\ searching' = FALSE
  /\ asks' = Outdated \union {Fresh("search", typed)}
  /\ UNCHANGED <<screen, pin, typed, list, late, ground, pinTimer, pinCenter, pinned, patient>>

\* Results or an error, in the list.
Found(a) ==
  /\ a \in asks /\ a.kind = "search"
  /\ asks' = asks \ {a}
  /\ list' = IF a.live THEN a.of ELSE list
  /\ UNCHANGED <<screen, pin, typed, searching, late, ground, pinTimer, pinCenter, pinned, patient>>

\* A saved address is an answer by itself.
TakeSaved ==
  /\ OnList /\ list = Empty
  /\ Finish(1)

----------------------------------------------------------------------------
(* The pin.                                                                *)

\* openPin, at a point with an address or at a bare one (lookup).
OpenPin(p, lookup) ==
  /\ asks' = Outdated /\ searching' = FALSE
  /\ pin' = TRUE
  /\ Push("map")
  /\ pinned' = IF lookup THEN Empty ELSE p
  /\ pinCenter' = p
  /\ IF map = Up
       THEN /\ center' = p
            /\ moving' = (moving \/ p # center)
            /\ pinTimer' = lookup
            /\ UNCHANGED map
       ELSE /\ map' = [state |-> "loading", at |-> p,
                       lookup |-> lookup \/ (map.state = "loading" /\ map.lookup)]
            /\ pinTimer' = FALSE
            /\ UNCHANGED <<center, moving>>
  /\ UNCHANGED <<shown, sub, typed, list, patient>>

\* A recent place, or a result that has its coordinates.
ChooseKnown(p) == OnList /\ OpenPin(p, FALSE) /\ UNCHANGED late
\* "Locate on map", from wherever the map would begin.
ChooseOnMap(p) == OnList /\ OpenPin(p, TRUE) /\ UNCHANGED late

\* A result without coordinates.
Choose(p) ==
  /\ OnList /\ list \in Texts
  /\ details' = details \union {p}
  /\ UNCHANGED <<screen, pin, search, asks, locating, ground, pinTimer, pinCenter, pinned, patient>>
UseHere ==
  /\ OnList
  /\ locating' = TRUE
  /\ UNCHANGED <<screen, pin, search, asks, details, ground, pinTimer, pinCenter, pinned, patient>>

\* Their answers open the map wherever the customer is by now; errors do nothing.
DetailsCome(p) == p \in details /\ details' = details \ {p} /\ OpenPin(p, FALSE) /\ UNCHANGED locating
HereComes(p)   == locating /\ locating' = FALSE /\ OpenPin(p, TRUE) /\ UNCHANGED details
LateFails ==
  /\ details # {} \/ locating
  /\ details' = {} /\ locating' = FALSE
  /\ UNCHANGED <<screen, pin, search, asks, ground, pinTimer, pinCenter, pinned, patient>>

\* lookupCenter at point c.
Lookup(c) ==
  /\ pinCenter' = c /\ pinned' = Empty
  /\ asks' = Outdated \union {Fresh("address", c)}

\* The map library is there (for every openPin that waited for it), or is not.
MapLoads ==
  /\ map.state = "loading"
  /\ map' = Up
  /\ center' = map.at /\ moving' \in BOOLEAN
  /\ IF pin /\ (map.lookup \/ pinned = Empty) THEN Lookup(map.at)
     ELSE UNCHANGED <<asks, pinCenter, pinned>>
  /\ UNCHANGED <<screen, pin, search, late, pinTimer, patient>>

MapFails ==
  /\ map.state = "loading"
  /\ map' = NoMap
  /\ pinned' = IF pin THEN Empty ELSE pinned
  /\ UNCHANGED <<screen, pin, search, asks, late, center, moving, pinTimer, pinCenter, patient>>

\* The customer drags the map, or sends it to the device's location (pk-locate).
Move(p) ==
  /\ OnMap /\ map = Up
  /\ center' = p /\ moving' = TRUE
  /\ UNCHANGED <<screen, pin, search, asks, late, map, pinTimer, pinCenter, pinned, patient>>

\* Slip: the address stays until its successor comes.
IdleKeeping ==
  /\ moving
  /\ moving' = FALSE
  /\ IF pin /\ center # pinCenter
       THEN /\ pinCenter' = center
            /\ asks' = Outdated /\ pinTimer' = TRUE
       ELSE UNCHANGED <<pinCenter, asks, pinTimer>>
  /\ UNCHANGED <<screen, pin, search, late, map, center, pinned, patient>>

\* The map has stopped.
Idle ==
  /\ moving
  /\ moving' = FALSE
  /\ IF pin /\ center # pinCenter
       THEN /\ pinCenter' = center /\ pinned' = Empty
            /\ asks' = Outdated /\ pinTimer' = TRUE
       ELSE UNCHANGED <<pinCenter, pinned, asks, pinTimer>>
  /\ UNCHANGED <<screen, pin, search, late, map, center, patient>>

\* lookupCenter on its timer, at a centre that may still be moving.
LookupCenter ==
  /\ pinTimer
  /\ pinTimer' = FALSE
  /\ \E c \in IF moving THEN Points ELSE {center} :
       IF map = Up /\ pin THEN Lookup(c) ELSE UNCHANGED <<asks, pinCenter, pinned>>
  /\ UNCHANGED <<screen, pin, search, late, ground, patient>>

\* Slip: the last answer wins.
WantedAny(a) == TRUE
Wanted(a) == a.live

\* An address, or none (showPinError).
AddressComes(a) ==
  /\ a \in asks /\ a.kind = "address"
  /\ asks' = asks \ {a}
  /\ pinned' \in IF Wanted(a) THEN {a.of, Empty} ELSE {pinned}
  /\ UNCHANGED <<screen, pin, search, late, ground, pinTimer, pinCenter, patient>>

\* confirm: the address, at the coordinates the map has at that moment.
Confirm ==
  /\ OnMap /\ pinned # Empty
  /\ Finish(2)

Next ==
  \/ PickPlace \/ ChangeFrom \/ GoBack \/ Search \/ TakeSaved \/ UseHere \/ LateFails
  \/ MapLoads \/ MapFails \/ Idle \/ LookupCenter \/ Confirm
  \/ \E text \in Texts \union {Empty} : Type(text)
  \/ \E a \in asks : Found(a) \/ AddressComes(a)
  \/ \E p \in Points : ChooseKnown(p) \/ ChooseOnMap(p) \/ Choose(p) \/ DetailsCome(p)
                       \/ HereComes(p) \/ Move(p)

----------------------------------------------------------------------------
(* Properties.                                                             *)

\* lookupCenter and the idle listener: when the map is at rest, the address above the
\* button is the address of the pin, however late the answers and the map were.
AddressOfThePin == pin /\ map = Up /\ ~moving /\ pinned # Empty => pinned = center

\* search: the results below a text are the results for that text.
ResultsOfTheText == list \in Texts => list = typed

\* M.nav: for a customer who waits for an answer, back closes the screens they see, in
\* the order they see them.
BackClosesWhatIsSeen ==
  patient => layers = (IF shown THEN <<"picker">> ELSE <<>>)
                      \o (IF shown /\ sub THEN <<"from">> ELSE <<>>)
                      \o (IF shown /\ pin THEN <<"map">> ELSE <<>>)

PickerAgrees == AddressOfThePin /\ ResultsOfTheText /\ BackClosesWhatIsSeen
=============================================================================
