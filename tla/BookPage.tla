------------------------------ MODULE BookPage ------------------------------
(***************************************************************************)
(* The booking page (booking/static/booking/home.js): a pickup and a drop, *)
(* the review of the trip between them with the vehicles and their fares,  *)
(* and the place picker, a screen of its own on top (inside: PlacePicker). *)
(* Fares come from the server, late or never, for the places they were     *)
(* asked for.                                                              *)
(***************************************************************************)
EXTENDS Naturals

CONSTANTS
  Places,
  Nowhere,    \* JavaScript's null
  MaxAsked    \* bound: the times the fares are asked for

VARIABLES
  from, to,   \* state.pickup and state.drop
  finding,    \* startPickup waits for the device's location
  review,     \* the review is open
  picker,     \* what the picker on top is picking, and whether it changed From
  seq,        \* optionsSeq
  asked,      \* the answers not seen yet: their number and the trip they are for
  failed,     \* the number of the question that failed last
  fare,       \* the trip that state.chosen's fare is for
  booking     \* the trip last sent to api_book and the trip its fare was for

vars == <<from, to, finding, review, picker, seq, asked, failed, fare, booking>>
rest == <<finding, failed, booking>>

Points == Places \union {Nowhere}
NoPicker == [mode |-> "closed", changed |-> FALSE]
Picking(mode) == [mode |-> mode, changed |-> FALSE]
NoBooking == [trip |-> Nowhere, fare |-> Nowhere]

\* "Book again" opens the review of the earlier trip at once.
Init ==
  /\ picker = NoPicker
  /\ fare = Nowhere /\ failed = 0 /\ booking = NoBooking
  /\ \/ /\ from \in Points /\ to = Nowhere
        /\ finding = (from = Nowhere)
        /\ review = FALSE /\ seq = 0 /\ asked = {}
     \/ /\ from \in Places /\ to \in Places
        /\ finding = FALSE /\ review = TRUE
        /\ seq = 1 /\ asked = {[n |-> 1, trip |-> <<from, to>>]}

\* loadOptions: what was chosen is forgotten and the fares are asked for.
LoadOptions(p, d) ==
  /\ seq < MaxAsked
  /\ seq' = seq + 1
  /\ asked' = asked \union {[n |-> seq', trip |-> <<p, d>>]}
  /\ fare' = Nowhere

\* openReview, with pickup p and drop d.
OpenReview(p, d) ==
  IF p = Nowhere \/ d = Nowhere THEN UNCHANGED <<review, seq, asked, fare>>
  ELSE review' = TRUE /\ LoadOptions(p, d)

AtHome   == picker = NoPicker /\ ~review
OnReview == picker = NoPicker /\ review

----------------------------------------------------------------------------
\* startPickup's answer does not replace a pickup; failing, the customer chooses.
Locate(p) ==
  /\ finding
  /\ finding' = FALSE
  /\ from' = IF from = Nowhere THEN p ELSE from
  /\ UNCHANGED <<to, review, picker, seq, asked, failed, fare, booking>>

\* Choosing a drop without a pickup starts with the pickup ("first").
OpenPicker(mode) ==
  /\ picker = NoPicker
  /\ CASE mode = "pickup" -> TRUE
       [] mode = "first"  -> from = Nowhere
       [] mode = "drop"   -> from # Nowhere
  /\ picker' = Picking(mode)
  /\ UNCHANGED <<from, to, review, seq, asked, fare, rest>>

\* choosePickup, from home or from the review.
PickPickup(p) ==
  /\ picker.mode \in {"pickup", "first"}
  /\ from' = p
  /\ IF picker.mode = "first" THEN picker' = Picking("drop") /\ UNCHANGED <<review, seq, asked, fare>>
     ELSE /\ picker' = NoPicker
          /\ IF review THEN OpenReview(p, to) ELSE UNCHANGED <<review, seq, asked, fare>>
  /\ UNCHANGED <<to, rest>>

\* onFrom: the picker of the drop lets the pickup be changed, under the review.
ChangeFrom(p) ==
  /\ picker.mode = "drop"
  /\ from' = p
  /\ picker' = [picker EXCEPT !.changed = TRUE]
  /\ UNCHANGED <<to, review, seq, asked, fare, rest>>

PickDrop(p) ==
  /\ picker.mode = "drop"
  /\ to' = p
  /\ picker' = NoPicker
  /\ OpenReview(from, p)
  /\ UNCHANGED <<from, rest>>

\* Slip: nothing is loaded again when no drop is picked.
LeavePickerPlain ==
  /\ picker # NoPicker
  /\ picker' = NoPicker
  /\ UNCHANGED <<from, to, review, seq, asked, fare, rest>>

\* Back out of the picker; a From that was changed under the review is looked at again.
LeavePicker ==
  /\ picker # NoPicker
  /\ picker' = NoPicker
  /\ IF picker.changed /\ review THEN OpenReview(from, to) ELSE UNCHANGED <<review, seq, asked, fare>>
  /\ UNCHANGED <<from, to, rest>>

\* A saved or a recent address is a drop by itself.
QuickDrop(p) ==
  /\ AtHome
  /\ to' = p
  /\ OpenReview(from, p)
  /\ UNCHANGED <<from, picker, rest>>

CloseReview ==
  /\ OnReview
  /\ review' = FALSE
  /\ UNCHANGED <<from, to, picker, seq, asked, fare, rest>>

----------------------------------------------------------------------------
\* Slip: the answers are taken as they come.
CurrentAny(a) == TRUE
Current(a) == a.n = seq

\* The server priced the trip it was asked about and a vehicle is chosen for the
\* customer, or there is none.
Priced(a) ==
  /\ a \in asked
  /\ asked' = asked \ {a}
  /\ fare' \in IF Current(a) THEN {a.trip, Nowhere} ELSE {fare}
  /\ UNCHANGED <<from, to, review, picker, seq, rest>>

AskFails(a) ==
  /\ a \in asked
  /\ asked' = asked \ {a}
  /\ failed' = IF Current(a) THEN seq ELSE failed
  /\ UNCHANGED <<from, to, finding, review, picker, seq, fare, booking>>

\* "Try again", when it was the last question that failed.
Retry ==
  /\ OnReview /\ failed = seq
  /\ LoadOptions(from, to)
  /\ UNCHANGED <<from, to, review, picker, rest>>

\* api_book; refused or not answered, the page stays as it is.
Book ==
  /\ OnReview /\ fare # Nowhere
  /\ booking' = [trip |-> <<from, to>>, fare |-> fare]
  /\ UNCHANGED <<from, to, finding, review, picker, seq, asked, failed, fare>>

Next ==
  \/ \E p \in Places : Locate(p) \/ PickPickup(p) \/ ChangeFrom(p) \/ PickDrop(p) \/ QuickDrop(p)
  \/ \E mode \in {"pickup", "first", "drop"} : OpenPicker(mode)
  \/ LeavePicker \/ CloseReview \/ Retry \/ Book
  \/ \E a \in asked : Priced(a) \/ AskFails(a)

----------------------------------------------------------------------------
(* Properties.                                                             *)

\* loadOptions and book: however late the fares come and wherever the places were
\* changed, the fare the customer agrees to is the fare of the trip that is booked.
BookedAtItsFare == booking.trip = booking.fare
=============================================================================
