------------------------------- MODULE Orders -------------------------------
(***************************************************************************)
(* Two of the ways an order comes in: the company's API                    *)
(* (TripCreateSerializer, TripViewSet.create) and book_test_trip, the      *)
(* command that books orders to walk through the app with.  Both decide    *)
(* what a driver will be asked for before create_trip stores the order and *)
(* matches it.  The command picks a driver first, places the order where   *)
(* they are, and adds the customer and the voice note in writes of their   *)
(* own.  create_trip itself is in TripLifecycle; here it is one step that  *)
(* leaves an order and its driver.  Drivers all drive vehicles of the type *)
(* that is ordered.                                                        *)
(***************************************************************************)
EXTENDS Naturals

CONSTANTS
  Drivers,
  Usual,        \* DEFAULT_DRIVER
  Places,       \* where drivers are, all within the matching radius of each other
  Start,        \* where they are at first, on no trip
  Count,        \* --count: orders the command is asked for
  MaxTurns,     \* bound: what others do meanwhile
  Nobody        \* no driver, no place, no order

VARIABLES
  duty,      \* per driver: on duty, last known place, would be matched, on another trip
  taken,     \* drivers with one of these orders
  order,     \* the latest order, as it was stored
  command,   \* book_test_trip: its step, its options, the driver's row as it was read
  turns      \* what others did so far

vars == <<duty, taken, order, command, turns>>

Rows == [online : BOOLEAN, place : Places \union {Nobody}, eligible : BOOLEAN, busy : BOOLEAN]

Init ==
  /\ duty \in [Drivers -> {row \in Rows : row.place \in {Start, Nobody} /\ ~row.busy}]
  /\ taken = {} /\ order = Nobody /\ turns = 0
  /\ \E named \in Drivers \union {Nobody} :
       command = [step |-> "driver", named |-> named, left |-> Count,
                  driver |-> Nobody, place |-> Nobody, since |-> 0]

----------------------------------------------------------------------------
(* What an order asks of its driver: of its items a list to tick off, or   *)
(* photos, at the pickup or at the drop (one of these at a time, to keep   *)
(* the orders few), and the customer's code.                               *)

\* Slip: only the list to tick off is looked at.
NeedsItemsTicked(o) == o.proof = "list"

\* Item checks and photos of items need items.
NeedsItems(o) == o.proof \in {"list", "photos"}

\* TripCreateSerializer.validate: and a code needs a number to go to.
Valid(o) == (o.otp => o.phone) /\ (NeedsItems(o) => o.items)

ApiForms == [items : BOOLEAN, proof : {"none", "list", "photos"}, otp : BOOLEAN, phone : BOOLEAN]

\* What the command's options come to: there is always a number.
CommandForms == {o \in ApiForms : o.phone}

----------------------------------------------------------------------------
(* create_trip: the nearest driver who is on duty, free and eligible.      *)

Free(d)   == ~duty[d].busy /\ d \notin taken
OnDuty    == {d \in Drivers : duty[d].online /\ duty[d].place # Nobody /\ Free(d)}
Found     == {d \in OnDuty : duty[d].eligible}
Here(p)   == {d \in Found : duty[d].place = p}
Nearest(p) == IF Here(p) # {} THEN Here(p) ELSE Found

\* The order as it is stored: what it asks for, how it was made, its driver, and what the
\* command writes later.
Stored(o, made, d) == [asks |-> o, made |-> made, driver |-> d, customer |-> FALSE, voice |-> FALSE]

\* Nobody found: the order waits.
Create(o, made, p) ==
  \/ Found = {} /\ order' = Stored(o, made, Nobody) /\ UNCHANGED taken
  \/ \E d \in Nearest(p) : order' = Stored(o, made, d) /\ taken' = taken \union {d}

ByApi     == [by |-> "api", for |-> Nobody, free |-> {}, quiet |-> FALSE]
ByCommand == [by |-> "command", for |-> command.driver, free |-> OnDuty, quiet |-> command.since = turns]

\* POST /trips.
ApiOrder(o, p) ==
  /\ turns < MaxTurns
  /\ Valid(o)
  /\ Create(o, ByApi, p)
  /\ turns' = turns + 1
  /\ UNCHANGED <<duty, command>>

----------------------------------------------------------------------------
(* The command.                                                            *)

Step(s) == command.step = s
OnTo(s) == command' = [command EXCEPT !.step = s]

\* _vehicle and _pickup: the order goes where the driver was last seen.
Placed(d) == [step |-> IF duty[d].place = Nobody THEN "CommandError" ELSE "customer", named |-> command.named,
              left |-> command.left, driver |-> d, place |-> duty[d].place, since |-> turns]

\* _driver: the row is read once, for all of this.
Use(d) == IF duty[d].online THEN command' = Placed(d) ELSE OnTo("CommandError")

\* Slip: whether the usual driver is on a trip is not looked at.
UsualServesBusy == duty[Usual].online

\* The usual driver's row and trips.
UsualServes == duty[Usual].online /\ Free(Usual)

\* A number was given, or nobody in particular is wanted.
PickDriver ==
  /\ Step("driver")
  /\ IF command.named # Nobody THEN Use(command.named)
     ELSE IF UsualServes THEN Use(Usual) ELSE OnTo("any")
  /\ UNCHANGED <<duty, taken, order, turns>>

\* _any_driver_on_duty, else the usual driver after all.
AnyDriver ==
  /\ Step("any")
  /\ IF OnDuty = {} THEN Use(Usual) ELSE \E d \in OnDuty : Use(d)
  /\ UNCHANGED <<duty, taken, order, turns>>

\* _customer: get_or_create, a transaction of its own.
Customer ==
  /\ Step("customer") /\ OnTo("book")
  /\ UNCHANGED <<duty, taken, order, turns>>

Book(o) ==
  /\ Step("book")
  /\ IF NeedsItems(o) /\ ~o.items
     THEN OnTo("CommandError") /\ UNCHANGED <<taken, order>>
     ELSE /\ OnTo("save")
          /\ Create(o, ByCommand, command.place)
  /\ UNCHANGED <<duty, turns>>

\* The driver lost the vehicle, routing is down or the voice note cannot be stored: what
\* was written stays.
Fails ==
  /\ command.step \in {"customer", "book", "voice"}
  /\ OnTo("CommandError")
  /\ UNCHANGED <<duty, taken, order, turns>>

\* The row the command holds, saved by its two columns.
Saves(saved, next) ==
  /\ order' = IF order.made.by = "command" THEN saved ELSE order
  /\ command' = next
  /\ UNCHANGED <<duty, taken, turns>>

\* With or without --customer.
SaveCustomer(wanted) == Step("save") /\ Saves([order EXCEPT !.customer = wanted], [command EXCEPT !.step = "voice"])

\* _attach_voice_note, or --no-voice-note; then the next order of --count.
AttachVoiceNote(wanted) ==
  /\ Step("voice")
  /\ Saves([order EXCEPT !.voice = wanted],
           [step |-> IF command.left > 1 THEN "driver" ELSE "done", named |-> command.named,
            left |-> command.left - 1, driver |-> Nobody, place |-> Nobody, since |-> command.since])

\* Others: a driver goes on or off duty, gets or ends another trip, drives on.
Turn(d, row) ==
  /\ turns < MaxTurns
  /\ duty' = [duty EXCEPT ![d] = row]
  /\ turns' = turns + 1
  /\ UNCHANGED <<taken, order, command>>

Next ==
  \/ \E o \in ApiForms, p \in Places : ApiOrder(o, p)
  \/ PickDriver \/ AnyDriver \/ Customer \/ Fails
  \/ \E o \in CommandForms : Book(o)
  \/ \E wanted \in BOOLEAN : SaveCustomer(wanted) \/ AttachVoiceNote(wanted)
  \/ \E d \in Drivers : \/ Turn(d, [duty[d] EXCEPT !.online = ~@])
                        \/ Turn(d, [duty[d] EXCEPT !.busy = ~@])
                        \/ \E p \in Places \ {duty[d].place} : Turn(d, [duty[d] EXCEPT !.place = p])

----------------------------------------------------------------------------
(* Properties.                                                             *)

\* validate and _book_one: no order asks for proof of items it does not have, nor for a
\* code that goes nowhere, whichever way it came in.
AsksForWhatThereIs ==
  order # Nobody => /\ order.asks.proof # "none" => order.asks.items
                    /\ order.asks.otp => order.asks.phone

\* book_test_trip, "on duty and free": with no driver named, an order is placed where
\* somebody is free whenever somebody is, if nothing changed since the driver was read.
PlacedWhereSomebodyIsFree ==
  order # Nobody /\ command.named = Nobody =>
    (order.made.by = "command" /\ order.made.quiet /\ order.made.free # {} => order.made.for \in order.made.free)

OrdersHold == AsksForWhatThereIs /\ PlacedWhereSomebodyIsFree
=============================================================================
