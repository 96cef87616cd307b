------------------------------ MODULE BookTrip ------------------------------
(***************************************************************************)
(* Whose a booking is: TripService.create_trip commits a trip, its driver  *)
(* looked for already, and the code around it stores the customer (and the *)
(* test command a voice note) in saves of their own, from a copy that is   *)
(* old by then (booking/services.py, book_test_trip.py).  How the trip     *)
(* goes on is TripLifecycle's, here Advance; the customer may cancel it.   *)
(***************************************************************************)
CONSTANT Nothing   \* no copy

VARIABLES
  trip,     \* the row: its status, whether it has its customer and its voice note
  booker,   \* what the process that books has left to do, and the status of its copy
  leaving   \* the status api_cancel read, Nothing when it is not called

vars == <<trip, booker, leaving>>

Searching   == {"requested", "no_driver_available"}
Cancellable == Searching \union {"assigned", "arrived_at_pickup"}   \* CUSTOMER_CANCELLABLE
Final       == {"completed", "cancelled"}

Booked(status) == [status |-> status, customer |-> FALSE, voice |-> FALSE]
Done           == [left |-> {}, copy |-> "none"]

Init ==
  /\ trip = Booked("none")
  /\ booker = Done
  /\ leaving = Nothing

\* What is left after create_trip: nothing for the company's own API, the customer for
\* the booking page, either or both for the test command.
Book(left) ==
  /\ trip.status = "none"
  /\ \E found \in {"assigned", "no_driver_available"} :
       /\ trip' = Booked(found)
       /\ booker' = [left |-> left, copy |-> found]
  /\ UNCHANGED leaving

Finished(what) ==
  booker' = IF booker.left = {what} THEN Done ELSE [booker EXCEPT !.left = @ \ {what}]

\* Slip: save() without update_fields.
StoreCustomerWhole ==
  /\ "customer" \in booker.left
  /\ trip' = [trip EXCEPT !.customer = TRUE, !.status = booker.copy]
  /\ Finished("customer")
  /\ UNCHANGED leaving

\* trip.save(update_fields=["customer", "updated_at"]).
StoreCustomer ==
  /\ "customer" \in booker.left
  /\ trip' = [trip EXCEPT !.customer = TRUE]
  /\ Finished("customer")
  /\ UNCHANGED leaving

\* _attach_voice_note, after the customer.
StoreVoiceNote ==
  /\ booker.left = {"voice"}
  /\ trip' = [trip EXCEPT !.voice = TRUE]
  /\ Finished("voice")
  /\ UNCHANGED leaving

\* The process dies and the trip stays nobody's.
Die ==
  /\ booker # Done
  /\ booker' = Done
  /\ UNCHANGED <<trip, leaving>>

After(status) ==
  CASE status = "no_driver_available" -> {"assigned", "cancelled"}
    [] status = "assigned"            -> {"arrived_at_pickup", "cancelled"}
    [] status = "arrived_at_pickup"   -> {"in_progress", "cancelled"}
    [] status = "in_progress"         -> {"completed"}
    [] OTHER                          -> {}

Advance ==
  /\ \E next \in After(trip.status) : trip' = [trip EXCEPT !.status = next]
  /\ UNCHANGED <<booker, leaving>>

\* api_cancel finds only a trip that has its customer.
CancelFetch ==
  /\ leaving = Nothing /\ trip.customer /\ trip.status \in Cancellable
  /\ leaving' = trip.status
  /\ UNCHANGED <<trip, booker>>

\* cancel_trip writes from the copy, without looking again.
CancelWrite ==
  /\ leaving # Nothing
  /\ trip' = [trip EXCEPT !.status = "cancelled"]
  /\ leaving' = Nothing
  /\ UNCHANGED booker

Next ==
  \/ \E left \in SUBSET {"customer", "voice"} : Book(left)
  \/ StoreCustomer \/ StoreVoiceNote \/ Die
  \/ Advance \/ CancelFetch \/ CancelWrite

----------------------------------------------------------------------------
(* Properties.                                                             *)

\* book and book_test_trip: storing whose the trip is undoes nothing a driver or the
\* dispatcher did since it was booked.
BookingKept ==
  [][trip.status \notin Searching \union {"none"} => trip'.status \notin Searching]_vars
=============================================================================
