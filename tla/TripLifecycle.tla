--------------------------- MODULE TripLifecycle ---------------------------
(***************************************************************************)
(* The trip table of trips/models.py under the request handlers of          *)
(* trips/services.py.  Outside the few blocks that open a transaction every *)
(* ORM call commits on its own: a handler reads the trip row, decides on    *)
(* that copy, and later writes some columns back without looking again.     *)
(* Each web worker therefore holds the request it is serving in `req`, and  *)
(* every database or cache access of a handler is one step of its worker.   *)
(*                                                                         *)
(* A step named ...Fetch is the read of the trip row together with the      *)
(* decisions the handler takes on that copy; a request those refuse changes *)
(* nothing and is not represented.                                          *)
(***************************************************************************)
EXTENDS Naturals, Sequences, FiniteSets

CONSTANTS
  Trips,      \* trip ids
  Drivers,    \* driver ids
  Workers,    \* web workers, each serving one request at a time
  Items,      \* the goods lines of a trip (the same set for every trip)
  LastStop,   \* position of the final drop; 0 is the pickup
  Bookings,   \* what companies and customers may ask for
  None,       \* SQL NULL
  WholeOrder  \* the subject of a photo that shows no single item

Stages   == {"pickup", "delivery"}
Subjects == Items \union {WholeOrder}
Photos   == Stages \X Subjects

\* The columns of a trip that are set once at booking.  `photos` is what the
\* modes none / order / per_item / both of the two stages ask for; `earns` is FALSE
\* when the driver's share of the fare and the bonus round to nothing.
Booking == [cod: BOOLEAN, otp: BOOLEAN, verify: BOOLEAN, earns: BOOLEAN, photos: SUBSET Photos]

ASSUME LastStopAssumption == LastStop \in Nat \ {0}
ASSUME BookingsAssumption == Bookings \subseteq Booking
ASSUME NoneAssumption     == None \notin Drivers /\ None # "online" /\ "online" \notin Drivers
ASSUME SubjectAssumption  == WholeOrder \notin Items

VARIABLES
  book,       \* trip -> its booking
  status,     \* trip -> Trip.status, "absent" before the row is committed
  driver,     \* trip -> Trip.driver
  payment,    \* trip -> Trip.payment_status
  reference,  \* trip -> Trip.payment_reference: None, "online" (blank if the provider
              \* cannot verify) or, for cash, the driver
  provider,   \* trip -> Trip.payment_provider: "none", "qr" or "cash"
  item,       \* trip -> item -> TripItem.status
  photo,      \* trip -> photos with a URL, on the trip row or an item row
  stop,       \* trip -> position -> TripStop.status
  cache,      \* trip -> the cache keys of its delivery OTP that are alive
  ledger,     \* trip -> the WalletTransaction rows that name it, in order
  req         \* worker -> the request it is serving

tripRow == <<book, status, driver>>
money   == <<payment, reference, provider, cache, ledger>>
goods   == <<item, photo>>
vars    == <<tripRow, money, goods, stop, req>>

TripStatus      == {"absent", "requested", "no_driver_available", "assigned",
                    "arrived_at_pickup", "in_progress", "completed", "cancelled"}
ActiveTrip      == {"requested", "assigned", "arrived_at_pickup", "in_progress"}
\* Slip: a trip under way can still be cancelled.
CancellableUnderWay == {"requested", "no_driver_available", "assigned", "arrived_at_pickup", "in_progress"}
Cancellable     == {"requested", "no_driver_available", "assigned", "arrived_at_pickup"}
\* Slip: a dispatcher may also move a trip that is under way.
AssignableUnderWay == {"requested", "no_driver_available", "assigned", "in_progress"}
Assignable      == {"requested", "no_driver_available", "assigned"}
StopPositions   == 0 .. LastStop
InBetween       == StopPositions \ {0, LastStop}
Entry           == [kind: {"trip_earning", "cod_cash"}, driver: Drivers]

Init ==
  /\ book \in [Trips -> Bookings]
  /\ status    = [t \in Trips |-> "absent"]
  /\ driver    = [t \in Trips |-> None]
  /\ payment   = [t \in Trips |-> "pending"]
  /\ reference = [t \in Trips |-> None]
  /\ provider  = [t \in Trips |-> "none"]
  /\ item      = [t \in Trips |-> [i \in Items |-> "pending"]]
  /\ photo     = [t \in Trips |-> {}]
  /\ stop      = [t \in Trips |-> [p \in StopPositions |-> "pending"]]
  /\ cache     = [t \in Trips |-> {}]
  /\ ledger    = [t \in Trips |-> <<>>]
  /\ req       = [w \in Workers |-> [op |-> "idle", trip |-> None, driver |-> None, arg |-> None]]

----------------------------------------------------------------------------
(* The request a worker is serving.  `op` names the next step of the handler, *)
(* the other fields what it still remembers of the copy it read.              *)

Idle == [op |-> "idle", trip |-> None, driver |-> None, arg |-> None]

Begin(w, op, t, d, x) ==
  /\ req[w] = Idle
  /\ req' = [req EXCEPT ![w] = [op |-> op, trip |-> t, driver |-> d, arg |-> x]]

\* A driver's request: the view looks the trip up by pk and driver.
DriverBegin(w, op, t, x) == driver[t] # None /\ Begin(w, op, t, driver[t], x)

\* The handler goes on to its next step.
Become(w, op, d, x) ==
  req' = [req EXCEPT ![w] = [op |-> op, trip |-> req[w].trip, driver |-> d, arg |-> x]]
Then(w, op) == Become(w, op, req[w].driver, req[w].arg)
Return(w)   == req' = [req EXCEPT ![w] = Idle]

\* The request ends between two steps: a later check refuses it, a live payment
\* code is returned as it is, or the worker dies and its open transaction rolls back.
Abort(w) ==
  /\ req[w].op # "idle"
  /\ Return(w)
  /\ UNCHANGED <<tripRow, money, goods, stop>>

----------------------------------------------------------------------------
(* What the handlers ask of the database.                                    *)

\* Slip: a driver waiting at a pickup counts as free.
BusyUnlessArrived(d, t) ==
  \E u \in Trips \ {t} : status[u] \in ActiveTrip \ {"arrived_at_pickup"} /\ driver[u] = d

\* MatchingService: drivers on another active trip are excluded.
Busy(d, t) == \E u \in Trips \ {t} : status[u] \in ActiveTrip /\ driver[u] = d

ItemsAnswered(t) == book[t].verify => \A i \in Items : item[t][i] # "pending"

\* The whole-order photo is a column of the copy that was read; the item photos
\* are looked up when they are checked.
OrderPhotoTaken(t, stage) ==
  <<stage, WholeOrder>> \in book[t].photos => <<stage, WholeOrder>> \in photo[t]
ItemPhotosTaken(t, stage) ==
  \A i \in Items : <<stage, i>> \in book[t].photos => <<stage, i>> \in photo[t]

StopsFinished(t) == \A p \in InBetween : stop[t][p] = "done"

NeedsOtp(t) == book[t].cod \/ book[t].otp

\* The fare itself is never nothing: a fare card without a minimum takes no bookings.
Worth(t, kind) == kind = "trip_earning" => book[t].earns

Entered(t, kind) == \E n \in 1 .. Len(ledger[t]) : ledger[t][n].kind = kind

\* Slip: neither the look for an existing row nor the unique constraint.
EnterAgain(t, kind, d) ==
  IF d = None \/ ~Worth(t, kind)
  THEN ledger
  ELSE [ledger EXCEPT ![t] = Append(@, [kind |-> kind, driver |-> d])]

\* WalletService: one row of a kind per trip, none when there is nothing to pay.
Enter(t, kind, d) ==
  IF d = None \/ ~Worth(t, kind) \/ Entered(t, kind)
  THEN ledger
  ELSE [ledger EXCEPT ![t] = Append(@, [kind |-> kind, driver |-> d])]

----------------------------------------------------------------------------
(* Booking and matching.                                                     *)

\* create_trip is one transaction: its row is invisible until it commits, after
\* the matching query.  The trip id is fresh.
CreateMatch(w, t) ==
  /\ status[t] = "absent"
  /\ \A v \in Workers : req[v].op = "create" => req[v].trip # t
  /\ \E d \in Drivers \union {None} :
       /\ d # None => ~Busy(d, t)
       /\ Begin(w, "create", t, d, None)
  /\ UNCHANGED <<tripRow, money, goods, stop>>

\* Slip: the payment modes are swapped.
CreateCommitSwapped(w) ==
  LET t == req[w].trip
      d == req[w].driver IN
  /\ req[w].op = "create"
  /\ status'  = [status EXCEPT ![t] = IF d = None THEN "no_driver_available" ELSE "assigned"]
  /\ driver'  = [driver EXCEPT ![t] = d]
  /\ payment' = [payment EXCEPT ![t] = IF book[t].cod THEN "paid" ELSE "pending"]
  /\ Return(w)
  /\ UNCHANGED <<book, reference, provider, cache, ledger, goods, stop>>

CreateCommit(w) ==
  LET t == req[w].trip
      d == req[w].driver IN
  /\ req[w].op = "create"
  /\ status'  = [status EXCEPT ![t] = IF d = None THEN "no_driver_available" ELSE "assigned"]
  /\ driver'  = [driver EXCEPT ![t] = d]
  /\ payment' = [payment EXCEPT ![t] = IF book[t].cod THEN "pending" ELSE "paid"]
  /\ Return(w)
  /\ UNCHANGED <<book, reference, provider, cache, ledger, goods, stop>>

\* Slip: a cancelled trip can be retried.
RetryFetchCancelled(w, t) ==
  /\ status[t] \in {"no_driver_available", "cancelled"}
  /\ Begin(w, "retry", t, None, None)
  /\ UNCHANGED <<tripRow, money, goods, stop>>

RetryFetch(w, t) ==
  /\ status[t] = "no_driver_available"
  /\ Begin(w, "retry", t, None, None)
  /\ UNCHANGED <<tripRow, money, goods, stop>>

AssignFetch(w, t) ==
  /\ status[t] \in Assignable
  /\ Begin(w, "assign", t, None, None)
  /\ UNCHANGED <<tripRow, money, goods, stop>>

\* Only trips decide who is free here: whether a driver is on duty, eligible and
\* near enough is any answer.  A retry may find nobody; a dispatcher's choice must
\* be free.
Match(w) ==
  /\ \/ req[w].op = "retry"  /\ \E d \in Drivers \union {None} :
          (d # None => ~Busy(d, req[w].trip))
          /\ Become(w, "place", d, None)
     \/ req[w].op = "assign" /\ \E d \in Drivers :
          ~Busy(d, req[w].trip)
          /\ Become(w, "place", d, None)
  /\ UNCHANGED <<tripRow, money, goods, stop>>

Place(w) ==
  LET t == req[w].trip
      d == req[w].driver IN
  /\ req[w].op = "place"
  /\ status' = [status EXCEPT ![t] = IF d = None THEN "no_driver_available" ELSE "assigned"]
  /\ driver' = [driver EXCEPT ![t] = IF d = None THEN @ ELSE d]
  /\ Return(w)
  /\ UNCHANGED <<book, money, goods, stop>>

CancelFetch(w, t) ==
  /\ status[t] \in Cancellable
  /\ Begin(w, "cancel", t, None, None)
  /\ UNCHANGED <<tripRow, money, goods, stop>>

CancelWrite(w) ==
  /\ req[w].op = "cancel"
  /\ status' = [status EXCEPT ![req[w].trip] = "cancelled"]
  /\ Return(w)
  /\ UNCHANGED <<book, driver, money, goods, stop>>

----------------------------------------------------------------------------
(* The driver's way from the assignment to the drop.                         *)

ArriveFetch(w, t) ==
  /\ status[t] = "assigned"
  /\ DriverBegin(w, "arrive", t, None)
  /\ UNCHANGED <<tripRow, money, goods, stop>>

ArriveWrite(w) ==
  /\ req[w].op = "arrive"
  /\ status' = [status EXCEPT ![req[w].trip] = "arrived_at_pickup"]
  /\ Become(w, "mark", req[w].driver, "arrived")
  /\ UNCHANGED <<book, driver, money, goods, stop>>

StartFetch(w, t) ==
  /\ status[t] = "arrived_at_pickup"
  /\ OrderPhotoTaken(t, "pickup")
  /\ DriverBegin(w, "start", t, None)
  /\ UNCHANGED <<tripRow, money, goods, stop>>

\* Slip: the delivery starts without the item photos.
StartCheckPhotoless(w) ==
  /\ req[w].op = "start"
  /\ Then(w, "start_ok")
  /\ UNCHANGED <<tripRow, money, goods, stop>>

StartCheck(w) ==
  /\ req[w].op = "start"
  /\ ItemPhotosTaken(req[w].trip, "pickup")
  /\ Then(w, "start_ok")
  /\ UNCHANGED <<tripRow, money, goods, stop>>

StartWrite(w) ==
  /\ req[w].op = "start_ok"
  /\ status' = [status EXCEPT ![req[w].trip] = "in_progress"]
  /\ Become(w, "mark", req[w].driver, "done")
  /\ UNCHANGED <<book, driver, money, goods, stop>>

\* The pickup's own stop row is written after the trip row, not with it.
MarkPickup(w) ==
  /\ req[w].op = "mark"
  /\ stop' = [stop EXCEPT ![req[w].trip][0] = req[w].arg]
  /\ Return(w)
  /\ UNCHANGED <<tripRow, money, goods>>

\* arrive_at_stop and finish_stop, which the service offers for in-between stops.
StopFetch(w, t, p, mark) ==
  /\ status[t] = "in_progress"
  /\ DriverBegin(w, "stop", t, <<p, mark>>)
  /\ UNCHANGED <<tripRow, money, goods, stop>>

StopCheck(w) ==
  LET t == req[w].trip
      p == req[w].arg[1] IN
  /\ req[w].op = "stop"
  /\ \A q \in InBetween : q < p => stop[t][q] = "done"
  /\ req[w].arg[2] = "arrived" => stop[t][p] = "pending"
  /\ Then(w, "stop_ok")
  /\ UNCHANGED <<tripRow, money, goods, stop>>

StopWrite(w) ==
  /\ req[w].op = "stop_ok"
  /\ stop' = [stop EXCEPT ![req[w].trip][req[w].arg[1]] = req[w].arg[2]]
  /\ Return(w)
  /\ UNCHANGED <<tripRow, money, goods>>

----------------------------------------------------------------------------
(* Proof of delivery.                                                        *)

PhotoFetch(w, t, p) ==
  /\ p \in book[t].photos
  /\ status[t] \in (IF p[1] = "pickup" THEN {"assigned", "arrived_at_pickup"} ELSE {"in_progress"})
  /\ DriverBegin(w, "photo", t, p)
  /\ UNCHANGED <<tripRow, money, goods, stop>>

PhotoWrite(w) ==
  /\ req[w].op = "photo"
  /\ photo' = [photo EXCEPT ![req[w].trip] = @ \union {req[w].arg}]
  /\ Return(w)
  /\ UNCHANGED <<tripRow, money, item, stop>>

\* verify_item ("answered") and reset_item ("pending").
ItemFetch(w, t, i, answer) ==
  /\ book[t].verify
  /\ status[t] = "in_progress"
  /\ DriverBegin(w, "item", t, [item |-> i, answer |-> answer, photos |-> {}])
  /\ UNCHANGED <<tripRow, money, goods, stop>>

PhotosOf(t, i) == {p \in photo[t] : p[2] = i}

ItemRead(w) ==
  /\ req[w].op = "item"
  /\ Become(w, "item_read", req[w].driver,
            [req[w].arg EXCEPT !.photos = PhotosOf(req[w].trip, req[w].arg.item)])
  /\ UNCHANGED <<tripRow, money, goods, stop>>

\* item.save() writes every column of the item, its photo URLs included.
ItemWrite(w) ==
  LET t == req[w].trip
      x == req[w].arg IN
  /\ req[w].op = "item_read"
  /\ item'  = [item EXCEPT ![t][x.item] = x.answer]
  /\ photo' = [photo EXCEPT ![t] = (@ \ PhotosOf(t, x.item)) \union x.photos]
  /\ Return(w)
  /\ UNCHANGED <<tripRow, money, stop>>

----------------------------------------------------------------------------
(* Cash on delivery.                                                         *)

Collectable(t) ==
  /\ book[t].cod
  /\ payment[t] = "pending"
  /\ status[t] = "in_progress"
  /\ OrderPhotoTaken(t, "delivery")

\* The payment screen: `arg` is the provider of the copy that was read.
QrFetch(w, t) ==
  /\ Collectable(t)
  /\ DriverBegin(w, "qr", t, provider[t])
  /\ UNCHANGED <<tripRow, money, goods, stop>>

\* "The customer has paid", online or in cash.
CollectFetch(w, t, how) ==
  /\ Collectable(t)
  /\ DriverBegin(w, "collect", t, how)
  /\ UNCHANGED <<tripRow, money, goods, stop>>

\* The provider's webhook finds the trip by its live code.
WebhookFetch(w, t) ==
  /\ provider[t] = "qr"
  /\ payment[t] # "paid"
  /\ status[t] = "in_progress"
  /\ Begin(w, "collect_ok", t, None, "online")
  /\ UNCHANGED <<tripRow, money, goods, stop>>

\* Slip: a resend goes on to book the payment.
CheckedAll(op) == CASE op = "qr" -> "qr_ok" [] OTHER -> "collect_ok"

Checked(op) == CASE op = "qr" -> "qr_ok" [] op = "collect" -> "collect_ok" [] op = "resend" -> "resend_ok"

\* _require_items_verified and _require_photos read the item rows afresh.
DropCheck(w) ==
  /\ req[w].op \in {"qr", "collect", "resend"}
  /\ ItemsAnswered(req[w].trip)
  /\ ItemPhotosTaken(req[w].trip, "delivery")
  /\ Then(w, Checked(req[w].op))
  /\ UNCHANGED <<tripRow, money, goods, stop>>

QrWrite(w) ==
  /\ req[w].op = "qr_ok"
  /\ provider' = [provider EXCEPT ![req[w].trip] = "qr"]
  /\ Return(w)
  /\ UNCHANGED <<tripRow, payment, reference, cache, ledger, goods, stop>>

\* Asked about the code it already had, the provider reports a payment.
QrFindsPayment(w) ==
  /\ req[w].op = "qr_ok"
  /\ req[w].arg = "qr"
  /\ Become(w, "collect_ok", req[w].driver, "online")
  /\ UNCHANGED <<tripRow, money, goods, stop>>

\* Slip: the row is not looked at again under the lock.
ConfirmBlind(w) ==
  LET t    == req[w].trip
      cash == req[w].arg = "cash" IN
  /\ req[w].op = "collect_ok"
  /\ payment'   = [payment EXCEPT ![t] = "paid"]
  /\ reference' = [reference EXCEPT ![t] = IF cash THEN req[w].driver ELSE "online"]
  /\ cache'     = [cache EXCEPT ![t] = {"otp", "throttle"}]
  /\ provider'  = [provider EXCEPT ![t] = IF cash THEN "cash" ELSE @]
  /\ ledger'    = IF cash THEN Enter(t, "cod_cash", driver[t]) ELSE ledger
  /\ Return(w)
  /\ UNCHANGED <<tripRow, goods, stop>>

\* Slip: the cash debit does not ask whether this call booked the payment.
ConfirmDebitsAnyway(w) ==
  LET t    == req[w].trip
      cash == req[w].arg = "cash" IN
  /\ req[w].op = "collect_ok"
  /\ IF payment[t] = "paid"
     THEN UNCHANGED <<payment, reference, provider, cache>>
     ELSE /\ payment'   = [payment EXCEPT ![t] = "paid"]
          /\ reference' = [reference EXCEPT ![t] = IF cash THEN req[w].driver ELSE "online"]
          /\ cache'     = [cache EXCEPT ![t] = {"otp", "throttle"}]
          /\ provider'  = [provider EXCEPT ![t] = IF cash THEN "cash" ELSE @]
  /\ ledger' = IF cash THEN Enter(t, "cod_cash", driver[t]) ELSE ledger
  /\ Return(w)
  /\ UNCHANGED <<tripRow, goods, stop>>

\* confirm_payment, with the cash bookkeeping that shares its transaction: the
\* row lock makes it one step, decided on the row as it is now.
Confirm(w) ==
  LET t    == req[w].trip
      cash == req[w].arg = "cash" IN
  /\ req[w].op = "collect_ok"
  /\ IF payment[t] = "paid"
     THEN UNCHANGED money
     ELSE /\ payment'   = [payment EXCEPT ![t] = "paid"]
          /\ reference' = [reference EXCEPT ![t] = IF cash THEN req[w].driver ELSE "online"]
          /\ cache'     = [cache EXCEPT ![t] = {"otp", "throttle"}]
          /\ provider'  = [provider EXCEPT ![t] = IF cash THEN "cash" ELSE @]
          /\ ledger'    = IF cash THEN Enter(t, "cod_cash", driver[t]) ELSE ledger
  /\ Return(w)
  /\ UNCHANGED <<tripRow, goods, stop>>

\* The transaction fails or its worker dies before the commit: the rows roll back,
\* the OTP that was cached and texted in the middle of it does not.
ConfirmRollback(w) ==
  /\ req[w].op = "collect_ok"
  /\ payment[req[w].trip] # "paid"
  /\ cache' = [cache EXCEPT ![req[w].trip] = {"otp", "throttle"}]
  /\ Return(w)
  /\ UNCHANGED <<tripRow, payment, reference, provider, ledger, goods, stop>>

ResendFetch(w, t) ==
  /\ NeedsOtp(t)
  /\ status[t] = "in_progress"
  /\ book[t].cod => payment[t] = "paid"
  /\ OrderPhotoTaken(t, "delivery")
  /\ DriverBegin(w, "resend", t, None)
  /\ UNCHANGED <<tripRow, money, goods, stop>>

ResendWrite(w) ==
  /\ req[w].op = "resend_ok"
  /\ "throttle" \notin cache[req[w].trip]
  /\ cache' = [cache EXCEPT ![req[w].trip] = {"otp", "throttle"}]
  /\ Return(w)
  /\ UNCHANGED <<tripRow, payment, reference, provider, ledger, goods, stop>>

\* Both keys are set together; the throttle lives 30 s, the OTP 300 s.
Expire(t) ==
  /\ \E key \in cache[t] :
       /\ key = "otp" => "throttle" \notin cache[t]
       /\ cache' = [cache EXCEPT ![t] = @ \ {key}]
  /\ UNCHANGED <<tripRow, payment, reference, provider, ledger, goods, stop, req>>

----------------------------------------------------------------------------
(* Finishing.  `arg` is whether the copy was in progress: that is looked at  *)
(* last, after the OTP has been used up.                                     *)

CompleteFetch(w, t) ==
  /\ status[t] # "absent"
  /\ OrderPhotoTaken(t, "delivery")
  /\ book[t].cod => payment[t] = "paid"
  /\ DriverBegin(w, "complete", t, status[t] = "in_progress")
  /\ UNCHANGED <<tripRow, money, goods, stop>>

\* Slip: items that were answered for the payment are not looked at again.
CompleteCheckTrusting(w) ==
  LET t == req[w].trip IN
  /\ req[w].op = "complete"
  /\ StopsFinished(t)
  /\ ItemPhotosTaken(t, "delivery")
  /\ NeedsOtp(t) => "otp" \in cache[t]
  /\ Then(w, IF NeedsOtp(t) THEN "consume" ELSE "finish")
  /\ UNCHANGED <<tripRow, money, goods, stop>>

CompleteCheck(w) ==
  LET t == req[w].trip IN
  /\ req[w].op = "complete"
  /\ StopsFinished(t)
  /\ ItemsAnswered(t)
  /\ ItemPhotosTaken(t, "delivery")
  /\ NeedsOtp(t) => "otp" \in cache[t]
  /\ Then(w, IF NeedsOtp(t) THEN "consume" ELSE "finish")
  /\ UNCHANGED <<tripRow, money, goods, stop>>

ConsumeOtp(w) ==
  /\ req[w].op = "consume"
  /\ cache' = [cache EXCEPT ![req[w].trip] = @ \ {"otp"}]
  /\ Then(w, "finish")
  /\ UNCHANGED <<tripRow, payment, reference, provider, ledger, goods, stop>>

\* Slip: the earning is not part of the transaction and the worker died before it.
CompleteWriteUnpaid(w) ==
  LET t == req[w].trip IN
  /\ req[w].op = "finish"
  /\ req[w].arg
  /\ status' = [status EXCEPT ![t] = "completed"]
  /\ stop'   = [stop EXCEPT ![t][LastStop] = "done"]
  /\ Return(w)
  /\ UNCHANGED <<book, driver, payment, reference, provider, cache, ledger, goods>>

\* One transaction: the status, the driver's earning and the last stop.
CompleteWrite(w) ==
  LET t == req[w].trip IN
  /\ req[w].op = "finish"
  /\ req[w].arg
  /\ status' = [status EXCEPT ![t] = "completed"]
  /\ ledger' = Enter(t, "trip_earning", req[w].driver)
  /\ stop'   = [stop EXCEPT ![t][LastStop] = "done"]
  /\ Return(w)
  /\ UNCHANGED <<book, driver, payment, reference, provider, cache, goods>>

----------------------------------------------------------------------------
\* The company's order pages, its API and the admin's bulk actions.
CompanyAsks(w, t) == CreateMatch(w, t) \/ RetryFetch(w, t) \/ AssignFetch(w, t)

\* The driver's app.
DriverAsks(w, t) ==
  \/ ArriveFetch(w, t) \/ StartFetch(w, t) \/ CompleteFetch(w, t)
  \/ QrFetch(w, t) \/ ResendFetch(w, t)
  \/ \E how \in {"cash", "online"} : CollectFetch(w, t, how)
  \/ \E p \in Photos : PhotoFetch(w, t, p)
  \/ \E i \in Items, answer \in {"answered", "pending"} : ItemFetch(w, t, i, answer)
  \/ \E p \in InBetween, mark \in {"arrived", "done"} : StopFetch(w, t, p, mark)

\* Both may cancel, and the payment provider reports.
Request(w) ==
  \E t \in Trips : CompanyAsks(w, t) \/ DriverAsks(w, t) \/ CancelFetch(w, t) \/ WebhookFetch(w, t)

Proceed(w) ==
  \/ CreateCommit(w) \/ Match(w) \/ Place(w) \/ CancelWrite(w)
  \/ ArriveWrite(w) \/ StartCheck(w) \/ StartWrite(w) \/ MarkPickup(w)
  \/ StopCheck(w) \/ StopWrite(w) \/ PhotoWrite(w) \/ ItemRead(w) \/ ItemWrite(w)
  \/ DropCheck(w) \/ QrWrite(w) \/ QrFindsPayment(w) \/ Confirm(w) \/ ConfirmRollback(w)
  \/ ResendWrite(w)  \/ CompleteCheck(w) \/ ConsumeOtp(w) \/ CompleteWrite(w)

Next ==
  \/ \E w \in Workers : Request(w) \/ Proceed(w) \/ Abort(w)
  \/ \E t \in Trips : Expire(t)

Spec == Init /\ [][Next]_vars

----------------------------------------------------------------------------
(* Types.                                                                    *)

Ops == {"idle", "create", "retry", "assign", "place", "cancel", "arrive", "start", "start_ok",
        "mark", "stop", "stop_ok", "photo", "item", "item_read", "qr", "qr_ok", "collect",
        "collect_ok", "resend", "resend_ok", "complete", "consume", "finish"}

ItemAnswers == [item: Items, answer: {"pending", "answered"}, photos: SUBSET Photos]
StopMarks   == StopPositions \X {"arrived", "done"}

\* What a handler remembers at each of its steps.
ArgOK(r) ==
  /\ r.op = "mark"                     => r.arg \in {"arrived", "done"}
  /\ r.op \in {"stop", "stop_ok"}      => r.arg \in StopMarks
  /\ r.op = "photo"                    => r.arg \in Photos
  /\ r.op \in {"item", "item_read"}    => r.arg \in ItemAnswers
  /\ r.op \in {"qr", "qr_ok"}          => r.arg \in {"none", "qr", "cash"}
  /\ r.op \in {"collect", "collect_ok"} => r.arg \in {"cash", "online"}
  /\ r.op \in {"complete", "consume", "finish"} => r.arg \in BOOLEAN

RequestOK(r) ==
  /\ r = [op |-> r.op, trip |-> r.trip, driver |-> r.driver, arg |-> r.arg]
  /\ r.op \in Ops
  /\ r.trip \in (IF r.op = "idle" THEN {None} ELSE Trips)
  /\ r.driver \in Drivers \union {None}
  /\ ArgOK(r)

TypeOK ==
  /\ book      \in [Trips -> Bookings]
  /\ status    \in [Trips -> TripStatus]
  /\ driver    \in [Trips -> Drivers \union {None}]
  /\ payment   \in [Trips -> {"pending", "paid"}]
  /\ reference \in [Trips -> Drivers \union {None, "online"}]
  /\ provider  \in [Trips -> {"none", "qr", "cash"}]
  /\ item      \in [Trips -> [Items -> {"pending", "answered"}]]
  /\ photo     \in [Trips -> SUBSET Photos]
  /\ stop      \in [Trips -> [StopPositions -> {"pending", "arrived", "done"}]]
  /\ cache     \in [Trips -> SUBSET {"otp", "throttle"}]
  /\ ledger    \in [Trips -> Seq(Entry)]
  /\ req = [w \in Workers |-> req[w]]
  /\ \A w \in Workers : RequestOK(req[w])

----------------------------------------------------------------------------
(* What holds however the requests of different workers interleave.          *)

\* A trip pays its driver once and debits collected cash once, whatever two
\* requests race (credit_trip_earning, debit_cod_cash).
OneEntryPerKind ==
  \A t \in Trips : \A m, n \in 1 .. Len(ledger[t]) :
    ledger[t][m].kind = ledger[t][n].kind => m = n

\* Cash is debited from a wallet exactly when it is what settled the trip: never
\* beside an online payment, never forgotten (collect_cod_payment, confirm_payment).
CashDebitedIffPaidInCash ==
  \A t \in Trips :
    Entered(t, "cod_cash") <=> reference[t] \in Drivers

\* No COD trip is finished, and no driver has earned on one, before its payment is
\* booked, although the OTP that finishes it may be out earlier (driver_complete).
FinishedOnlyAfterPayment ==
  \A t \in Trips :
    book[t].cod /\ (status[t] = "completed" \/ Entered(t, "trip_earning"))
    => payment[t] = "paid" /\ reference[t] # None

\* A completed trip has paid its driver (driver_complete's transaction).
CompletedIsPaidOut ==
  \A t \in Trips : status[t] = "completed" /\ book[t].earns => Entered(t, "trip_earning")

\* Once booked, a payment is never booked again under another reference nor taken
\* back, whoever learns of it second (confirm_payment's lock and re-read).
PaymentIsFinal ==
  [][\A t \in Trips : payment[t] = "paid" => payment'[t] = "paid" /\ reference'[t] = reference[t]]_vars

----------------------------------------------------------------------------
(* What holds when requests do not overlap, and what becomes of it when they do. *)

\* A driver is on at most one active trip (find_nearest_available_driver).
OneActiveTripPerDriver ==
  \A t, u \in Trips :
    /\ status[t] \in ActiveTrip /\ status[u] \in ActiveTrip
    /\ driver[t] = driver[u] /\ driver[t] # None
    => t = u

\* A delivered or cancelled trip stays that way (_transition, cancel_trip).
EndIsFinal ==
  [][\A t \in Trips : status[t] \in {"completed", "cancelled"} => status'[t] = status[t]]_vars

\* The wallet and the trip tell the same story: the trip has paid its driver,
\* the one on its row, exactly when it is completed (driver_complete).
EarningInStep ==
  \A t \in Trips :
    /\ Entered(t, "trip_earning") <=> (status[t] = "completed" /\ book[t].earns)
    /\ \A n \in 1 .. Len(ledger[t]) : ledger[t][n].driver = driver[t]

\* Nothing is finished or paid for with an item unanswered (_require_items_verified).
FinishedItemsAnswered ==
  \A t \in Trips : status[t] = "completed" => ItemsAnswered(t)

\* A completed trip has every proof it was booked with: pickup and delivery photos
\* and each stop (driver_start, driver_complete).
CompletedWithProof ==
  \A t \in Trips : status[t] = "completed" =>
    /\ book[t].photos \subseteq photo[t]
    /\ \A p \in InBetween \union {LastStop} : stop[t][p] = "done"

\* Nobody pays for a trip that is cancelled (generate_payment_qr,
\* collect_cod_payment, apply_razorpay_event, cancel_trip).
CancelledIsUnpaid ==
  \A t \in Trips : status[t] = "cancelled" => reference[t] = None
=============================================================================
