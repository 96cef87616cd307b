# Verification of the delivery backend

TLA+ specifications of the delivery backend in `src/` (Django, PostgreSQL, Redis, Kafka,
and the JavaScript of its pages), checked with TLC and proved with TLAPS. Source paths
below are relative to `src/`.

The program runs as several web workers. PostgreSQL is at READ COMMITTED, Django
autocommits, and there is no `ATOMIC_REQUESTS`: unless a handler opens
`transaction.atomic()` itself, every ORM call commits on its own. Most handlers read a
row, decide on that Python copy, and later write some of its columns back with
`save(update_fields=...)`, without a version check. The Redis cache holds one-time
passwords, revoked tokens, routes and lookups, and is outside every transaction. The pages
ask and answer over a network that delays, reorders and loses. What can go wrong in this
code is therefore mostly what can happen between two statements, or between a question and
its answer, and that is what the models keep.

## 1. Inventory

| Part | State | Operations | Hard behaviour | Correct when |
|---|---|---|---|---|
| Trips (`trips/services.py`, `trips/models.py`, `trips/views.py`) | Trip, TripItem, TripStop rows; delivery OTP and its throttle in the cache | create, retry, assign, cancel, arrive, start, stop, photo, verify/reset item, payment QR, collect, webhook, resend OTP, complete | stale copies between read and save; crashes between two saves; expiring keys; webhooks racing the driver | proof and payment before the end; the end is final; one earning per trip; a payment is booked once |
| Matching (`trips/matching.py`) | none of its own: reads trips and drivers, writes Trip.driver and Trip.status | find nearest, assignable drivers, try to assign | two matches at once | a driver is on at most one active trip |
| Wallet (`drivers/wallet.py`, `WalletTransaction`) | append-only rows with running totals | entry by hand, trip earning, cash debit, summaries | SUM then INSERT under a row lock; a look for an existing row before the insert | totals add up, no overdraft by payout, one row of a kind per trip |
| Payment providers (`trips/payments.py`) | the QR columns of a trip; the provider's own records | create code, find payment, webhook | expiry, replacement, lost, late and repeated webhooks | money for a live code is booked exactly once |
| Duty and vehicles (`drivers/services.py`, `drivers/vehicle_services.py`) | Driver.is_online, current_vehicle_id, account_status; Vehicle.current_driver_id, status | online/offline, location, block, disable, delete, maintenance, register, remove | check then save by two requests; several saves without a transaction | one driver per vehicle; a driver with a trip is on duty in its vehicle |
| Papers (`drivers/services.py`, console, admin) | DriverKyc, account_status, licence expiry | submit, verify, reject, approve, unlock, nightly lock | whole-row saves of old copies | decision and note fit; an approval stands; whoever is under review is in the queue |
| Sign-in (`drivers/services.py`, `drivers/tokens.py`) | cache keys, Driver and DriverKyc rows | OTP, register, issue, refresh, revoke | two requests register one number; rotation without revoking | no driver without papers; a session that was logged out cannot renew |
| Own vehicles (`drivers/vehicle_services.py`) | Vehicle, VehiclePhoto rows | register, edit, remove, photos | limits counted before the save | limits kept; the picture shown exists |
| Customer server (`booking/services.py`, `booking/views.py`) | Customer, SavedPlace rows; OTP with a try counter, lookups in the cache | OTP, places, search, options, book, cancel | read-modify-write of a cached counter; two saves of one booking | bounded guesses and places; no remembered failure; the later save undoes nothing |
| Fares (`trips/pricing.py`, `trips/routing.py`, `core/polyline.py`) | remembered routes, fare cards | options, estimate, fare at booking | two moments, two providers, cards that change | the fare that was shown is the fare of the trip |
| Customer pages (`booking/static`, `booking/templates`) | variables of the pages, timers, pending answers | sign in, pick places, see fares, book, follow, list | late, reordered and lost answers; two map libraries | a screen shows what it asks for; tracking ends |
| Console (`console/`) | session, query parameters, recorder | dashboard, lists, live map, search, voice note, team | several queries per page; changes between pages | numbers are those of the lists behind them; recordings as long as their sound |
| Accounts (`accounts/`, `core/tenancy.py`) | Company, AdminUser, ApiClient rows | team, API tokens, suspend, bootstrap | logins that change each other | a company keeps a login; tenants see their own rows |
| Orders in (`trips/serializers.py`, `book_test_trip`) | none of their own | POST /trips, command | a driver's row read once, writes after create_trip | no order asks for what it does not have |
| Observers (`core/observers.py`, `trips/notifications.py`) | Kafka producer per process, invoices | notify, publish, push | inside and outside the transaction, a broker that is away | the world hears the trip's steps in their order |
| Commands (`*/management/commands`) | rows of a company, its drivers and types | bootstrap, seed, approve | die half-way, typed again, two at once | typed again, they complete |
| OpenAPI, settings, uploads, templates, admin layout | configuration | - | - | no state of the models |

How they interact: `booking`, `console`, the company API and `book_test_trip` call
`TripService`; `create_trip` and `retry_assignment` call `MatchingService`, which reads what
the duty operations wrote to `Driver`; `collect_cod_payment`, `generate_payment_qr` and
`apply_razorpay_event` meet in `confirm_payment`; `collect_cod_payment` (cash) and
`driver_complete` call `WalletService` inside their own transaction; `delete_account` reads
trips and the wallet; `create_trip` and the later handlers tell the observers; the customer
pages talk to `booking/views.py` by JSON requests only.

PROJECT.json lists, under "hazards", what in this code is hard to test, each at its line.

## 2. Modules

    TripLifecycle  <-- MCTripLifecycle (instances)
       ^-- TripLifecycle_proofs
    Ledger  <--refined by--  Wallet  <-- MCWallet (instances)
                               ^-- Wallet_proofs
    Settlement  <--refined by--  RazorpayPayment
                                   ^-- RazorpayPayment_proofs
    Fleet  <-- MCFleet (instances)
       ^-- Fleet_proofs
    Account (SignIn, Sessions, Onboarding, Garage)
       ^-- Company (Reports, Lists, VoiceNote, Team, ApiClients, Events, Seeding, Orders)
              ^-- Company_proofs
    Booking (CustomerCode, SavedPlaces, PlaceSearch, BookTrip, Fares, Polyline,
             BookPage, PlacePicker, ReviewMap, TrackPage, TripList, LoginPage)
       ^-- Booking_proofs, BookingPages_proofs
    Recursion_proofs: lemmas on walks, folds and sums, extended by the proofs of Company
                      and Booking

Three conventions run through all of them. The request a process serves is a record of its
next step and what it still remembers of what it read (`req`, `call`, `task`, `form`);
`...Fetch`/`...Look` are reads with the decisions taken on them, `...Check` later reads,
`...Write`/`Save` the saves. A process may die between any two of them. A variable chosen in
Init and never changed (`serial`, `orderly`, `single`, `patient`, `once`, `steady`, `sound`)
says whether requests of a kind overlap in this behaviour, so that one run checks both what
holds always and what holds only then.

### TripLifecycle

The trip table under every handler of `TripService`, for any number of trips, drivers and
web workers. One function over trips per column that decides something: `status`, `driver`,
`payment`, `reference`, `provider`, `item`, `photo`, `stop`; `cache` says which of the two
OTP keys are alive, `ledger` which wallet rows name the trip, `book` what was asked for at
booking. `Confirm` and `CompleteWrite` are the two places with a transaction and are one
step each: `confirm_payment` locks the row and decides again on what it finds;
`driver_complete`'s block updates the trip row first, so nothing else can touch it before
the commit. `CreateMatch`/`CreateCommit` split `create_trip` because its row and its
assignment are invisible to others until it commits. `Abort` ends a request between any two
steps. `ConfirmRollback` is the case that is not a plain rollback: the OTP that
`confirm_payment` caches and texts in the middle of its transaction survives it. `Expire` is
the clock of the cache: the throttle (30 s) goes before the OTP (300 s).

Abstractions, all in the data. A delivery OTP is alive or not. Which driver is near enough,
on duty and eligible is any answer of the matching query (Fleet decides it), only "on
another active trip" is decided here. An online payment is "online" whichever provider
verified it (RazorpayPayment has the codes). A booking's photo modes are the set of photos
they ask for. `Worth` says whether the earning rounds to nothing; the fare is positive,
because `calculate_fare` refuses a card without a minimum. The reads of one check step are
one step: each is only made true by the driver's own requests, except for `reset_item`,
which the split between the check and the write exposes anyway. In-between stops are served
by `arrive_at_stop` and `finish_stop`, which the service offers although no view calls them
yet.

### Wallet and Ledger

`Ledger` is what a statement of `WalletTransaction` rows promises: it only grows, each row
carries the running total, a payout is covered, and a trip is settled once for each kind.
`Wallet` is `WalletService` statement by statement: lock the trip's row (the caller's
transaction), look for an existing entry, lock the driver's row, SUM, INSERT and COMMIT, with
refusals, the unique constraint and deaths of the worker. `total` is what `SELECT
SUM(amount)` answers; it is a variable because a fold over the rows is beyond the prover.

### RazorpayPayment and Settlement

`Settlement` is the collection of one cash-on-delivery fare seen from outside: the provider
receives payments, and a reference is booked once, of a payment it holds or of cash that is
debited in the same moment. `RazorpayPayment` is `generate_payment_qr`,
`collect_cod_payment`, `confirm_payment` and `apply_razorpay_event` with the provider
(`Razorpay`'s REST calls and webhooks, as `payments.py` uses them and
`scripts/dev_razorpay_stub.py` answers them). A code is young, in its last 45 seconds, or
over (`stage`); `credits` is what was paid on it, `due` whose webhook is not answered yet.
The mapping takes `received` from what the provider holds and `booked` from
`Trip.payment_reference`.

### Fleet

Drivers on duty, vehicles and the trips they are matched to, over the rows of the three
tables. Each handler of `DriverService` and `VehicleService` that touches them, the API,
console and Django-admin ways to block, disable, delete or take a vehicle out, the soft
deletes, registering and removing own vehicles, the nightly lock and both writers of an
assignment are actions, save by save. A driver's three verifications and expiry date
amount to "pending", "cleared" or "expired" here.

### Account and Company

- `SignIn`: `request_otp`, `verify_otp`, `register`: one number, codes in the cache,
  `get_or_create` with its race, the DriverKyc row in the same transaction.
- `Sessions`: `issue_pair`, `refresh`, `revoke`: tokens with a life, the cache's list of
  revoked ones, deactivated drivers.
- `Onboarding`: what a driver submits and what the company decides about it: three papers
  with status, note and decision, the licence date, the account status, and the ways in
  which API, console and admin save them; `OnboardingStatus` and `PendingKyc` are the two
  readings of these columns that must agree. `ApiTakes`, `ConsoleTakes` and `ApprovalTakes`
  are the three forms of a decision: what each of them refuses.
- `Garage`: own vehicles and pictures with their limits, vehicle types that are retired.
- `Reports`: `WalletService.summary`, `driver_stats` and the dashboard as the queries they
  run one after the other over a table of dated rows, in any time zone.
- `Lists`: numbers on the dashboard and the lists they link to, page by page while rows
  change, tabs, payouts, search, the live map. A list that got shorter while it was walked
  answers a page past its end with its last page, so up to `Size - 1` rows may come twice
  (`Again`). `Plain` names what the behaviours of the live map leave out: it draws neither
  items nor hours, so its trips begin without them.
- `VoiceNote`: `recorder.js` with its microphone, timers and form, and `order_voice`.
- `Team`, `ApiClients`: console logins, roles and the company switcher; API tokens.
- `Events`: `Subject.notify`, the push log, invoices and Kafka for one trip.
- `Seeding`: `bootstrap_company`, `seed_vehicle_types`, `seed_drivers`, `approve_driver`.
- `Orders`: `TripCreateSerializer.validate`, `TripViewSet.create` and `book_test_trip`.

They share no row they write, so `Company` puts them side by side and a behaviour follows
one of them (`part`), with the others pinned where they begin: one run covers them without
the product of their states.

### Booking

Server: `CustomerCode` (the code, its tries and its throttle in the cache), `SavedPlaces`,
`PlaceSearch` (`_cached` over two providers), `BookTrip` (the booking and the saves after
it), `Fares` (options or estimate first, booking later, routes remembered for a day) and
`Polyline` (encode and decode over bounded lines). Phone: `LoginPage`, `BookPage`,
`PlacePicker` (three screens in one, with its map, timers and five kinds of answers),
`ReviewMap` (marks that move from a Google to a Leaflet map), `TripList` (infinite scroll
over tabs), `TrackPage` (chains of polls). What one gets from another comes in a request and
is any value in the module that gets it; `Booking` composes them as `Company` does.

## 3. Properties and runs

| Run | Instance | Result |
|---|---|---|
| TripSerial | 2 trips, 2 drivers, 1 worker, 1 item, 1 in-between stop | holds: `OneActiveTripPerDriver`, `EarningInStep`, `FinishedItemsAnswered`, `CompletedWithProof`, `CancelledIsUnpaid`, `EndIsFinal` |
| TripRace | 1 trip, 2 drivers, 2 workers, 1 item, 1 in-between stop | holds: `TypeOK`, `OneEntryPerKind`, `CashDebitedIffPaidInCash`, `FinishedOnlyAfterPayment`, `CompletedIsPaidOut`, `PaymentIsFinal` |
| Wallet | 2 drivers, 1 trip, 2 workers, 3 rows | holds: `TypeOK`, `StatementAddsUp`, `PayoutsCovered`, `SettledOnce`, `KeepsLedger`, `Answered` |
| Payment | 1 trip, 2 codes, 2 workers | holds: `Settles` (refinement), `ScanLeadsToTrip`, `CreditArrives` (liveness) |
| Fleet | 2 drivers, a fleet vehicle and an own one, 1 trip, 1 worker that dies anywhere | holds: `TypeOK`, `OneDriverPerVehicle`, `TripDriverOnDuty`, `DrivingAgrees`, `OnDutyWithVehicle`, `NoSwitchOnTrip` |
| Company | the twelve parts above, mostly 2 processes and 1 to 3 of everything | holds: `TypeOK`, `SignedUpWhole`, `LoggedOutStaysOut`, `DecisionWhole`, `ReviewQueued`, `ApprovalStands`, `GarageKept`, `OfficeKept` |
| Booking | the twelve parts above, 2 processes, 2 chains, 2 or 3 answers under way | holds: `CodesHold`, `KeepsWhatItShould`, `ScreensAgree`, `BookingKept`, `TrackingEnds` (liveness) |
| TripDoubleAssign | 2 trips, 2 workers, plain bookings | violated: `OneActiveTripPerDriver` |
| TripEarning | 1 trip, 2 workers, plain booking | violated: `EarningInStep` |
| TripItems | 1 trip, 2 workers, full COD booking | violated: `FinishedItemsAnswered` |
| FleetRace | as Fleet, 2 workers | violated: `OneDriverPerVehicle` |
| WalletSign | 1 driver, 1 worker | violated: `OnlyAdjustmentsChooseSign` |

The reading of the two trip runs together: with one worker (whatever crashes) all the
promises hold. With two, those about the trip's own life are lost to stale saves, and the
violation runs each show one that a comment or docstring of the code states. Those about
money survive, because they are kept by the locked row in `confirm_payment`, by the
transaction of `driver_complete` and by the look for an existing wallet row. The same
division runs through Fleet: with two workers `TripDriverOnDuty`, `DrivingAgrees` and
`OnDutyWithVehicle` fail too; `OneDriverPerVehicle` stands for them because the docstring
promises it.

What the violations show, quoted in full under "findings" in PROJECT.json:

- *TripDoubleAssign*: the busy-driver query (`trips/matching.py:32`) holds nothing; two
  overlapping matches assign one driver twice.
- *TripEarning*: `cancel_trip`, `assign_to_driver` and `try_assign_driver` save a status
  decided on an old copy; after `driver_complete` the earning stays and the completion is gone.
- *TripItems*: `reset_item` saves its item after `driver_complete` has looked.
- *FleetRace*: `go_online` looks for the vehicle and saves later; two drivers drive it.
- *WalletSign*: a `cod_cash` entry by hand keeps the sign that was typed.

Some of the composed properties are conjunctions over parts, each guarded by the part it is
about: `OfficeKept` (numbers and lists, recordings, team, events, seeds, orders),
`KeepsWhatItShould` (saved places, lookups, fares, lines), `ScreensAgree` (the pages),
`GarageKept`, `CodesHold`. Every conjunct over a part has its own mutant.

Bounds. Two trips are what it takes to give one driver two; one trip and two workers are
what it takes for any two statements of different requests about a trip to interleave, since
no handler touches another trip's row; two drivers let a dispatcher move a trip. `LastStop`
= 2 gives one in-between stop. `MaxRows` = 3 lets an earning, a debit and a payout meet.
Two codes are one that is replaced and its replacement; every hazard of a code is about it
and the next. In Fleet only one driver's papers change, and only one of the two may drive
both vehicles. Limits are small (`MaxVehicles` 1, `MaxPhotos` 1, `MaxPlaces` 2, `MaxTries` 2)
so that they are reached and overshot; what is checked is how far they can be overshot.
Three tokens are a session, its renewal and a second one. Reports run over two dated
rows, one of them added while the report is made, at moments around midnight and Monday, by clocks ahead of UTC
and behind it. Lists show one row per page. Every bound is a CONSTANT with a comment in its module. Trips, drivers and
workers are symmetric in the trip runs without liveness, and symmetry is used only there.
Deadlock is not checked: a trip table where everything is finished, a wallet that has
reached `MaxRows`, a page that was left, really have nothing left to do.

Fairness. `Wallet` assumes weak fairness of a worker's next statement (the process is alive)
and strong fairness of the two lock requests (PostgreSQL queues those who wait for a row);
`Answered` then says that no two transactions wait for each other. `Payment` assumes that a
request that was begun goes on or dies, that Razorpay repeats a webhook until it is answered,
and, because repeats keep coming, that one of them is read and confirmed now and then: strong
fairness of those two steps for each code. No fairness is put on the customer, the driver or the app.
`Booking` assumes that timers fire and requests in flight reach the server (weak fairness of
a chain's poll), and strong fairness of an answer reaching the page: the network is not down
for good. No fairness is put on new requests, on deaths, or on how a trip goes on.

Every property has a mutant, a slip of the kind the code invites (a lock that is only a
read, a dropped check, an answer that is not asked whether it is still wanted), that TLC
finds to break it. They stand, as `Slip`, before the definitions they change.

What the models made plain about the code, beyond the findings (no comment promises
otherwise, so no run is about them):

- An old code paid in its last 45 seconds, after the next one was shown, is an unknown code
  to the webhook: the fare is never booked. A customer can also pay two codes.
- With two processes the tries of a customer code can be made to last for 20 wrong answers
  instead of 5 (`Guesses` counts them: one less than the ways in which two servers can stand
  at five tries, C(7,5) = 21), and a wrong answer written back can resurrect a code that was used.
- A saved address may be edited into a second Home. Saving a removed address inserts it again.
- A driver whose police certificate was never uploaded is told "under review" and is not in
  the queue. A verified Aadhaar locks a profile that is still incomplete.
- `refresh` leaves the earlier refresh token alive until it is itself logged out.
- Two owners can switch each other off at the same time; the company then has no login.
- A suspended company's API clients are still served, and still get tokens, although the
  admin's action says "API and drivers stop working" (`accounts/admin.py:66`):
  `ApiClients!SuspendedIsServedNothing` states that promise, and TLC refutes it in two steps.
- One vehicle type without a fare card makes the options of all types fail.
- "Items reported not delivered" counts items and links to a list of trips; the list behind
  "over 3 hours" shows every trip in progress.
- `seed_drivers` typed again fails when a seeded driver got another number.
- Pressing record twice during the permission question leaves the first microphone open.

## 4. Proofs

Every invariant and every safety property that a passing run checks is also proved with
TLAPS, for all values of the constants under the named ASSUMEs of its module: any number of
trips, drivers, vehicles, companies, logins, workers and requests. The assumptions say what
the code's columns and settings say anyway: limits are positive, a null is none of the
values, there are finitely many servers, amounts are integers, a fare and its earning are
positive, `Usual` is one of the couriers.

Two kinds of hypothesis restrict theorems, both because the property is false without
(section 3). `Spec /\ []NoOverlap` in TripLifecycle and Fleet: no two requests are half-way
at the same time, although each may still die half-way. With one worker this always is so
(`OneWorker`, `OneRequestAtATime`), and TripSerial and Fleet run with one. Elsewhere the
variable chosen in Init (`serial`, `inTurn`, `single`, `alone`, `once`, `sound`, `steady`) is
part of the property itself, so the theorem covers both kinds of behaviour.

None of the properties is inductive as it stands: a half-served request still acts on what it
remembers. Each invariant therefore says what a request may rely on between its read and its
write, which is also where it says why the code works.

- `TripLifecycle_proofs`. `IInv`: what each request remembers is well typed (`ReqTypeOK`) and
  still so where nothing can take it back (`Sound`: the row exists, a cash collector is a
  driver and the trip has one, a completing request saw the payment); two creations never
  share a row (`CreatesDiffer`); a row that does not exist has nothing attached
  (`AbsentIsBlank`). From it follow `TypesHold`, `PaidOnce`, `CashMatchesReference`,
  `NoFinishUnpaid`, `CompletionPays`, `PaymentStays`. `SerialInv` adds for `NoOverlap` that
  the row is as each request fetched it (`AllCurrent`), that pickup photos precede the way
  (`PickupProven`) and that money moves only on the way (`MoneyOnTheWay`). From it follow
  `NoDoubleAssignment`, `WalletTellsTheTrip`, `ItemsAnsweredAtTheEnd`, `ProofAtTheEnd`,
  `NothingPaidForCancelled`, `EndStays`.
- `Wallet_proofs`. `WInv` says what the locks are for: a request past `LockDriver` holds that
  driver's row (`LocksHeld`), so what it summed is still the total (`SeenIsTotal`); one past
  `Look` holds its trip's row, so nobody has settled the trip since (`StillUnsettled`). From
  it follow `WalletTypes`, `AddsUp`, `NoOverdraft`, `SettlesOnce`, and the refinement
  `ImplementsLedger` (`Spec => L!Spec`).
- `RazorpayPayment_proofs`. `BookInv`: a request about to book a payment knows of one. It
  gives `ImplementsSettlement`, the refinement of `Settlement` step by step. `ScanInv`: codes
  are numbered in the order they are issued, whatever names a code names one the provider
  has issued, and, when the app waits for its answers, its one request works on the trip's
  code and replaces it only once nobody can pay the one that was shown. It gives
  `ScreenShowsTripCode`.
- `Fleet_proofs`. `RowsTyped` holds however requests overlap. `FleetInv`, under `NoOverlap`,
  has one conjunct for each kind of request (`GoesOnline`, `GoesOff`, `Removes`, `Places`)
  with what its checks found and its next saves need, and three about the rows (`GoneIsOff`,
  `AbsentIsBlank`, `TripsNamed`). From it follow `VehicleToOneDriver`, `OnDutyForTheTrip`,
  `ReferencesAgree`, `DutyHasAVehicle`, `NoSwitch`.
- `Company_proofs`. One section and one inductive invariant for each part.
  `PapersInv`: what a submission holds is as whole as what it will replace, and without
  overlap its copy still has every approval (`DecisionsWhole`, `UnderReviewIsQueued`,
  `ApprovalStays`). `SignInInv` (`SignUpLeavesPapers`). `SessionInv`: a token logged out is in
  the cache's list until its last second (`LogoutHolds`). `GarageInv`: a request that has
  counted still has its place, so a limit is overshot by at most one for each further
  server (`LimitsHold`, `ColumnsTyped`). `VoiceInv` (`VoiceKept`): seconds and chunks of the
  recording go together. `TeamInv` (`TeamKept`): without overlap a form under way leaves
  somebody. `OrdersInv` (`OrdersKept`). `SeedInv` (`SeedHolds`): each command has done what is
  before the step it is at, unless somebody else was at it (`clashed`) or a number was changed
  (`moved`). `EventsInv` (`EventsKept`): what was told is the history but for the step that is
  being told. `ListInv` (`ListsKept`): what was walked of a list, and the answers under way to
  the live map, fit the rows while nothing moves. `ReportInv` (`ReportsKept`): each answer
  that is in is bounded by what the table says by now and by the later answers. `OfficeHolds`
  puts the last seven together into `OfficeKept`.
- `Booking_proofs`. `CodesInv` bounds the guesses (`GuessesBounded`): the numbers of servers
  that can still go on from j wrong answers or fewer, for each j, form a non-decreasing
  function (`Way`); a wrong answer always makes its first changed value smaller, so no
  way comes twice and there are no more wrong answers than ways. `PlacesInv`, `SearchInv` and
  `FaresInv` (a fare shown on a road the provider gave is kept with its route remembered)
  make `ServerKeeps`; `StoringUndoesNothing` is the action property of `BookTrip`.
  `DecodesWhatEncodes` and `EveryLineRoundTrips` are about `core/polyline.py`: for every line
  of integer points, however long, decoding undoes encoding; the run covers lines of a few
  points.
- `BookingPages_proofs`. `ScreensInv` is one invariant for each page: what an answer under way
  may still change, given the number or text it was asked for. `ScreensFollow` is
  `ScreensAgree` for any number of places, texts, trips and answers under way.
- `Recursion_proofs`. The prover cannot instantiate an induction theorem that takes an
  operator. Where a model walks through a sequence or sums over a set (`FoldLeft`,
  `MapThenFoldSet`, `SumFunctionOnSet` of the community modules, a recursive function), these
  lemmas do the induction over a set of numbers, with the step given as a function: that the
  walk exists and is its own equation, that a sum splits by element, grows with its set and
  its terms, and that counting by day adds up to counting once (`CountByDay`).

How they are laid out: one lemma for each action, or for the few that touch the same columns,
then one that combines them for `Next`, then the theorem by temporal logic.

Only model-checked: `Answered` (Wallet), `CreditArrives` (Payment) and `TrackingEnds`
(Booking), because liveness under fairness is beyond the prover; the violation runs, which
show that a statement is false. No property of a passing run, and so no theorem, is about
`ApiClients`.

## 5. Not modelled

- Generated API documentation (`core/openapi`, `docs/api`), settings, middleware, CSS,
  templates without behaviour, admin list layout, migrations, tests: no state of the program.
- Free-form edits of rows in the Django admin: an operator may type any value there. Fleet,
  Onboarding and Wallet have its actions. The documents' inline form is among the edits left
  out (`drivers/admin.py`, `save_formset`): where it decides as the console does it is in
  Onboarding, but it can also reject without a note, verify a licence without a date, and put
  a document back to pending, which stamps a decision all the same. `DecisionWhole` says
  nothing of those.
- Requests that fail before any row changes (a null where the code expects a date is a 500).
- Columns no rule depends on (profile texts, contact data, photos of a company).
- File storage, signatures of webhooks, SMS delivery, Google and Valhalla: external, present
  as answers that may be late, wrong or missing.
- Distances and coordinates beyond "same place", "near" and a small grid; paise.
- The balance read by `delete_account` against a concurrent wallet entry: it joins Wallet
  and Fleet, whose product is out of reach; the trip's half of the same check is in Fleet.
- Two trips with one driver at a time in Fleet, and three or more overlapping requests
  anywhere: two are what each of the hazards needs.
- `docs/architecture/multi-order-pooling.md`: a design without code.
