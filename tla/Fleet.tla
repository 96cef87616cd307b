------------------------------- MODULE Fleet -------------------------------
(***************************************************************************)
(* Drivers on duty, the vehicles they take and the trips they are matched  *)
(* to: drivers/services.py, drivers/vehicle_services.py, the duty and      *)
(* fleet views, the console and the Django admin.  Driver, Vehicle and     *)
(* Trip are three tables that point at each other without foreign keys     *)
(* that would keep them in step (Driver.current_vehicle_id,                *)
(* Vehicle.current_driver_id, Trip.driver and Trip.vehicle), and a handler *)
(* saves them one by one.                                                  *)
(*                                                                         *)
(* TripLifecycle leaves open who is on duty and Onboarding how papers are  *)
(* verified; here a trip is waiting or assigned, and a driver's papers are *)
(* pending, cleared or expired.                                            *)
(***************************************************************************)
EXTENDS Naturals

CONSTANTS
  Drivers,       \* driver ids
  Vehicles,      \* vehicle ids, those of rows not yet inserted included
  Company,       \* the vehicles of the company's own fleet
  Covered,       \* driver -> vehicles of a category the licence is verified for
  Trips,         \* trip ids
  Workers,       \* processes that serve requests, one at a time each
  Reviewed,      \* bound: the drivers whose papers change; the others' are cleared
  Menu,          \* bound: the statuses the console sets
  None           \* SQL NULL

ASSUME CompanyAssumption == Company \subseteq Vehicles
ASSUME CoveredAssumption == Covered \in [Drivers -> SUBSET Vehicles]
ASSUME BoundsAssumption  == Reviewed \subseteq Drivers /\ Menu \subseteq {"active", "maintenance", "disabled"}
ASSUME NullAssumption    == None \notin Drivers /\ None \notin Vehicles /\ None \notin Trips

VARIABLES
  row,      \* driver -> the Driver row
  papers,   \* driver -> what the three verifications and the expiry date amount to
  vehicle,  \* vehicle -> the Vehicle row
  trip,     \* trip -> the columns of Trip that name a driver and a vehicle
  req       \* worker -> the request it is serving

vars == <<row, papers, vehicle, trip, req>>

Driver  == [account: {"active", "locked_dl_expired", "disabled"}, online: BOOLEAN,
            vehicle: Vehicles \union {None}, deleted: BOOLEAN]
Vehicle == [status: {"absent", "active", "maintenance", "disabled", "erased"}, deleted: BOOLEAN,
            owner: Drivers \union {None}, driving: Drivers \union {None}]
Trip    == [status: {"waiting", "assigned"}, driver: Drivers \union {None},
            vehicle: Vehicles \union {None}]

Waiting == [status |-> "waiting", driver |-> None, vehicle |-> None]
Papers  == {"pending", "cleared", "expired"}

Init ==
  /\ row     = [d \in Drivers |-> [account |-> "active", online |-> FALSE, vehicle |-> None, deleted |-> FALSE]]
  /\ papers  = [d \in Drivers |-> IF d \in Reviewed THEN "pending" ELSE "cleared"]
  /\ vehicle = [v \in Vehicles |-> [status  |-> IF v \in Company THEN "active" ELSE "absent",
                                    deleted |-> FALSE, owner |-> None, driving |-> None]]
  /\ trip    = [t \in Trips |-> Waiting]
  /\ req     = [w \in Workers |-> [op |-> "idle", driver |-> None, vehicle |-> None, trip |-> None, held |-> None]]

----------------------------------------------------------------------------
(* The request of a worker.  `held` is Driver.current_vehicle_id in the    *)
(* copy of the driver that was read when the request began.                *)

Idle == [op |-> "idle", driver |-> None, vehicle |-> None, trip |-> None, held |-> None]

Begin(w, op, d, v, t) ==
  /\ req[w] = Idle
  /\ req' = [req EXCEPT ![w] = [op |-> op, driver |-> d, vehicle |-> v, trip |-> t,
                                held |-> IF d = None THEN None ELSE row[d].vehicle]]
Then(w, op) == req' = [req EXCEPT ![w].op = op]
Return(w)   == req' = [req EXCEPT ![w] = Idle]

\* A later check refuses the request, or the process dies between two saves.
Abort(w) ==
  /\ req[w].op # "idle"
  /\ Return(w)
  /\ UNCHANGED <<row, papers, vehicle, trip>>

----------------------------------------------------------------------------
(* What the handlers ask of the database.                                  *)

\* JWTMultiPrincipalAuthentication.get_user: the driver behind a token.
SignedIn(d) == row[d].account = "active" /\ ~row[d].deleted

\* Driver.is_eligible_for_assignment.
Eligible(d) == papers[d] = "cleared" /\ row[d].account = "active"

\* Rows the default manager shows.
Stored(v) == vehicle[v].status \notin {"absent", "erased"}
Listed(v) == Stored(v) /\ ~vehicle[v].deleted

DriverHasTrip(d)  == \E t \in Trips : trip[t].status = "assigned" /\ trip[t].driver = d
VehicleHasTrip(v) == \E t \in Trips : trip[t].status = "assigned" /\ trip[t].vehicle = v

\* Slip: a vehicle is taken only while a trip uses it.
TakenByTrip(v, d) == VehicleHasTrip(v)
\* Another driver of the company is on duty with this vehicle.
Taken(v, d) == \E e \in Drivers \ {d} : ~row[e].deleted /\ row[e].online /\ row[e].vehicle = v

Available(v, d) ==
  /\ Listed(v)
  /\ vehicle[v].status = "active"
  /\ vehicle[v].owner \in {None, d}
  /\ v \in Covered[d]
  /\ ~Taken(v, d)

OwnVehicles(d) == {v \in Vehicles : Listed(v) /\ vehicle[v].owner = d}

----------------------------------------------------------------------------
(* Going on duty and off.                                                  *)

OnlineFetch(w, d, v) ==
  /\ SignedIn(d)
  /\ Listed(v) /\ vehicle[v].status = "active"
  /\ Eligible(d)
  /\ v \in Covered[d]
  /\ Begin(w, "online", d, v, None)
  /\ UNCHANGED <<row, papers, vehicle, trip>>

OnlineCheck(w) ==
  /\ req[w].op = "online"
  /\ Available(req[w].vehicle, req[w].driver)
  /\ Then(w, "switch")
  /\ UNCHANGED <<row, papers, vehicle, trip>>

\* Slip: vehicles can be switched on a trip.
OnlineSwitchOnTrip(w) ==
  LET d == req[w].driver
      held == req[w].held IN
  /\ req[w].op = "switch"
  /\ vehicle' = [v \in Vehicles |-> IF v = held /\ v # req[w].vehicle /\ vehicle[v].driving = d
                                    THEN [vehicle[v] EXCEPT !.driving = None] ELSE vehicle[v]]
  /\ Then(w, "take")
  /\ UNCHANGED <<row, papers, trip>>

\* Slip: the vehicle left behind keeps its driver.
OnlineSwitchKeeping(w) ==
  /\ req[w].op = "switch"
  /\ req[w].held \notin {None, req[w].vehicle} => ~DriverHasTrip(req[w].driver)
  /\ Then(w, "take")
  /\ UNCHANGED <<row, papers, vehicle, trip>>

\* The vehicle of the last shift is let go, unless somebody else has it by now.
OnlineSwitch(w) ==
  LET d == req[w].driver
      held == req[w].held IN
  /\ req[w].op = "switch"
  /\ held \notin {None, req[w].vehicle} => ~DriverHasTrip(d)
  /\ vehicle' = [v \in Vehicles |-> IF v = held /\ v # req[w].vehicle /\ vehicle[v].driving = d
                                    THEN [vehicle[v] EXCEPT !.driving = None] ELSE vehicle[v]]
  /\ Then(w, "take")
  /\ UNCHANGED <<row, papers, trip>>

OnlineTake(w) ==
  /\ req[w].op = "take"
  /\ row' = [row EXCEPT ![req[w].driver].vehicle = req[w].vehicle, ![req[w].driver].online = TRUE]
  /\ Then(w, "taken")
  /\ UNCHANGED <<papers, vehicle, trip>>

\* (Saving columns of a row that is gone is an error: the request ends there.)
OnlineNote(w) ==
  /\ req[w].op = "taken"
  /\ Stored(req[w].vehicle)
  /\ vehicle' = [vehicle EXCEPT ![req[w].vehicle].driving = req[w].driver]
  /\ Return(w)
  /\ UNCHANGED <<row, papers, trip>>

\* Slip: going off duty does not ask for a trip.
OfflineCheckSkipped(w, d) ==
  /\ ~row[d].deleted
  /\ Begin(w, "offline", d, None, None)
  /\ UNCHANGED <<row, papers, vehicle, trip>>

\* Asked by the driver or by an operator, who may also do it for a locked account.
OfflineCheck(w, d) ==
  /\ ~row[d].deleted
  /\ ~DriverHasTrip(d)
  /\ Begin(w, "offline", d, None, None)
  /\ UNCHANGED <<row, papers, vehicle, trip>>

OfflineWrite(w) ==
  /\ req[w].op = "offline"
  /\ row' = [row EXCEPT ![req[w].driver].online = FALSE]
  /\ Return(w)
  /\ UNCHANGED <<papers, vehicle, trip>>

----------------------------------------------------------------------------
(* What an account goes through.                                           *)

BlockCheck(w, d) ==
  /\ ~row[d].deleted
  /\ ~DriverHasTrip(d)
  /\ Begin(w, "block", d, None, None)
  /\ UNCHANGED <<row, papers, vehicle, trip>>

\* Slip: a status the column does not have.
DisableRowBlocked(d) == row' = [row EXCEPT ![d].account = "blocked", ![d].online = FALSE]
\* DriverService.disable and block.
DisableRow(d) == row' = [row EXCEPT ![d].account = "disabled", ![d].online = FALSE]

BlockWrite(w) ==
  /\ req[w].op = "block"
  /\ DisableRow(req[w].driver)
  /\ Return(w)
  /\ UNCHANGED <<papers, vehicle, trip>>

\* Unblock of the console and reactivate of the admin, whatever the status was.
Unblock(d) ==
  /\ ~row[d].deleted
  /\ row' = [row EXCEPT ![d].account = "active"]
  /\ UNCHANGED <<papers, vehicle, trip, req>>

\* DriverService.disable, of the company's API and of delete_account.
RetireCheck(w, d) ==
  /\ ~row[d].deleted
  /\ ~DriverHasTrip(d)
  /\ Begin(w, "retire", d, None, None)
  /\ UNCHANGED <<row, papers, vehicle, trip>>

RetireWrite(w) ==
  /\ req[w].op = "retire"
  /\ DisableRow(req[w].driver)
  /\ Then(w, "retired")
  /\ UNCHANGED <<papers, vehicle, trip>>

RetireDelete(w) ==
  /\ req[w].op = "retired"
  /\ row' = [row EXCEPT ![req[w].driver].deleted = TRUE]
  /\ Return(w)
  /\ UNCHANGED <<papers, vehicle, trip>>

\* The day on the licence passes.
LicenceLapses(d) ==
  /\ d \in Reviewed /\ ~row[d].deleted
  /\ papers[d] = "cleared"
  /\ papers' = [papers EXCEPT ![d] = "expired"]
  /\ UNCHANGED <<row, vehicle, trip, req>>

\* The daily task is one UPDATE, of the account alone.
LockExpired ==
  /\ \E d \in Drivers : papers[d] = "expired" /\ SignedIn(d)
  /\ row' = [d \in Drivers |-> IF papers[d] = "expired" /\ SignedIn(d)
                               THEN [row[d] EXCEPT !.account = "locked_dl_expired"] ELSE row[d]]
  /\ UNCHANGED <<papers, vehicle, trip, req>>

\* The company's decisions on the documents: a rejection, an approval, or the
\* approval of a licence whose day is already over.  An approval with a day to come
\* reopens a locked account.  (Onboarding takes this apart.)
Decide(d, verdict) ==
  /\ d \in Reviewed
  /\ ~row[d].deleted
  /\ papers' = [papers EXCEPT ![d] = verdict]
  /\ row' = [row EXCEPT ![d].account =
               IF verdict = "cleared" /\ @ = "locked_dl_expired" THEN "active" ELSE @]
  /\ UNCHANGED <<vehicle, trip, req>>

----------------------------------------------------------------------------
(* The vehicles.                                                           *)

\* (How many vehicles a driver may own, and their pictures: Garage.)
RegisterCheck(w, d, v) ==
  /\ SignedIn(d)
  /\ v \notin Company /\ vehicle[v].status = "absent"
  /\ Begin(w, "register", d, v, None)
  /\ UNCHANGED <<row, papers, vehicle, trip>>

RegisterWrite(w) ==
  /\ req[w].op = "register"
  /\ vehicle[req[w].vehicle].status = "absent"
  /\ vehicle' = [vehicle EXCEPT ![req[w].vehicle].status = "active", ![req[w].vehicle].owner = req[w].driver]
  /\ Return(w)
  /\ UNCHANGED <<row, papers, trip>>

\* The console's status menu, which looks at nothing else.
SetStatus(v, s) ==
  /\ Listed(v)
  /\ s # vehicle[v].status
  /\ vehicle' = [vehicle EXCEPT ![v].status = s]
  /\ UNCHANGED <<row, papers, trip, req>>

\* Slip: an owner may also remove the vehicle they are driving.
RemoveCheckOnDuty(w, d, v) ==
  /\ SignedIn(d)
  /\ v \in OwnVehicles(d)
  /\ ~VehicleHasTrip(v)
  /\ Begin(w, "remove", d, v, None)
  /\ UNCHANGED <<row, papers, vehicle, trip>>

\* DriverVehicleService.remove, for an owner off duty or on another vehicle.
RemoveCheck(w, d, v) ==
  /\ SignedIn(d)
  /\ v \in OwnVehicles(d)
  /\ ~(row[d].online /\ row[d].vehicle = v)
  /\ ~VehicleHasTrip(v)
  /\ Begin(w, "remove", d, v, None)
  /\ UNCHANGED <<row, papers, vehicle, trip>>

\* VehicleService.disable_vehicle, which the company calls for any vehicle.
ScrapCheck(w, v) ==
  /\ Listed(v)
  /\ ~VehicleHasTrip(v)
  /\ Begin(w, "remove", None, v, None)
  /\ UNCHANGED <<row, papers, vehicle, trip>>

ScrapDisable(w) ==
  /\ req[w].op = "remove"
  /\ Stored(req[w].vehicle)
  /\ vehicle' = [vehicle EXCEPT ![req[w].vehicle].status = "disabled"]
  /\ Then(w, "disabled")
  /\ UNCHANGED <<row, papers, trip>>

ScrapDelete(w) ==
  /\ req[w].op = "disabled"
  /\ Stored(req[w].vehicle)
  /\ vehicle' = [vehicle EXCEPT ![req[w].vehicle].deleted = TRUE]
  /\ Then(w, "scrapped")
  /\ UNCHANGED <<row, papers, trip>>

\* The last step of remove; the company's call ends without it.
LetGo(w) ==
  /\ req[w].op = "scrapped"
  /\ row' = IF req[w].driver # None /\ req[w].held = req[w].vehicle
            THEN [row EXCEPT ![req[w].driver].vehicle = None] ELSE row
  /\ Return(w)
  /\ UNCHANGED <<papers, vehicle, trip>>

\* DELETE /vehicles/{id} is a real delete: trips keep NULL in its place.
EraseVehicle(v) ==
  /\ Listed(v)
  /\ vehicle' = [vehicle EXCEPT ![v] = [status |-> "erased", deleted |-> TRUE, owner |-> None, driving |-> None]]
  /\ trip' = [t \in Trips |-> IF trip[t].vehicle = v THEN [trip[t] EXCEPT !.vehicle = None] ELSE trip[t]]
  /\ UNCHANGED <<row, papers, req>>

----------------------------------------------------------------------------
(* Matching, as far as duty decides it.                                    *)

\* MatchingService, automatic or for a dispatcher: location and distance leave
\* the choice open.
Candidate(d) ==
  /\ ~row[d].deleted /\ row[d].online
  /\ Eligible(d) /\ ~DriverHasTrip(d)
  /\ row[d].vehicle # None
  /\ Listed(row[d].vehicle) /\ vehicle[row[d].vehicle].status = "active"

Match(w, t, d) ==
  /\ trip[t].status = "waiting"
  /\ Candidate(d)
  /\ Begin(w, "place", d, row[d].vehicle, t)
  /\ UNCHANGED <<row, papers, vehicle, trip>>

\* A vehicle deleted meanwhile cannot be referred to.
Place(w) ==
  /\ req[w].op = "place"
  /\ Stored(req[w].vehicle)
  /\ trip' = [trip EXCEPT ![req[w].trip] = [status |-> "assigned", driver |-> req[w].driver, vehicle |-> req[w].vehicle]]
  /\ Return(w)
  /\ UNCHANGED <<row, papers, vehicle>>

\* Completed or cancelled (TripLifecycle).  A trip that is over matters to nobody
\* here: its id stands for the next booking.
TripEnds(t) ==
  /\ trip[t].status = "assigned"
  /\ trip' = [trip EXCEPT ![t] = Waiting]
  /\ UNCHANGED <<row, papers, vehicle, req>>

----------------------------------------------------------------------------
DutyStep(w) ==
  \/ \E d \in Drivers, v \in Vehicles : OnlineFetch(w, d, v)
  \/ OnlineCheck(w) \/ OnlineSwitch(w) \/ OnlineTake(w) \/ OnlineNote(w)
  \/ \E d \in Drivers : OfflineCheck(w, d)
  \/ OfflineWrite(w)

AccountStep(w) ==
  \/ \E d \in Drivers : BlockCheck(w, d) \/ RetireCheck(w, d)
  \/ BlockWrite(w) \/ RetireWrite(w) \/ RetireDelete(w)

VehicleStep(w) ==
  \/ \E d \in Drivers, v \in Vehicles : RegisterCheck(w, d, v) \/ RemoveCheck(w, d, v)
  \/ \E v \in Vehicles : ScrapCheck(w, v)
  \/ RegisterWrite(w) \/ ScrapDisable(w) \/ ScrapDelete(w) \/ LetGo(w)

MatchStep(w) ==
  \/ \E t \in Trips, d \in Drivers : Match(w, t, d)
  \/ Place(w)

\* Single statements, whoever runs them.
Office ==
  \/ \E d \in Drivers : Unblock(d) \/ LicenceLapses(d) \/ \E p \in Papers : Decide(d, p)
  \/ LockExpired
  \/ \E v \in Vehicles : EraseVehicle(v) \/ \E s \in Menu : SetStatus(v, s)
  \/ \E t \in Trips : TripEnds(t)

Next ==
  \/ \E w \in Workers : DutyStep(w) \/ AccountStep(w) \/ VehicleStep(w) \/ MatchStep(w) \/ Abort(w)
  \/ Office

Spec == Init /\ [][Next]_vars

----------------------------------------------------------------------------
(* Properties.                                                             *)

TypeOK ==
  /\ row \in [Drivers -> Driver]
  /\ papers \in [Drivers -> Papers]
  /\ vehicle \in [Vehicles -> Vehicle]
  /\ trip \in [Trips -> Trip]
  /\ \A w \in Workers : req[w].driver \in Drivers \union {None} /\ req[w].vehicle \in Vehicles \union {None}

\* available_vehicles and go_online: two drivers on duty never have the same vehicle.
OneDriverPerVehicle ==
  \A d, e \in Drivers : d # e /\ row[d].online /\ row[e].online => row[d].vehicle # row[e].vehicle

\* The checks of go_offline, disable, block, disable_vehicle and remove together: a
\* driver with a trip is on duty, in an account nobody closed, with the vehicle the
\* trip was assigned on (unless its row was deleted outright).
TripDriverOnDuty ==
  \A t \in Trips : trip[t].status = "assigned" =>
    LET d == trip[t].driver IN
    /\ row[d].online /\ ~row[d].deleted /\ row[d].account # "disabled"
    /\ trip[t].vehicle \in {row[d].vehicle, None}

\* go_online keeps the two loose references in step, also when it stops halfway: the
\* driver a vehicle of the fleet names is a driver whose current vehicle it is.
DrivingAgrees ==
  \A v \in Vehicles, d \in Drivers : Listed(v) /\ vehicle[v].driving = d => row[d].vehicle = v

\* remove and go_online: whoever is on duty has a vehicle, and no other driver's.
OnDutyWithVehicle ==
  \A d \in Drivers : row[d].online =>
    /\ row[d].vehicle # None
    /\ vehicle[row[d].vehicle].owner \in {None, d}

\* go_online and remove: a driver's vehicle changes only while they have no trip.
NoSwitchOnTrip == [][\A d \in Drivers : DriverHasTrip(d) => row'[d].vehicle = row[d].vehicle]_vars
=============================================================================
