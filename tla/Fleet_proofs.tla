---------------------------- MODULE Fleet_proofs ----------------------------
(***************************************************************************)
(* What Fleet guarantees of drivers, vehicles and trips.  The columns are  *)
(* typed however many requests overlap.  The agreements between the three  *)
(* tables hold while requests do not overlap: with one worker, or with     *)
(* many that never serve two at a time.  A request may die between any two *)
(* of its saves, and the single statements of the office (a decision, the  *)
(* daily task, a status, a real delete, the end of a trip) come whenever   *)
(* they like.  The run FleetRace shows what two overlapping requests make  *)
(* of these promises.                                                      *)
(***************************************************************************)
EXTENDS Fleet, TLAPS

----------------------------------------------------------------------------
(* The columns.                                                            *)

Ops == {"idle", "online", "switch", "take", "taken", "offline", "block", "retire", "retired", "register", "remove",
        "disabled", "scrapped", "place"}

Request == [op: Ops, driver: Drivers \union {None}, vehicle: Vehicles \union {None}, trip: Trips \union {None},
            held: Vehicles \union {None}]

ReqOK  == req \in [Workers -> Request]
Typed  == TypeOK /\ ReqOK
tables == <<row, papers, vehicle, trip>>

\* A request begins, goes on or ends, and the columns are as they were.
LEMMA RequestTyped ==
  ASSUME Typed, NEW w \in Workers
  PROVE  /\ Idle \in Request
         /\ \A op \in Ops : [req[w] EXCEPT !.op = op] \in Request
         /\ \A op \in Ops, d \in Drivers \union {None}, v \in Vehicles \union {None}, t \in Trips \union {None} :
              Begin(w, op, d, v, t) => ReqOK'
         /\ \A op \in Ops : Then(w, op) => ReqOK'
         /\ Return(w) => ReqOK'
<1> USE DEF Typed, ReqOK, Request
<1>1. Idle \in Request /\ Return(w) => ReqOK'
  BY DEF Idle, Ops, Return
<1>2. ASSUME NEW op \in Ops PROVE [req[w] EXCEPT !.op = op] \in Request /\ (Then(w, op) => ReqOK')
  BY DEF Then
<1>3. ASSUME NEW op \in Ops, NEW d \in Drivers \union {None}, NEW v \in Vehicles \union {None},
             NEW t \in Trips \union {None}, Begin(w, op, d, v, t)
      PROVE  ReqOK'
  <2>1. (IF d = None THEN None ELSE row[d].vehicle) \in Vehicles \union {None}
    BY <1>3 DEF TypeOK, Driver
  <2> QED BY <1>3, <2>1 DEF Begin
<1>4. Idle \in Request
  BY DEF Idle, Ops
<1> HIDE DEF Request, ReqOK
<1> QED BY <1>1, <1>2, <1>3, <1>4

\* The requests that only look.
LEMMA LookTyped ==
  ASSUME Typed, NEW w \in Workers,
         \/ \E d \in Drivers : OfflineCheck(w, d) \/ BlockCheck(w, d) \/ RetireCheck(w, d)
         \/ \E d \in Drivers, v \in Vehicles : OnlineFetch(w, d, v) \/ RegisterCheck(w, d, v) \/ RemoveCheck(w, d, v)
         \/ \E v \in Vehicles : ScrapCheck(w, v)
         \/ \E t \in Trips, d \in Drivers : Match(w, t, d)
         \/ OnlineCheck(w) \/ Abort(w)
  PROVE  Typed'
<1>1. UNCHANGED tables
  BY DEF tables, OfflineCheck, BlockCheck, RetireCheck, OnlineFetch, RegisterCheck, RemoveCheck, ScrapCheck, Match,
     OnlineCheck, Abort
<1>2. \A d \in Drivers : row[d].vehicle \in Vehicles \union {None}
  BY DEF Typed, TypeOK, Driver
<1>3. ReqOK'
  BY <1>2, RequestTyped DEF OfflineCheck, BlockCheck, RetireCheck, OnlineFetch, RegisterCheck, RemoveCheck, ScrapCheck,
     Match, OnlineCheck, Abort, Ops
<1> QED BY <1>1, <1>3 DEF Typed, TypeOK, tables, ReqOK, Request

\* The requests that save a row.
LEMMA SaveTyped ==
  ASSUME Typed, NEW w \in Workers,
         \/ OnlineSwitch(w) \/ OnlineTake(w) \/ OnlineNote(w) \/ OfflineWrite(w) \/ BlockWrite(w)
         \/ RetireWrite(w) \/ RetireDelete(w) \/ RegisterWrite(w) \/ ScrapDisable(w) \/ ScrapDelete(w)
         \/ LetGo(w) \/ Place(w)
  PROVE  Typed'
<1>0. req[w] \in Request
  BY DEF Typed, ReqOK
<1>1. ReqOK'
  BY RequestTyped DEF OnlineSwitch, OnlineTake, OnlineNote, OfflineWrite, BlockWrite, RetireWrite, RetireDelete,
     RegisterWrite, ScrapDisable, ScrapDelete, LetGo, Place, Ops
<1>2. row' \in [Drivers -> Driver]
  <2>1. CASE OnlineTake(w)
    <3>1. row' = [row EXCEPT ![req[w].driver].vehicle = req[w].vehicle, ![req[w].driver].online = TRUE]
      BY <2>1 DEF OnlineTake
    <3>2. row \in [Drivers -> Driver] /\ req[w].vehicle \in Vehicles \union {None}
      BY <1>0 DEF Typed, TypeOK, Request
    <3>3. ASSUME NEW e \in Drivers PROVE row'[e] \in Driver
      <4>1. row'[e] = IF e = req[w].driver THEN [row[e] EXCEPT !.vehicle = req[w].vehicle, !.online = TRUE] ELSE row[e]
        BY <3>1, <3>2
      <4>2. row[e] \in Driver
        BY <3>2
      <4>3. [row[e] EXCEPT !.vehicle = req[w].vehicle, !.online = TRUE] \in Driver
        BY <3>2, <4>2 DEF Driver
      <4> QED BY <4>1, <4>2, <4>3
    <3> QED BY <3>1, <3>2, <3>3
  <2>2. CASE OfflineWrite(w) \/ BlockWrite(w) \/ RetireWrite(w) \/ RetireDelete(w)
    <3>1. row \in [Drivers -> Driver] /\ row' = [e \in Drivers |-> row'[e]]
      BY <2>2 DEF OfflineWrite, BlockWrite, RetireWrite, RetireDelete, DisableRow, Typed, TypeOK
    <3>2. ASSUME NEW e \in Drivers PROVE row'[e] \in Driver
      <4>1. row[e] \in Driver
        BY <3>1
      <4>2. row'[e] \in {row[e], [row[e] EXCEPT !.online = FALSE], [row[e] EXCEPT !.deleted = TRUE],
                         [row[e] EXCEPT !.account = "disabled", !.online = FALSE]}
        BY <2>2, <3>1 DEF OfflineWrite, BlockWrite, RetireWrite, RetireDelete, DisableRow
      <4> QED BY <4>1, <4>2 DEF Driver
    <3> QED BY <3>1, <3>2
  <2>3. CASE LetGo(w)
    BY <2>3 DEF LetGo, Typed, TypeOK, Driver
  <2>4. CASE UNCHANGED row
    BY <2>4 DEF Typed, TypeOK
  <2> QED BY <2>1, <2>2, <2>3, <2>4 DEF OnlineSwitch, OnlineNote, RegisterWrite, ScrapDisable, ScrapDelete, Place
<1>3. vehicle' \in [Vehicles -> Vehicle]
  <2>1. CASE OnlineSwitch(w)
    BY <2>1 DEF OnlineSwitch, Typed, TypeOK, Vehicle
  <2>2. CASE OnlineNote(w) \/ RegisterWrite(w)
    <3>1. vehicle \in [Vehicles -> Vehicle] /\ vehicle' = [v \in Vehicles |-> vehicle'[v]]
      BY <2>2 DEF OnlineNote, RegisterWrite, Typed, TypeOK
    <3>2. req[w].driver \in Drivers \union {None}
      BY <1>0 DEF Request
    <3>3. ASSUME NEW v \in Vehicles PROVE vehicle'[v] \in Vehicle
      <4>1. vehicle[v] \in Vehicle
        BY <3>1
      <4> QED BY <2>2, <3>1, <3>2, <4>1 DEF OnlineNote, RegisterWrite, Vehicle
    <3> QED BY <3>1, <3>3
  <2>3. CASE ScrapDisable(w) \/ ScrapDelete(w)
    <3>1. vehicle \in [Vehicles -> Vehicle] /\ vehicle' = [v \in Vehicles |-> vehicle'[v]]
      BY <2>3 DEF ScrapDisable, ScrapDelete, Typed, TypeOK
    <3>2. ASSUME NEW v \in Vehicles PROVE vehicle'[v] \in Vehicle
      <4>1. vehicle[v] \in Vehicle
        BY <3>1
      <4>2. vehicle'[v] \in {vehicle[v], [vehicle[v] EXCEPT !.status = "disabled"], [vehicle[v] EXCEPT !.deleted = TRUE]}
        BY <2>3, <3>1 DEF ScrapDisable, ScrapDelete
      <4> QED BY <4>1, <4>2 DEF Vehicle
    <3> QED BY <3>1, <3>2
  <2>4. CASE UNCHANGED vehicle
    BY <2>4 DEF Typed, TypeOK
  <2> QED BY <2>1, <2>2, <2>3, <2>4 DEF OnlineTake, OfflineWrite, BlockWrite, RetireWrite, RetireDelete, LetGo, Place
<1>4. trip' \in [Trips -> Trip]
  <2>1. CASE Place(w)
    BY <1>0, <2>1 DEF Place, Typed, TypeOK, Trip, Request
  <2>2. CASE UNCHANGED trip
    BY <2>2 DEF Typed, TypeOK
  <2> QED BY <2>1, <2>2 DEF OnlineSwitch, OnlineTake, OnlineNote, OfflineWrite, BlockWrite, RetireWrite, RetireDelete,
      RegisterWrite, ScrapDisable, ScrapDelete, LetGo
<1>5. papers' = papers
  BY DEF OnlineSwitch, OnlineTake, OnlineNote, OfflineWrite, BlockWrite, RetireWrite, RetireDelete, RegisterWrite,
     ScrapDisable, ScrapDelete, LetGo, Place
<1>6. TypeOK'
  BY <1>1, <1>2, <1>3, <1>4, <1>5 DEF Typed, TypeOK, ReqOK, Request
<1> QED BY <1>1, <1>6 DEF Typed

\* The statements of the office.
LEMMA OfficeTyped == ASSUME Typed, Office PROVE Typed'
<1>1. req' = req
  BY DEF Office, Unblock, LicenceLapses, Decide, LockExpired, EraseVehicle, SetStatus, TripEnds
<1>2. row' \in [Drivers -> Driver]
  BY DEF Office, Unblock, LicenceLapses, Decide, LockExpired, EraseVehicle, SetStatus, TripEnds, Typed, TypeOK, Driver
<1>3. papers' \in [Drivers -> Papers]
  BY DEF Office, Unblock, LicenceLapses, Decide, LockExpired, EraseVehicle, SetStatus, TripEnds, Typed, TypeOK, Papers
<1>4. vehicle' \in [Vehicles -> Vehicle]
  <2>1. ASSUME NEW v \in Vehicles, NEW s \in Menu, SetStatus(v, s) PROVE vehicle' \in [Vehicles -> Vehicle]
    <3>1. s \in {"absent", "active", "maintenance", "disabled", "erased"}
      BY BoundsAssumption
    <3> QED BY <2>1, <3>1 DEF SetStatus, Typed, TypeOK, Vehicle
  <2>2. ASSUME NEW v \in Vehicles, EraseVehicle(v) PROVE vehicle' \in [Vehicles -> Vehicle]
    BY <2>2 DEF EraseVehicle, Typed, TypeOK, Vehicle
  <2>3. CASE UNCHANGED vehicle
    BY <2>3 DEF Typed, TypeOK
  <2> QED BY <2>1, <2>2, <2>3 DEF Office, Unblock, LicenceLapses, Decide, LockExpired, TripEnds
<1>5. trip' \in [Trips -> Trip]
  BY DEF Office, Unblock, LicenceLapses, Decide, LockExpired, EraseVehicle, SetStatus, TripEnds, Typed, TypeOK, Trip,
     Waiting
<1> QED BY <1>1, <1>2, <1>3, <1>4, <1>5 DEF Typed, TypeOK, ReqOK

\* Everything a step may be.
LEMMA TypedHolds == Spec => []Typed
<1>1. Init => Typed
  BY BoundsAssumption, CompanyAssumption DEF Init, Typed, TypeOK, ReqOK, Request, Ops, Driver, Vehicle, Trip, Papers, Waiting
<1>2. ASSUME Typed, UNCHANGED vars PROVE Typed'
  BY <1>2 DEF vars, Typed, TypeOK, ReqOK
<1>3. ASSUME Typed, NEW w \in Workers, DutyStep(w) \/ AccountStep(w) \/ VehicleStep(w) \/ MatchStep(w) \/ Abort(w)
      PROVE  Typed'
  BY <1>3, LookTyped, SaveTyped DEF DutyStep, AccountStep, VehicleStep, MatchStep
<1>4. Typed /\ [Next]_vars => Typed'
  BY <1>2, <1>3, OfficeTyped DEF Next
<1> QED BY <1>1, <1>4, PTL DEF Spec

\* Whoever writes the rows of drivers, vehicles and trips, and however their requests
\* overlap, the columns hold what their choices allow and a request names rows by their
\* ids (go_online, block, disable_vehicle, Match and the others).
THEOREM RowsTyped == Spec => []TypeOK
<1>1. Typed => TypeOK
  BY DEF Typed
<1> QED BY <1>1, TypedHolds, PTL

----------------------------------------------------------------------------
(* While requests do not overlap.                                          *)

NoOverlap == \A v, w \in Workers : v # w => req[v] = Idle \/ req[w] = Idle

\* A driver the company let go is off duty.
GoneIsOff == \A d \in Drivers : row[d].deleted => ~row[d].online

\* A vehicle not yet inserted names nobody, and nobody names it.
AbsentIsBlank ==
  /\ \A v \in Vehicles : vehicle[v].status = "absent" => vehicle[v].driving = None
  /\ \A d \in Drivers : row[d].vehicle # None => vehicle[row[d].vehicle].status # "absent"

TripsNamed == \A t \in Trips : trip[t].status = "assigned" => trip[t].driver \in Drivers

\* go_online: what it has checked is still so, one save after the other.
GoesOnline(r) ==
  r.op \in {"online", "switch", "take", "taken"} =>
    /\ r.driver \in Drivers /\ r.vehicle \in Vehicles
    /\ ~row[r.driver].deleted /\ vehicle[r.vehicle].status # "absent"
    /\ r.op = "taken" => row[r.driver].vehicle = r.vehicle
    /\ r.op # "taken" => row[r.driver].vehicle = r.held
    /\ r.op \in {"switch", "take"} =>
         ~Taken(r.vehicle, r.driver) /\ vehicle[r.vehicle].owner \in {None, r.driver}
    /\ r.op = "take" =>
         /\ r.held \notin {None, r.vehicle} => ~DriverHasTrip(r.driver)
         /\ \A v \in Vehicles : Listed(v) /\ vehicle[v].driving = r.driver => v = r.vehicle

\* go_offline, block and disable: the driver has no trip.
GoesOff(r) ==
  r.op \in {"offline", "block", "retire", "retired"} =>
    /\ r.driver \in Drivers /\ ~DriverHasTrip(r.driver)
    /\ r.op = "retired" => ~row[r.driver].online

\* remove and disable_vehicle: the owner is not on duty with it.
Removes(r) ==
  r.op \in {"remove", "disabled", "scrapped"} =>
    /\ r.vehicle \in Vehicles
    /\ r.driver # None => /\ r.driver \in Drivers /\ row[r.driver].vehicle = r.held
                          /\ r.held = r.vehicle => ~row[r.driver].online
    /\ r.op = "scrapped" => vehicle[r.vehicle].deleted

Registers(r) == r.op = "register" => r.driver \in Drivers /\ r.vehicle \in Vehicles

\* Matching: the driver is still on duty with the vehicle.
Places(r) ==
  r.op = "place" =>
    /\ r.driver \in Drivers /\ r.vehicle \in Vehicles /\ r.trip \in Trips
    /\ row[r.driver].online /\ ~row[r.driver].deleted /\ row[r.driver].account # "disabled"
    /\ row[r.driver].vehicle = r.vehicle

Current(r) == GoesOnline(r) /\ GoesOff(r) /\ Removes(r) /\ Registers(r) /\ Places(r)

FleetDb ==
  /\ OneDriverPerVehicle /\ TripDriverOnDuty /\ DrivingAgrees /\ OnDutyWithVehicle
  /\ GoneIsOff /\ AbsentIsBlank /\ TripsNamed

FleetInv == FleetDb /\ \A w \in Workers : Current(req[w])

\* While one request goes a step, the others rest.
LEMMA OthersRest ==
  ASSUME Typed, NoOverlap, NoOverlap', NEW w \in Workers, NEW x, req' = [req EXCEPT ![w] = x],
         req[w] # Idle \/ x # Idle
  PROVE  req'[w] = x /\ \A v \in Workers \ {w} : req'[v] = Idle
<1>1. req'[w] = x /\ \A v \in Workers \ {w} : req'[v] = req[v]
  BY DEF Typed, ReqOK
<1> QED BY <1>1 DEF NoOverlap

\* So only the request that went the step has anything to remember.
LEMMA OneRemembers ==
  ASSUME Typed, NoOverlap, NoOverlap', NEW w \in Workers, NEW x, req' = [req EXCEPT ![w] = x],
         req[w] # Idle \/ x # Idle, Current(x)'
  PROVE  (\A v \in Workers : Current(req[v]))'
<1>1. req'[w] = x /\ \A v \in Workers \ {w} : req'[v] = Idle
  BY OthersRest
<1>2. Current(Idle)'
  BY DEF Current, GoesOnline, GoesOff, Removes, Registers, Places, Idle
<1>3. ASSUME NEW v \in Workers PROVE Current(req[v])'
  BY <1>1, <1>2 DEF Current, GoesOnline, GoesOff, Removes, Registers, Places
<1> QED BY <1>3

\* A request that looks, and remembers what is so.
LEMMA LookKept ==
  ASSUME Typed, FleetInv, NoOverlap, NoOverlap', NEW w \in Workers, NEW x, req' = [req EXCEPT ![w] = x],
         req[w] # Idle \/ x # Idle, UNCHANGED <<row, vehicle, trip>>, Current(x)
  PROVE  FleetInv'
<1>1. FleetDb'
  BY DEF FleetInv, FleetDb, OneDriverPerVehicle, TripDriverOnDuty, DrivingAgrees, OnDutyWithVehicle, GoneIsOff,
     AbsentIsBlank, TripsNamed, Listed, Stored
<1>2. Current(x)'
  BY DEF Current, GoesOnline, GoesOff, Removes, Registers, Places, Taken, DriverHasTrip, Listed, Stored
<1> QED BY <1>1, <1>2, OneRemembers DEF FleetInv

\* The request that begins.
LEMMA Begun ==
  ASSUME NEW w, NEW op, NEW d, NEW v, NEW t, Begin(w, op, d, v, t), op # "idle"
  PROVE  \E x : /\ req' = [req EXCEPT ![w] = x] /\ x # Idle /\ x.op = op /\ x.driver = d /\ x.vehicle = v
                /\ x.trip = t /\ x.held = (IF d = None THEN None ELSE row[d].vehicle)
<1>1. PICK x : x = [op |-> op, driver |-> d, vehicle |-> v, trip |-> t, held |-> IF d = None THEN None ELSE row[d].vehicle]
  OBVIOUS
<1>2. req' = [req EXCEPT ![w] = x]
  BY <1>1 DEF Begin
<1>3. /\ x # Idle /\ x.op = op /\ x.driver = d /\ x.vehicle = v
      /\ x.trip = t /\ x.held = (IF d = None THEN None ELSE row[d].vehicle)
  BY <1>1 DEF Idle
<1> QED BY <1>2, <1>3

\* Any request that looks.
LEMMA LooksKept ==
  ASSUME Typed, FleetInv, NoOverlap, NoOverlap', NEW w \in Workers,
         \/ \E d \in Drivers : OfflineCheck(w, d) \/ BlockCheck(w, d) \/ RetireCheck(w, d)
         \/ \E d \in Drivers, v \in Vehicles : OnlineFetch(w, d, v) \/ RegisterCheck(w, d, v) \/ RemoveCheck(w, d, v)
         \/ \E v \in Vehicles : ScrapCheck(w, v)
         \/ \E t \in Trips, d \in Drivers : Match(w, t, d)
         \/ OnlineCheck(w) \/ Abort(w)
  PROVE  FleetInv'
<1>1. UNCHANGED <<row, vehicle, trip>>
  BY DEF OfflineCheck, BlockCheck, RetireCheck, OnlineFetch, RegisterCheck, RemoveCheck, ScrapCheck, Match,
     OnlineCheck, Abort
<1> USE DEF Current, GoesOnline, GoesOff, Removes, Registers, Places
<1>2. ASSUME NEW d \in Drivers, OfflineCheck(w, d) \/ BlockCheck(w, d) \/ RetireCheck(w, d) PROVE FleetInv'
  <2>1. PICK x : /\ req' = [req EXCEPT ![w] = x] /\ x.op \in {"offline", "block", "retire"} /\ x.driver = d
                 /\ x # Idle /\ ~DriverHasTrip(d)
    BY <1>2, Begun DEF OfflineCheck, BlockCheck, RetireCheck
  <2>2. Current(x)
    BY <2>1
  <2> QED BY <1>1, <2>1, <2>2, LookKept
<1>3. ASSUME NEW d \in Drivers, NEW v \in Vehicles, OnlineFetch(w, d, v) PROVE FleetInv'
  <2>1. PICK x : /\ req' = [req EXCEPT ![w] = x] /\ x # Idle
                 /\ x.op = "online" /\ x.driver = d /\ x.vehicle = v /\ x.held = row[d].vehicle
    BY <1>3, Begun, NullAssumption DEF OnlineFetch
  <2>2. Current(x)
    BY <1>3, <2>1 DEF OnlineFetch, SignedIn, Listed, Stored
  <2> QED BY <1>1, <2>1, <2>2, LookKept
<1>4. ASSUME NEW d \in Drivers, NEW v \in Vehicles, RegisterCheck(w, d, v) PROVE FleetInv'
  <2>1. PICK x : req' = [req EXCEPT ![w] = x] /\ x # Idle /\ x.op = "register" /\ x.driver = d /\ x.vehicle = v
    BY <1>4, Begun DEF RegisterCheck
  <2>2. Current(x)
    BY <2>1
  <2> QED BY <1>1, <2>1, <2>2, LookKept
<1>5. ASSUME NEW d \in Drivers, NEW v \in Vehicles, RemoveCheck(w, d, v) PROVE FleetInv'
  <2>1. PICK x : /\ req' = [req EXCEPT ![w] = x] /\ x # Idle
                 /\ x.op = "remove" /\ x.driver = d /\ x.vehicle = v /\ x.held = row[d].vehicle
    BY <1>5, Begun, NullAssumption DEF RemoveCheck
  <2>2. Current(x)
    BY <1>5, <2>1 DEF RemoveCheck, Typed, TypeOK, Driver
  <2> QED BY <1>1, <2>1, <2>2, LookKept
<1>6. ASSUME NEW v \in Vehicles, ScrapCheck(w, v) PROVE FleetInv'
  <2>1. PICK x : req' = [req EXCEPT ![w] = x] /\ x # Idle /\ x.op = "remove" /\ x.driver = None /\ x.vehicle = v
    BY <1>6, Begun DEF ScrapCheck
  <2>2. Current(x)
    BY <2>1
  <2> QED BY <1>1, <2>1, <2>2, LookKept
<1>7. ASSUME NEW t \in Trips, NEW d \in Drivers, Match(w, t, d) PROVE FleetInv'
  <2>1. PICK x : /\ req' = [req EXCEPT ![w] = x] /\ x # Idle /\ x.op = "place"
                 /\ x.driver = d /\ x.vehicle = row[d].vehicle /\ x.trip = t
    BY <1>7, Begun DEF Match
  <2>2. Current(x)
    BY <1>7, <2>1 DEF Match, Candidate, Eligible, Typed, TypeOK, Driver
  <2> QED BY <1>1, <2>1, <2>2, LookKept
<1>8. CASE OnlineCheck(w)
  <2>1. req[w] \in Request /\ req[w].op = "online" /\ Current(req[w]) /\ Available(req[w].vehicle, req[w].driver)
    BY <1>8 DEF OnlineCheck, Typed, ReqOK, FleetInv
  <2>2. PICK x : x = [req[w] EXCEPT !.op = "switch"]
    OBVIOUS
  <2>3. x.op = "switch" /\ x.driver = req[w].driver /\ x.vehicle = req[w].vehicle /\ x.held = req[w].held
    BY <2>1, <2>2 DEF Request
  <2>4. Current(x)
    BY <2>1, <2>3 DEF Available
  <2>5. req' = [req EXCEPT ![w] = x] /\ x # Idle
    BY <1>8, <2>2, <2>3 DEF OnlineCheck, Then, Idle
  <2> QED BY <1>1, <2>4, <2>5, LookKept
<1>9. CASE Abort(w)
  <2>1. Current(Idle)
    BY DEF Idle
  <2>2. req' = [req EXCEPT ![w] = Idle] /\ req[w] # Idle
    BY <1>9 DEF Abort, Return, Idle
  <2> QED BY <1>1, <2>1, <2>2, LookKept
<1> QED BY <1>2, <1>3, <1>4, <1>5, <1>6, <1>7, <1>8, <1>9

\* The request that goes on.
LEMMA GoesOn ==
  ASSUME Typed, NEW w \in Workers, NEW op, Then(w, op)
  PROVE  \E x : /\ req' = [req EXCEPT ![w] = x] /\ x.op = op /\ x.driver = req[w].driver
                /\ x.vehicle = req[w].vehicle /\ x.trip = req[w].trip /\ x.held = req[w].held
<1>1. req[w] \in Request
  BY DEF Typed, ReqOK
<1>2. PICK x : x = [req[w] EXCEPT !.op = op]
  OBVIOUS
<1>3. req' = [req EXCEPT ![w] = x]
  BY <1>2 DEF Then
<1>4. /\ x.op = op /\ x.driver = req[w].driver
      /\ x.vehicle = req[w].vehicle /\ x.trip = req[w].trip /\ x.held = req[w].held
  BY <1>1, <1>2 DEF Request
<1> QED BY <1>3, <1>4

\* A request that ends has nothing left to remember.
LEMMA EndKept ==
  ASSUME Typed, NoOverlap, NoOverlap', NEW w \in Workers, Return(w), req[w] # Idle
  PROVE  (\A v \in Workers : Current(req[v]))'
<1>1. Current(Idle)'
  BY DEF Current, GoesOnline, GoesOff, Removes, Registers, Places, Idle
<1>2. req' = [req EXCEPT ![w] = Idle]
  BY DEF Return
<1>3. PICK x : x = Idle
  OBVIOUS
<1>4. Current(x)'
  BY <1>1, <1>3
<1> QED BY <1>2, <1>3, <1>4, OneRemembers

\* go_online lets the vehicle of the last shift go.
LEMMA SwitchKept ==
  ASSUME Typed, FleetInv, NoOverlap, NoOverlap', NEW w \in Workers, OnlineSwitch(w)
  PROVE  FleetInv'
<1> DEFINE r == req[w]
<1>1. /\ r.op = "switch" /\ Current(r) /\ UNCHANGED <<row, trip>> /\ Then(w, "take")
      /\ r.held \notin {None, r.vehicle} => ~DriverHasTrip(r.driver)
  BY DEF OnlineSwitch, FleetInv
<1>2. /\ r.driver \in Drivers /\ r.vehicle \in Vehicles /\ r.driver # None
      /\ row[r.driver].vehicle = r.held
  BY <1>1, NullAssumption DEF Current, GoesOnline
<1>3. ASSUME NEW v \in Vehicles
      PROVE  /\ vehicle'[v].status = vehicle[v].status /\ vehicle'[v].deleted = vehicle[v].deleted
             /\ vehicle'[v].owner = vehicle[v].owner /\ vehicle'[v].driving \in {vehicle[v].driving, None}
             /\ v = r.held /\ v # r.vehicle => vehicle'[v].driving # r.driver
  BY <1>2 DEF OnlineSwitch, Typed, TypeOK, Vehicle
<1>4. FleetDb'
  <2>1. OneDriverPerVehicle' /\ TripDriverOnDuty' /\ GoneIsOff' /\ TripsNamed'
    BY <1>1 DEF FleetInv, FleetDb, OneDriverPerVehicle, TripDriverOnDuty, GoneIsOff, TripsNamed
  <2>2. DrivingAgrees'
    BY <1>1, <1>3, NullAssumption DEF FleetInv, FleetDb, DrivingAgrees, Listed, Stored
  <2>3. \A d \in Drivers : row[d].vehicle \in Vehicles \union {None}
    BY DEF Typed, TypeOK, Driver
  <2>4. OnDutyWithVehicle' /\ AbsentIsBlank'
    BY <1>1, <1>3, <2>3 DEF FleetInv, FleetDb, OnDutyWithVehicle, AbsentIsBlank
  <2> QED BY <2>1, <2>2, <2>4 DEF FleetDb
<1>5. PICK x : /\ req' = [req EXCEPT ![w] = x] /\ x.op = "take" /\ x.driver = r.driver
               /\ x.vehicle = r.vehicle /\ x.held = r.held
  BY <1>1, GoesOn
<1>6. \A v \in Vehicles : Listed(v)' /\ vehicle'[v].driving = r.driver => v = r.vehicle
  <2> SUFFICES ASSUME NEW v \in Vehicles, Listed(v)', vehicle'[v].driving = r.driver PROVE v = r.vehicle
    OBVIOUS
  <2>1. Listed(v) /\ vehicle[v].driving = r.driver
    BY <1>2, <1>3 DEF Listed, Stored
  <2>2. v = r.held
    BY <1>2, <2>1 DEF FleetInv, FleetDb, DrivingAgrees
  <2> QED BY <1>3, <2>2
<1>7. Current(x)'
  BY <1>1, <1>2, <1>3, <1>5, <1>6 DEF Current, GoesOnline, GoesOff, Removes, Registers, Places, Taken, DriverHasTrip
<1>8. x # Idle
  BY <1>5 DEF Idle
<1> QED BY <1>4, <1>5, <1>7, <1>8, OneRemembers DEF FleetInv

\* What a driver's row holds after one of these saves.
LEMMA RowAfter ==
  ASSUME Typed, NEW w \in Workers, req[w].driver \in Drivers
  PROVE  /\ OnlineTake(w) => row' = [e \in Drivers |-> IF e = req[w].driver
                       THEN [row[e] EXCEPT !.vehicle = req[w].vehicle, !.online = TRUE] ELSE row[e]]
         /\ OfflineWrite(w) => row' = [e \in Drivers |-> IF e = req[w].driver THEN [row[e] EXCEPT !.online = FALSE] ELSE row[e]]
         /\ BlockWrite(w) \/ RetireWrite(w) => row' = [e \in Drivers |-> IF e = req[w].driver
                       THEN [row[e] EXCEPT !.account = "disabled", !.online = FALSE] ELSE row[e]]
         /\ RetireDelete(w) => row' = [e \in Drivers |-> IF e = req[w].driver THEN [row[e] EXCEPT !.deleted = TRUE] ELSE row[e]]
BY DEF Typed, TypeOK, OnlineTake, OfflineWrite, BlockWrite, RetireWrite, RetireDelete, DisableRow

\* go_online takes the vehicle.
LEMMA TakeKept ==
  ASSUME Typed, FleetInv, NoOverlap, NoOverlap', NEW w \in Workers, OnlineTake(w)
  PROVE  FleetInv'
<1> DEFINE r == req[w]
<1>1. r.op = "take" /\ Current(r) /\ UNCHANGED <<vehicle, trip>> /\ Then(w, "taken")
  BY DEF OnlineTake, FleetInv
<1>2. /\ r.driver \in Drivers /\ r.vehicle \in Vehicles /\ ~row[r.driver].deleted
      /\ vehicle[r.vehicle].status # "absent" /\ row[r.driver].vehicle = r.held
      /\ ~Taken(r.vehicle, r.driver) /\ vehicle[r.vehicle].owner \in {None, r.driver}
      /\ r.held \notin {None, r.vehicle} => ~DriverHasTrip(r.driver)
      /\ \A v \in Vehicles : Listed(v) /\ vehicle[v].driving = r.driver => v = r.vehicle
  BY <1>1 DEF Current, GoesOnline
<1>3. /\ row'[r.driver].vehicle = r.vehicle /\ row'[r.driver].online
      /\ row'[r.driver].deleted = row[r.driver].deleted /\ row'[r.driver].account = row[r.driver].account
      /\ \A e \in Drivers \ {r.driver} : row'[e] = row[e]
  <2>1. row' = [e \in Drivers |-> IF e = r.driver THEN [row[e] EXCEPT !.vehicle = r.vehicle, !.online = TRUE] ELSE row[e]]
    BY <1>2, RowAfter
  <2>2. row[r.driver] \in Driver
    BY <1>2 DEF Typed, TypeOK
  <2> QED BY <1>2, <2>1, <2>2 DEF Driver
<1>4. OneDriverPerVehicle'
  BY <1>2, <1>3 DEF FleetInv, FleetDb, OneDriverPerVehicle, GoneIsOff, Taken
<1>5. TripDriverOnDuty'
  <2> SUFFICES ASSUME NEW t \in Trips, trip[t].status = "assigned"
               PROVE  /\ row'[trip[t].driver].online /\ ~row'[trip[t].driver].deleted
                      /\ row'[trip[t].driver].account # "disabled"
                      /\ trip[t].vehicle \in {row'[trip[t].driver].vehicle, None}
    BY <1>1 DEF TripDriverOnDuty
  <2>1. /\ trip[t].driver \in Drivers /\ row[trip[t].driver].online /\ ~row[trip[t].driver].deleted
        /\ row[trip[t].driver].account # "disabled"
        /\ trip[t].vehicle \in {row[trip[t].driver].vehicle, None} /\ row[trip[t].driver].vehicle # None
    BY DEF FleetInv, FleetDb, TripsNamed, TripDriverOnDuty, OnDutyWithVehicle
  <2>2. CASE trip[t].driver = r.driver
    <3>1. DriverHasTrip(r.driver)
      BY <2>2 DEF DriverHasTrip
    <3>2. r.held = r.vehicle
      BY <1>2, <2>1, <2>2, <3>1
    <3> QED BY <1>2, <1>3, <2>1, <2>2, <3>2
  <2>3. CASE trip[t].driver # r.driver
    BY <1>3, <2>1, <2>3
  <2> QED BY <2>2, <2>3
<1>6. DrivingAgrees'
  BY <1>1, <1>2, <1>3 DEF FleetInv, FleetDb, DrivingAgrees, Listed, Stored
<1>7. OnDutyWithVehicle' /\ AbsentIsBlank'
  BY <1>1, <1>2, <1>3, NullAssumption DEF FleetInv, FleetDb, OnDutyWithVehicle, AbsentIsBlank
<1>8. GoneIsOff' /\ TripsNamed'
  BY <1>1, <1>2, <1>3 DEF FleetInv, FleetDb, GoneIsOff, TripsNamed
<1>9. PICK x : req' = [req EXCEPT ![w] = x] /\ x.op = "taken" /\ x.driver = r.driver /\ x.vehicle = r.vehicle
  BY <1>1, GoesOn
<1>10. Current(x)'
  BY <1>1, <1>2, <1>3, <1>9 DEF Current, GoesOnline, GoesOff, Removes, Registers, Places
<1>11. x # Idle
  BY <1>9 DEF Idle
<1> QED BY <1>4, <1>5, <1>6, <1>7, <1>8, <1>9, <1>10, <1>11, OneRemembers DEF FleetInv, FleetDb

\* go_online notes the driver at the vehicle.
LEMMA NoteKept ==
  ASSUME Typed, FleetInv, NoOverlap, NoOverlap', NEW w \in Workers, OnlineNote(w)
  PROVE  FleetInv'
<1> DEFINE r == req[w]
<1>1. /\ r.op = "taken" /\ Current(r) /\ UNCHANGED <<row, trip>> /\ Return(w) /\ Stored(r.vehicle)
      /\ vehicle' = [vehicle EXCEPT ![r.vehicle].driving = r.driver]
  BY DEF OnlineNote, FleetInv
<1>2. r.driver \in Drivers /\ r.vehicle \in Vehicles /\ row[r.driver].vehicle = r.vehicle
  BY <1>1 DEF Current, GoesOnline
<1>3. ASSUME NEW v \in Vehicles
      PROVE  /\ vehicle'[v].status = vehicle[v].status /\ vehicle'[v].deleted = vehicle[v].deleted
             /\ vehicle'[v].owner = vehicle[v].owner
             /\ vehicle'[v].driving = (IF v = r.vehicle THEN r.driver ELSE vehicle[v].driving)
  BY <1>1, <1>2 DEF Typed, TypeOK, Vehicle
<1>4. \A d \in Drivers : row[d].vehicle \in Vehicles \union {None}
  BY DEF Typed, TypeOK, Driver
<1>5. FleetDb'
  <2>1. OneDriverPerVehicle' /\ TripDriverOnDuty' /\ GoneIsOff' /\ TripsNamed'
    BY <1>1 DEF FleetInv, FleetDb, OneDriverPerVehicle, TripDriverOnDuty, GoneIsOff, TripsNamed
  <2>2. DrivingAgrees'
    BY <1>1, <1>2, <1>3 DEF FleetInv, FleetDb, DrivingAgrees, Listed, Stored
  <2>3. OnDutyWithVehicle' /\ AbsentIsBlank'
    BY <1>1, <1>2, <1>3, <1>4 DEF FleetInv, FleetDb, OnDutyWithVehicle, AbsentIsBlank, Stored
  <2> QED BY <2>1, <2>2, <2>3 DEF FleetDb
<1>6. req[w] # Idle
  BY <1>1 DEF Idle
<1> QED BY <1>1, <1>5, <1>6, EndKept DEF FleetInv

\* A driver without a trip leaves: off duty, blocked, let go.
LEMMA LeaveKept ==
  ASSUME Typed, FleetInv, NoOverlap, NoOverlap', NEW w \in Workers,
         OfflineWrite(w) \/ BlockWrite(w) \/ RetireWrite(w) \/ RetireDelete(w)
  PROVE  FleetInv'
<1> DEFINE r == req[w]
<1>1. /\ r.op \in {"offline", "block", "retire", "retired"} /\ Current(r) /\ UNCHANGED <<vehicle, trip>>
      /\ Return(w) \/ Then(w, "retired")
  BY DEF OfflineWrite, BlockWrite, RetireWrite, RetireDelete, FleetInv
<1>2. /\ r.driver \in Drivers /\ ~DriverHasTrip(r.driver)
      /\ r.op = "retired" => ~row[r.driver].online
  BY <1>1 DEF Current, GoesOff
<1>3. /\ row'[r.driver].vehicle = row[r.driver].vehicle /\ ~row'[r.driver].online
      /\ \A e \in Drivers \ {r.driver} : row'[e] = row[e]
  <2>1. row[r.driver] \in Driver
    BY <1>2 DEF Typed, TypeOK
  <2>2. CASE OfflineWrite(w)
    <3>1. row' = [e \in Drivers |-> IF e = r.driver THEN [row[e] EXCEPT !.online = FALSE] ELSE row[e]]
      BY <1>2, <2>2, RowAfter
    <3> QED BY <1>2, <2>1, <3>1 DEF Driver
  <2>4. CASE BlockWrite(w) \/ RetireWrite(w)
    <3>1. row' = [e \in Drivers |-> IF e = r.driver THEN [row[e] EXCEPT !.account = "disabled", !.online = FALSE] ELSE row[e]]
      BY <1>2, <2>4, RowAfter
    <3> QED BY <1>2, <2>1, <3>1 DEF Driver
  <2>3. CASE RetireDelete(w)
    <3>1. r.op = "retired"
      BY <2>3 DEF RetireDelete
    <3>2. row' = [e \in Drivers |-> IF e = r.driver THEN [row[e] EXCEPT !.deleted = TRUE] ELSE row[e]]
      BY <1>2, <2>3, RowAfter
    <3> QED BY <1>2, <2>1, <3>1, <3>2 DEF Driver
  <2> QED BY <2>2, <2>3, <2>4
<1>4. OneDriverPerVehicle'
  BY <1>2, <1>3 DEF FleetInv, FleetDb, OneDriverPerVehicle
<1>5. TripDriverOnDuty' /\ TripsNamed'
  <2>1. \A t \in Trips : trip[t].status = "assigned" => trip[t].driver \in Drivers \ {r.driver}
    BY <1>2 DEF FleetInv, FleetDb, TripsNamed, DriverHasTrip
  <2> QED BY <1>1, <1>3, <2>1 DEF FleetInv, FleetDb, TripDriverOnDuty, TripsNamed
<1>6. DrivingAgrees' /\ OnDutyWithVehicle' /\ AbsentIsBlank' /\ GoneIsOff'
  BY <1>1, <1>2, <1>3 DEF FleetInv, FleetDb, DrivingAgrees, OnDutyWithVehicle, AbsentIsBlank, GoneIsOff, Listed, Stored
<1>7. (\A v \in Workers : Current(req[v]))'
  <2>1. CASE Return(w)
    <3>1. r # Idle
      BY <1>1 DEF Idle
    <3> QED BY <2>1, <3>1, EndKept
  <2>2. CASE Then(w, "retired")
    <3>1. PICK x : req' = [req EXCEPT ![w] = x] /\ x.op = "retired" /\ x.driver = r.driver
      BY <2>2, GoesOn
    <3>2. Current(x)'
      BY <1>1, <1>2, <1>3, <3>1 DEF Current, GoesOnline, GoesOff, Removes, Registers, Places, DriverHasTrip
    <3>3. x # Idle
      BY <3>1 DEF Idle
    <3> QED BY <3>1, <3>2, <3>3, OneRemembers
  <2> QED BY <1>1, <2>1, <2>2
<1> QED BY <1>4, <1>5, <1>6, <1>7 DEF FleetInv, FleetDb

\* A driver's vehicle is inserted.
LEMMA RegisterKept ==
  ASSUME Typed, FleetInv, NoOverlap, NoOverlap', NEW w \in Workers, RegisterWrite(w)
  PROVE  FleetInv'
<1> DEFINE r == req[w]
<1>1. /\ r.op = "register" /\ Current(r) /\ UNCHANGED <<row, trip>> /\ Return(w)
      /\ vehicle[r.vehicle].status = "absent"
      /\ vehicle' = [vehicle EXCEPT ![r.vehicle].status = "active", ![r.vehicle].owner = r.driver]
  BY DEF RegisterWrite, FleetInv
<1>2. r.driver \in Drivers /\ r.vehicle \in Vehicles
  BY <1>1 DEF Current, Registers
<1>3. /\ \A v \in Vehicles \ {r.vehicle} : vehicle'[v] = vehicle[v]
      /\ vehicle'[r.vehicle].driving = None /\ vehicle'[r.vehicle].status # "absent"
  <2>1. vehicle'[r.vehicle].driving = vehicle[r.vehicle].driving /\ vehicle'[r.vehicle].status = "active"
        /\ \A v \in Vehicles \ {r.vehicle} : vehicle'[v] = vehicle[v]
    BY <1>1, <1>2 DEF Typed, TypeOK, Vehicle
  <2> QED BY <1>1, <1>2, <2>1 DEF FleetInv, FleetDb, AbsentIsBlank
<1>4. \A d \in Drivers : row[d].vehicle \in (Vehicles \ {r.vehicle}) \union {None}
  <2>1. \A d \in Drivers : row[d].vehicle \in Vehicles \union {None}
    BY DEF Typed, TypeOK, Driver
  <2> QED BY <1>1, <2>1 DEF FleetInv, FleetDb, AbsentIsBlank
<1>5. FleetDb'
  <2>1. OneDriverPerVehicle' /\ TripDriverOnDuty' /\ GoneIsOff' /\ TripsNamed'
    BY <1>1 DEF FleetInv, FleetDb, OneDriverPerVehicle, TripDriverOnDuty, GoneIsOff, TripsNamed
  <2>2. DrivingAgrees'
    BY <1>1, <1>3, NullAssumption DEF FleetInv, FleetDb, DrivingAgrees, Listed, Stored
  <2>3. OnDutyWithVehicle' /\ AbsentIsBlank'
    <3>1. \A d \in Drivers : row[d].vehicle # None => vehicle'[row[d].vehicle] = vehicle[row[d].vehicle]
      BY <1>3, <1>4
    <3>2. OnDutyWithVehicle'
      BY <1>1, <3>1 DEF FleetInv, FleetDb, OnDutyWithVehicle
    <3>3. \A v \in Vehicles : vehicle'[v].status = "absent" => vehicle'[v].driving = None
      BY <1>3 DEF FleetInv, FleetDb, AbsentIsBlank
    <3>4. \A d \in Drivers : row[d].vehicle # None => vehicle'[row[d].vehicle].status # "absent"
      BY <3>1 DEF FleetInv, FleetDb, AbsentIsBlank
    <3> QED BY <1>1, <3>2, <3>3, <3>4 DEF AbsentIsBlank
  <2> QED BY <2>1, <2>2, <2>3 DEF FleetDb
<1>6. req[w] # Idle
  BY <1>1 DEF Idle
<1> QED BY <1>1, <1>5, <1>6, EndKept DEF FleetInv

\* A vehicle is disabled and marked as deleted.
LEMMA ScrapKept ==
  ASSUME Typed, FleetInv, NoOverlap, NoOverlap', NEW w \in Workers, ScrapDisable(w) \/ ScrapDelete(w)
  PROVE  FleetInv'
<1> DEFINE r == req[w]
<1>1. /\ r.op \in {"remove", "disabled"} /\ Current(r) /\ UNCHANGED <<row, trip>> /\ Stored(r.vehicle)
      /\ r.op = "remove" => Then(w, "disabled")
      /\ r.op = "disabled" => Then(w, "scrapped")
  BY DEF ScrapDisable, ScrapDelete, FleetInv
<1>2. r.vehicle \in Vehicles
  BY <1>1 DEF Current, Removes
<1>3. ASSUME NEW v \in Vehicles
      PROVE  /\ vehicle'[v].owner = vehicle[v].owner /\ vehicle'[v].driving = vehicle[v].driving
             /\ Listed(v)' => Listed(v)
             /\ vehicle'[v].status = "absent" <=> vehicle[v].status = "absent"
             /\ r.op = "disabled" /\ v = r.vehicle => vehicle'[v].deleted
  <2>1. vehicle[v] \in Vehicle /\ vehicle \in [Vehicles -> Vehicle]
    BY DEF Typed, TypeOK
  <2>2. CASE ScrapDisable(w)
    BY <1>2, <2>1, <2>2 DEF ScrapDisable, Vehicle, Listed, Stored
  <2>3. CASE ScrapDelete(w)
    BY <1>2, <2>1, <2>3 DEF ScrapDelete, Vehicle, Listed, Stored
  <2> QED BY <2>2, <2>3
<1>4. \A d \in Drivers : row[d].vehicle \in Vehicles \union {None}
  BY DEF Typed, TypeOK, Driver
<1>5. FleetDb'
  <2>1. OneDriverPerVehicle' /\ TripDriverOnDuty' /\ GoneIsOff' /\ TripsNamed'
    BY <1>1 DEF FleetInv, FleetDb, OneDriverPerVehicle, TripDriverOnDuty, GoneIsOff, TripsNamed
  <2>2. DrivingAgrees'
    BY <1>1, <1>3 DEF FleetInv, FleetDb, DrivingAgrees
  <2>3. OnDutyWithVehicle' /\ AbsentIsBlank'
    BY <1>1, <1>3, <1>4 DEF FleetInv, FleetDb, OnDutyWithVehicle, AbsentIsBlank
  <2> QED BY <2>1, <2>2, <2>3 DEF FleetDb
<1>6. PICK x : /\ req' = [req EXCEPT ![w] = x] /\ x.driver = r.driver /\ x.vehicle = r.vehicle /\ x.held = r.held
               /\ x.op = IF r.op = "remove" THEN "disabled" ELSE "scrapped"
  <2>1. CASE r.op = "remove"
    BY <1>1, <2>1, GoesOn
  <2>2. CASE r.op = "disabled"
    BY <1>1, <2>2, GoesOn
  <2> QED BY <1>1, <2>1, <2>2
<1>7. Current(x)'
  BY <1>1, <1>2, <1>3, <1>6 DEF Current, GoesOnline, GoesOff, Removes, Registers, Places
<1>8. x # Idle
  BY <1>6 DEF Idle
<1> QED BY <1>5, <1>6, <1>7, <1>8, OneRemembers DEF FleetInv

\* remove: the owner's own reference goes last.
LEMMA LetGoKept ==
  ASSUME Typed, FleetInv, NoOverlap, NoOverlap', NEW w \in Workers, LetGo(w)
  PROVE  FleetInv'
<1> DEFINE r == req[w]
<1>1. r.op = "scrapped" /\ Current(r) /\ UNCHANGED <<vehicle, trip>> /\ Return(w)
  BY DEF LetGo, FleetInv
<1>2. r # Idle
  BY <1>1 DEF Idle
<1>3. CASE row' = row
  BY <1>1, <1>2, <1>3, EndKept DEF FleetInv, FleetDb, OneDriverPerVehicle, TripDriverOnDuty, DrivingAgrees,
     OnDutyWithVehicle, GoneIsOff, AbsentIsBlank, TripsNamed, Listed, Stored
<1>4. CASE row' # row
  <2>1. r.driver # None /\ r.held = r.vehicle /\ row' = [row EXCEPT ![r.driver].vehicle = None]
    BY <1>4 DEF LetGo
  <2>2. /\ r.driver \in Drivers /\ r.vehicle \in Vehicles /\ row[r.driver].vehicle = r.vehicle
        /\ ~row[r.driver].online /\ vehicle[r.vehicle].deleted
    BY <1>1, <2>1 DEF Current, Removes
  <2>3. ASSUME NEW e \in Drivers
        PROVE  /\ row'[e].online = row[e].online /\ row'[e].deleted = row[e].deleted /\ row'[e].account = row[e].account
               /\ row'[e].vehicle = IF e = r.driver THEN None ELSE row[e].vehicle
    BY <2>1, <2>2 DEF Typed, TypeOK, Driver
  <2>4. \A t \in Trips : trip[t].status = "assigned" => trip[t].driver \in Drivers \ {r.driver}
    BY <2>2 DEF FleetInv, FleetDb, TripsNamed, TripDriverOnDuty
  <2>5. OneDriverPerVehicle' /\ GoneIsOff'
    BY <2>2, <2>3 DEF FleetInv, FleetDb, OneDriverPerVehicle, GoneIsOff
  <2>6. TripDriverOnDuty' /\ TripsNamed'
    BY <1>1, <2>3, <2>4 DEF FleetInv, FleetDb, TripDriverOnDuty, TripsNamed
  <2>7. DrivingAgrees' /\ OnDutyWithVehicle' /\ AbsentIsBlank'
    BY <1>1, <2>2, <2>3 DEF FleetInv, FleetDb, DrivingAgrees, OnDutyWithVehicle, AbsentIsBlank, Listed, Stored
  <2> QED BY <1>1, <1>2, <2>5, <2>6, <2>7, EndKept DEF FleetInv, FleetDb
<1> QED BY <1>3, <1>4

\* Matching assigns the trip.
LEMMA PlaceKept ==
  ASSUME Typed, FleetInv, NoOverlap, NoOverlap', NEW w \in Workers, Place(w)
  PROVE  FleetInv'
<1> DEFINE r == req[w]
<1>1. /\ r.op = "place" /\ Current(r) /\ UNCHANGED <<row, vehicle>> /\ Return(w)
      /\ trip' = [trip EXCEPT ![r.trip] = [status |-> "assigned", driver |-> r.driver, vehicle |-> r.vehicle]]
  BY DEF Place, FleetInv
<1>2. /\ r.driver \in Drivers /\ r.vehicle \in Vehicles /\ r.trip \in Trips
      /\ row[r.driver].online /\ ~row[r.driver].deleted /\ row[r.driver].account # "disabled"
      /\ row[r.driver].vehicle = r.vehicle
  BY <1>1 DEF Current, Places
<1>3. /\ \A t \in Trips \ {r.trip} : trip'[t] = trip[t]
      /\ trip'[r.trip] = [status |-> "assigned", driver |-> r.driver, vehicle |-> r.vehicle]
  BY <1>1, <1>2 DEF Typed, TypeOK
<1>4. TripDriverOnDuty' /\ TripsNamed'
  BY <1>1, <1>2, <1>3 DEF FleetInv, FleetDb, TripDriverOnDuty, TripsNamed
<1>5. FleetDb'
  BY <1>1, <1>4 DEF FleetInv, FleetDb, OneDriverPerVehicle, DrivingAgrees, OnDutyWithVehicle, GoneIsOff, AbsentIsBlank,
     Listed, Stored
<1>6. req[w] # Idle
  BY <1>1 DEF Idle
<1> QED BY <1>1, <1>5, <1>6, EndKept DEF FleetInv

\* A driver's account changes, but neither their duty nor their vehicle.
LEMMA AccountsKept ==
  ASSUME Typed, FleetInv, req' = req, UNCHANGED <<vehicle, trip>>,
         \A d \in Drivers : /\ row'[d].online = row[d].online /\ row'[d].vehicle = row[d].vehicle
                            /\ row'[d].deleted = row[d].deleted
                            /\ row'[d].account = "disabled" => row[d].account = "disabled"
  PROVE  FleetInv'
<1>1. FleetDb'
  BY DEF FleetInv, FleetDb, OneDriverPerVehicle, TripDriverOnDuty, DrivingAgrees, OnDutyWithVehicle, GoneIsOff,
     AbsentIsBlank, TripsNamed, Listed, Stored
<1>2. ASSUME NEW w \in Workers PROVE Current(req[w])'
  <2>1. PICK x : x = req[w]
    OBVIOUS
  <2>2. Current(x)
    BY <2>1 DEF FleetInv
  <2>3. \A v : Taken(v, x.driver)' => Taken(v, x.driver)
    BY DEF Taken
  <2>4. Current(x)'
    BY <2>2, <2>3 DEF Current, GoesOnline, GoesOff, Removes, Registers, Places, DriverHasTrip, Listed, Stored
  <2> QED BY <2>1, <2>4
<1> QED BY <1>1, <1>2 DEF FleetInv

\* A vehicle's status changes, or its row goes; trips end, or lose their vehicle.
LEMMA RowsKept ==
  ASSUME Typed, FleetInv, req' = req, row' = row,
         \A v \in Vehicles : /\ Listed(v)' => Listed(v) /\ vehicle'[v].driving = vehicle[v].driving
                             /\ vehicle'[v].status = "absent" <=> vehicle[v].status = "absent"
                             /\ vehicle'[v].owner \in {None, vehicle[v].owner}
                             /\ vehicle[v].deleted => vehicle'[v].deleted
                             /\ vehicle'[v].driving \in {None, vehicle[v].driving},
         \A t \in Trips : trip'[t].status = "assigned" =>
                             /\ trip[t].status = "assigned" /\ trip'[t].driver = trip[t].driver
                             /\ trip'[t].vehicle \in {None, trip[t].vehicle}
  PROVE  FleetInv'
<1>0. \A d \in Drivers : row[d].vehicle \in Vehicles \union {None}
  BY DEF Typed, TypeOK, Driver
<1>1. FleetDb'
  <2>1. OneDriverPerVehicle' /\ GoneIsOff'
    BY DEF FleetInv, FleetDb, OneDriverPerVehicle, GoneIsOff
  <2>2. TripDriverOnDuty' /\ TripsNamed'
    BY DEF FleetInv, FleetDb, TripDriverOnDuty, TripsNamed
  <2>3. DrivingAgrees'
    BY DEF FleetInv, FleetDb, DrivingAgrees
  <2>4. OnDutyWithVehicle' /\ AbsentIsBlank'
    BY <1>0 DEF FleetInv, FleetDb, OnDutyWithVehicle, AbsentIsBlank
  <2> QED BY <2>1, <2>2, <2>3, <2>4 DEF FleetDb
<1>2. ASSUME NEW w \in Workers PROVE Current(req[w])'
  <2>1. PICK x : x = req[w]
    OBVIOUS
  <2>2. Current(x)
    BY <2>1 DEF FleetInv
  <2>3. DriverHasTrip(x.driver)' => DriverHasTrip(x.driver)
    BY DEF DriverHasTrip
  <2>4. GoesOnline(x)'
    BY <2>2, <2>3 DEF Current, GoesOnline, Taken
  <2>5. GoesOff(x)' /\ Removes(x)' /\ Registers(x)' /\ Places(x)'
    BY <2>2, <2>3 DEF Current, GoesOff, Removes, Registers, Places
  <2> QED BY <2>1, <2>4, <2>5 DEF Current
<1> QED BY <1>1, <1>2 DEF FleetInv

\* The statements of the office.
LEMMA OfficeKept ==
  ASSUME Typed, FleetInv, Office
  PROVE  FleetInv'
<1> USE DEF Typed, TypeOK
<1>1. ASSUME NEW d \in Drivers, Unblock(d) \/ LicenceLapses(d) \/ \E p \in Papers : Decide(d, p) PROVE FleetInv'
  <2>1. /\ req' = req /\ UNCHANGED <<vehicle, trip>>
        /\ \A e \in Drivers : /\ row'[e].online = row[e].online /\ row'[e].vehicle = row[e].vehicle
                              /\ row'[e].deleted = row[e].deleted
                              /\ row'[e].account = "disabled" => row[e].account = "disabled"
    BY <1>1 DEF Unblock, LicenceLapses, Decide, Driver
  <2> QED BY <2>1, AccountsKept
<1>2. CASE LockExpired
  <2>1. /\ req' = req /\ UNCHANGED <<vehicle, trip>>
        /\ \A e \in Drivers : /\ row'[e].online = row[e].online /\ row'[e].vehicle = row[e].vehicle
                              /\ row'[e].deleted = row[e].deleted
                              /\ row'[e].account = "disabled" => row[e].account = "disabled"
    BY <1>2 DEF LockExpired, Driver
  <2> QED BY <2>1, AccountsKept
<1>3. ASSUME NEW v \in Vehicles, NEW s \in Menu, SetStatus(v, s) PROVE FleetInv'
  <2>1. req' = req /\ row' = row /\ trip' = trip /\ s # "absent" /\ s # "erased"
    BY <1>3, BoundsAssumption DEF SetStatus
  <2>2. ASSUME NEW u \in Vehicles
        PROVE  /\ vehicle'[u].driving = vehicle[u].driving /\ vehicle'[u].owner = vehicle[u].owner
               /\ vehicle'[u].deleted = vehicle[u].deleted
               /\ vehicle'[u].status = IF u = v THEN s ELSE vehicle[u].status
    BY <1>3 DEF SetStatus, Vehicle
  <2>3. ASSUME NEW u \in Vehicles
        PROVE  (Listed(u)' => Listed(u)) /\ (vehicle'[u].status = "absent" <=> vehicle[u].status = "absent")
    BY <1>3, <2>1, <2>2 DEF SetStatus, Listed, Stored
  <2> QED BY <2>1, <2>2, <2>3, RowsKept
<1>4. ASSUME NEW v \in Vehicles, EraseVehicle(v) PROVE FleetInv'
  <2>1. req' = req /\ row' = row /\ Listed(v)
    BY <1>4 DEF EraseVehicle
  <2>2. /\ vehicle'[v] = [status |-> "erased", deleted |-> TRUE, owner |-> None, driving |-> None]
        /\ \A u \in Vehicles \ {v} : vehicle'[u] = vehicle[u]
    BY <1>4 DEF EraseVehicle
  <2>3. ASSUME NEW t \in Trips
        PROVE  /\ trip'[t].status = trip[t].status /\ trip'[t].driver = trip[t].driver
               /\ trip'[t].vehicle \in {None, trip[t].vehicle}
    BY <1>4 DEF EraseVehicle, Trip
  <2>4. ASSUME NEW u \in Vehicles
        PROVE  /\ Listed(u)' => Listed(u) /\ vehicle'[u].driving = vehicle[u].driving
               /\ vehicle'[u].status = "absent" <=> vehicle[u].status = "absent"
               /\ vehicle'[u].owner \in {None, vehicle[u].owner}
               /\ vehicle[u].deleted => vehicle'[u].deleted
               /\ vehicle'[u].driving \in {None, vehicle[u].driving}
    BY <2>1, <2>2 DEF Listed, Stored
  <2> QED BY <2>1, <2>3, <2>4, RowsKept
<1>5. ASSUME NEW t \in Trips, TripEnds(t) PROVE FleetInv'
  <2>1. /\ req' = req /\ row' = row /\ vehicle' = vehicle
        /\ \A s \in Trips : trip'[s].status = "assigned" => trip'[s] = trip[s]
    BY <1>5 DEF TripEnds, Waiting
  <2> QED BY <2>1, RowsKept DEF Listed, Stored
<1> QED BY <1>1, <1>2, <1>3, <1>4, <1>5 DEF Office

\* The invariant, while requests do not overlap.
LEMMA DutyInductive == Spec /\ []NoOverlap => []FleetInv
<1>1. Init => FleetInv
  <2> SUFFICES ASSUME Init PROVE FleetInv
    OBVIOUS
  <2>1. FleetDb
    BY NullAssumption DEF Init, FleetDb, OneDriverPerVehicle, TripDriverOnDuty, DrivingAgrees, OnDutyWithVehicle, GoneIsOff,
       AbsentIsBlank, TripsNamed, Waiting
  <2>2. \A w \in Workers : Current(req[w])
    BY DEF Init, Current, GoesOnline, GoesOff, Removes, Registers, Places
  <2> QED BY <2>1, <2>2 DEF FleetInv
<1>2. ASSUME FleetInv, UNCHANGED vars PROVE FleetInv'
  BY <1>2 DEF vars, FleetInv, FleetDb, OneDriverPerVehicle, TripDriverOnDuty, DrivingAgrees, OnDutyWithVehicle, GoneIsOff,
     AbsentIsBlank, TripsNamed, Listed, Stored, Current, GoesOnline, GoesOff, Removes, Registers, Places, Taken,
     DriverHasTrip
<1>3. ASSUME Typed, FleetInv, NoOverlap, NoOverlap', NEW w \in Workers,
             DutyStep(w) \/ AccountStep(w) \/ VehicleStep(w) \/ MatchStep(w) \/ Abort(w)
      PROVE  FleetInv'
  BY <1>3, LooksKept, SwitchKept, TakeKept, NoteKept, LeaveKept, RegisterKept, ScrapKept, LetGoKept, PlaceKept
     DEF DutyStep, AccountStep, VehicleStep, MatchStep
<1>4. Typed /\ FleetInv /\ NoOverlap /\ NoOverlap' /\ [Next]_vars => FleetInv'
  BY <1>2, <1>3, OfficeKept DEF Next
<1> QED BY <1>1, <1>4, TypedHolds, PTL DEF Spec

\* One worker serves one request at a time.
THEOREM OneRequestAtATime == (\A v, w \in Workers : v = w) => NoOverlap
BY DEF NoOverlap

\* Two drivers on duty never have the same vehicle, wherever a request dies and whatever
\* the office does meanwhile (available_vehicles, go_online).
THEOREM VehicleToOneDriver == Spec /\ []NoOverlap => []OneDriverPerVehicle
<1>1. FleetInv => OneDriverPerVehicle
  BY DEF FleetInv, FleetDb
<1> QED BY <1>1, DutyInductive, PTL

\* A driver with a trip is on duty, in an account nobody closed, with the vehicle of the
\* trip (the checks of go_offline, disable, block, disable_vehicle and remove).
THEOREM OnDutyForTheTrip == Spec /\ []NoOverlap => []TripDriverOnDuty
<1>1. FleetInv => TripDriverOnDuty
  BY DEF FleetInv, FleetDb
<1> QED BY <1>1, DutyInductive, PTL

\* The driver that a vehicle of the fleet names has that vehicle, also when go_online
\* stopped between two of its saves.
THEOREM ReferencesAgree == Spec /\ []NoOverlap => []DrivingAgrees
<1>1. FleetInv => DrivingAgrees
  BY DEF FleetInv, FleetDb
<1> QED BY <1>1, DutyInductive, PTL

\* Whoever is on duty has a vehicle, and no other driver's (go_online, remove).
THEOREM DutyHasAVehicle == Spec /\ []NoOverlap => []OnDutyWithVehicle
<1>1. FleetInv => OnDutyWithVehicle
  BY DEF FleetInv, FleetDb
<1> QED BY <1>1, DutyInductive, PTL

\* A driver's vehicle changes only while they have no trip (go_online, remove).
THEOREM NoSwitch == Spec /\ []NoOverlap => NoSwitchOnTrip
<1> DEFINE Stays == \A d \in Drivers : DriverHasTrip(d) => row'[d].vehicle = row[d].vehicle
<1>1. ASSUME Typed, FleetInv, [Next]_vars PROVE [Stays]_vars
  <2>1. row \in [Drivers -> Driver]
    BY <1>1 DEF Typed, TypeOK
  <2>2. ASSUME Office PROVE Stays
    <3>1. ASSUME NEW d \in Drivers, Unblock(d) \/ \E p \in Papers : Decide(d, p) PROVE Stays
      BY <2>1, <3>1 DEF Unblock, Decide, Driver
    <3>2. CASE LockExpired
      BY <2>1, <3>2 DEF LockExpired, Driver
    <3>3. CASE row' = row
      BY <3>3
    <3> QED BY <2>2, <3>1, <3>2, <3>3 DEF Office, LicenceLapses, EraseVehicle, SetStatus, TripEnds
  <2>3. ASSUME NEW w \in Workers, OnlineTake(w) PROVE Stays
    <3> SUFFICES ASSUME NEW d \in Drivers, DriverHasTrip(d) PROVE row'[d].vehicle = row[d].vehicle
      OBVIOUS
    <3>1. /\ req[w].driver \in Drivers /\ row[req[w].driver].vehicle = req[w].held
          /\ req[w].held \notin {None, req[w].vehicle} => ~DriverHasTrip(req[w].driver)
      BY <1>1, <2>3 DEF OnlineTake, FleetInv, Current, GoesOnline
    <3>2. row[d].vehicle # None
      BY <1>1 DEF FleetInv, FleetDb, DriverHasTrip, TripDriverOnDuty, OnDutyWithVehicle
    <3>3. row' = [e \in Drivers |-> IF e = req[w].driver
                       THEN [row[e] EXCEPT !.vehicle = req[w].vehicle, !.online = TRUE] ELSE row[e]]
      BY <1>1, <2>3, <3>1, RowAfter
    <3>4. row[d] \in Driver
      BY <1>1 DEF Typed, TypeOK
    <3> QED BY <3>1, <3>2, <3>3, <3>4 DEF Driver
  <2>4. ASSUME NEW w \in Workers, OfflineWrite(w) \/ BlockWrite(w) \/ RetireWrite(w) \/ RetireDelete(w) PROVE Stays
    BY <1>1, <2>4 DEF OfflineWrite, BlockWrite, RetireWrite, RetireDelete, DisableRow, Typed, TypeOK, Driver
  <2>5. ASSUME NEW w \in Workers, LetGo(w) PROVE Stays
    <3>1. row' # row => /\ req[w].driver \in Drivers /\ ~row[req[w].driver].online
                        /\ row' = [row EXCEPT ![req[w].driver].vehicle = None]
      BY <1>1, <2>5 DEF LetGo, FleetInv, Current, Removes
    <3>2. \A d \in Drivers : DriverHasTrip(d) => row[d].online
      BY <1>1 DEF FleetInv, FleetDb, DriverHasTrip, TripDriverOnDuty
    <3> QED BY <1>1, <3>1, <3>2 DEF Typed, TypeOK
  <2>6. ASSUME NEW w \in Workers, DutyStep(w) \/ AccountStep(w) \/ VehicleStep(w) \/ MatchStep(w) \/ Abort(w)
        PROVE  \/ row' = row \/ OnlineTake(w) \/ LetGo(w)
               \/ OfflineWrite(w) \/ BlockWrite(w) \/ RetireWrite(w) \/ RetireDelete(w)
    BY <2>6 DEF DutyStep, AccountStep, VehicleStep, MatchStep, OnlineFetch, OnlineCheck, OnlineSwitch, OnlineNote, OfflineCheck,
       BlockCheck, RetireCheck, RegisterCheck, RegisterWrite, RemoveCheck, ScrapCheck, ScrapDisable, ScrapDelete, Match,
       Place, Abort
  <2>7. row' = row => Stays
    OBVIOUS
  <2>8. Next => Stays
    <3> HIDE DEF Stays
    <3> QED BY <2>2, <2>3, <2>4, <2>5, <2>6, <2>7 DEF Next
  <2> QED BY <1>1, <2>8
<1>2. Typed /\ FleetInv /\ [Next]_vars => [Stays]_vars
  BY <1>1
<1> QED BY <1>2, TypedHolds, DutyInductive, PTL DEF Spec, NoSwitchOnTrip
=============================================================================
