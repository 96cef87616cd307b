CONSTANTS
  d1 = d1
  d2 = d2
  bike = bike
  scooter = scooter
  Drivers = {d1, d2}
  Vehicles = {bike, scooter}
  Company = {bike}
  Covered <- TwoCovered
  Trips = {t1}
  Workers = {w1}
  Reviewed = {d1}
  Menu = {"active", "maintenance"}
  None = None
SPECIFICATION Spec
INVARIANT TypeOK
INVARIANT OneDriverPerVehicle
INVARIANT TripDriverOnDuty
INVARIANT DrivingAgrees
INVARIANT OnDutyWithVehicle
PROPERTY NoSwitchOnTrip
CHECK_DEADLOCK FALSE
