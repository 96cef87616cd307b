CONSTANTS
  d1 = d1
  d2 = d2
  bike = bike
  scooter = scooter
  Drivers = {d1, d2}
  Vehicles = {bike, scooter}
  Company = {bike}
  Covered <- TwoCovered
  Trips = {t1}
  Workers = {w1, w2}
  Reviewed = {}
  Menu = {"active", "maintenance"}
  None = None
SPECIFICATION Spec
INVARIANT OneDriverPerVehicle
CHECK_DEADLOCK FALSE
