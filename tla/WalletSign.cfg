SPECIFICATION Spec
CONSTANTS
  Drivers = {d1}
  Trips = {t1}
  Workers = {w1}
  Typed <- Corrections
  Fare = 2
  Earning = 1
  MaxRows = 2
  None = None
CHECK_DEADLOCK FALSE
INVARIANTS
  OnlyAdjustmentsChooseSign
