SPECIFICATION Spec
CONSTANTS
  Trips = {t1, t2}
  Drivers = {d1, d2}
  Workers = {w1}
  i1 = i1
  Items = {i1}
  LastStop = 2
  Bookings <- SerialBookings
  None = None
  WholeOrder = WholeOrder
SYMMETRY Same
CHECK_DEADLOCK FALSE
INVARIANTS
  OneActiveTripPerDriver
  EarningInStep
  FinishedItemsAnswered
  CompletedWithProof
  CancelledIsUnpaid
PROPERTIES
  EndIsFinal
