SPECIFICATION Spec
CONSTANTS
  Trips = {t1}
  Drivers = {d1, d2}
  Workers = {w1, w2}
  i1 = i1
  Items = {i1}
  LastStop = 2
  Bookings <- MixedBookings
  None = None
  WholeOrder = WholeOrder
SYMMETRY Same
CHECK_DEADLOCK FALSE
INVARIANTS
  TypeOK
  OneEntryPerKind
  CashDebitedIffPaidInCash
  FinishedOnlyAfterPayment
  CompletedIsPaidOut
PROPERTIES
  PaymentIsFinal
