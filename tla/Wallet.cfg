SPECIFICATION FairSpec
CONSTANTS
  Drivers = {d1, d2}
  Trips = {t1}
  Workers = {w1, w2}
  Typed <- Corrections
  Fare = 2
  Earning = 1
  MaxRows = 3
  None = None
CHECK_DEADLOCK FALSE
INVARIANTS
  TypeOK
  StatementAddsUp
  PayoutsCovered
  SettledOnce
PROPERTIES
  KeepsLedger
  Answered
