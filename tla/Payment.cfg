CONSTANTS
  MaxCodes = 2
  Workers = {w1, w2}
  Open = Open
  Cash = Cash
  Word = Word
SPECIFICATION FairSpec
INVARIANT ScanLeadsToTrip
PROPERTY Settles
PROPERTY CreditArrives
CHECK_DEADLOCK FALSE
