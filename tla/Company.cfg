CONSTANTS
  Accounts = {a1, a2}
  Home = Home
  Others = {c2}
  MaxCodes = 2
  Servers = {s1, s2}
  Nobody = Nobody
  MaxTokens = 3
  Names = {0, 1}
  MaxRides = 2
  Pictured = {1}
  Pictures = {p1, p2}
  Types = {k1, k2}
  MaxVehicles = 1
  MaxPhotos = 1
  Nothing = Nothing
  Offsets = {0, 1}
  Now = {20, 25}
  MaxAdded = 1
  MaxSeconds = 2
  TooBig = 2
  Horizon = 4
  MaxStarts = 2
  Dispatchers = {d1}
  None = None
  Companies = {c3, c4}
  Logins = {u1, u2}
  Desks = {d1, d2}
  MaxChanges = 2
  All = All
  Out = Out
  Clients = {k3}
  MaxRetries = 1
  MaxTrips = 2
  Earlier = {1}
  Elsewhere = {1}
  People = {1, 2}
  Size = 1
  LiveTrips = 2
  MaxPolls = 2
  MaxMoves = 1
  Operators = {o1, o2}
  FleetTypes = 2
  SeedCount = 2
  MaxTyped = 3
  MaxEdits = 1
  Couriers = {k1, k2}
  Usual = k1
  Places = {p1, p2}
  Depot = p1
  OrderCount = 2
  MaxTurns = 1
SPECIFICATION Spec
INVARIANT TypeOK
INVARIANT SignedUpWhole
INVARIANT LoggedOutStaysOut
INVARIANT DecisionWhole
INVARIANT ReviewQueued
INVARIANT GarageKept
 
PROPERTY ApprovalStands
CHECK_DEADLOCK FALSE
