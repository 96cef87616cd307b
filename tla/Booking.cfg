CONSTANTS
  MaxTries = 2
  MaxSent = 2
  Servers = {s1, s2}
  Rows = {r1, r2, r3, r4}
  MaxPlaces = 2
  Nothing = Nothing
  Spots = {p1, p2}
  Nowhere = Nowhere
  MaxAsked = 3
  Texts = {t1}
  MaxLayers = 3
  Chains = {c1, c2}
  Types = {v1, v2}
  MaxEdits = 1
  MaxLooked = 3
  MaxWaiting = 3
  PageSize = 1
  MaxTrips = 2
  MaxEnds = 1
  MaxPosts = 4
  NoCode = NoCode
SPECIFICATION FairSpec
INVARIANT CodesHold
 
INVARIANT ScreensAgree
 
PROPERTY TrackingEnds
CHECK_DEADLOCK FALSE
