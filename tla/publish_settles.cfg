CONSTANTS
  l1 = l1  l2 = l2  r1 = r1  r2 = r2  loc = loc  f1 = f1
  None = None  NoOrder = NoOrder
  League <- MCLeague
  Bundle = {r1, r2}
  Key = {r1, r2}
  KeyOf <- MCKeyOf
  Lane <- MCLane
  Scope <- MCScope
  Order <- MCOrder
  Fenced = {r1, r2}
  RequireBase = TRUE
  SameKey = TRUE
  MaxTries = 1
  MaxCrashes = 1
  Deadlines = TRUE
SPECIFICATION FairSpec
PROPERTIES PublisherSettles LockReleased
