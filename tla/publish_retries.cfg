CONSTANTS
  l1 = l1  l2 = l2  r1 = r1  r2 = r2  loc = loc  f1 = f1
  None = None  NoOrder = NoOrder
  League <- MCLeague
  Bundle = {r1, r2}
  Key = {r1, r2}
  KeyOf <- MCKeyOf
  Lane <- MCLane
  Scope <- MCScope
  Order <- MCOrder
  Fenced = {r2}
  RequireBase = FALSE
  SameKey = FALSE
  MaxTries = 2
  MaxCrashes = 1
  Deadlines = FALSE
SPECIFICATION Spec
INVARIANTS ExactlyOnce SuccessIsDurable StaleIsFinal
PROPERTIES NoOlderOverNewer
