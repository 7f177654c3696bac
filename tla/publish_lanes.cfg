CONSTANTS
  l1 = l1  l2 = l2  r1 = r1  r2 = r2  loc = loc  f1 = f1
  None = None  NoOrder = NoOrder
  League <- MCLeague
  Bundle = {r1, f1}
  Key = {r1, f1}
  KeyOf <- MCKeyOf
  Lane <- MCLane
  Scope <- MCScope
  Order <- MCOrder
  Fenced = {r1, f1}
  RequireBase = TRUE
  SameKey = FALSE
  MaxTries = 2
  MaxCrashes = 0
  Deadlines = TRUE
SPECIFICATION Spec
PROPERTIES NoRewind LockWindow StoreSpec
