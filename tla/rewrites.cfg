SPECIFICATION FairSpec
CONSTANTS
  old = old  new = new  s1 = s1  s2 = s2  u1 = u1  b1 = b1  b2 = b2  o1 = o1
  Name = {old, new}
  Season = {s1, s2}
  Fact = {f}
  Aggregate = {g}
  Small = {f}
  Upload = {u1}
  Bundle = {b1, b2}
  Op = {o1}
  Target <- MCTarget
  Holds <- MCHolds
  Fenced = {b1}
  Src <- MCSrc
  Dst <- MCDst
  Listings <- MCListings
  None = None
  MaxFaults = 2
CHECK_DEADLOCK FALSE
INVARIANTS RowsOnce OkMeansBoth OneNameLeft
PROPERTIES MovedOnce RenameFinishes
