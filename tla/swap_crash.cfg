SPECIFICATION FairSpec
CONSTANTS
  Replace = {r1, r2}
  Compact = {c1}
  Checked = {r1}
  Old = Old
  Empty = Empty
  None = None
  Overlap = FALSE
  HostCrash = TRUE
  MaxCrashes = 2
  MaxFaults = 1
INVARIANTS
  NothingElseIsLive
  GoodCopySurvives
PROPERTIES
  PrevOutlivesDoubt
  ServesAgain
