SPECIFICATION Spec
CONSTANTS
  Replace = {}
  Compact = {c1}
  Checked = {}
  Old = Old
  Empty = Empty
  None = None
  Overlap = FALSE
  HostCrash = FALSE
  MaxCrashes = 0
  MaxFaults = 1
INVARIANTS
  SwapIsAtomic
