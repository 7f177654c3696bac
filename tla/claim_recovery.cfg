SPECIFICATION Spec
CONSTANTS
  Run = {r1, r2}
  Recovery = {c1}
  None = None
  LateClaims = FALSE
  MaxOther = 0
CHECK_DEADLOCK FALSE
INVARIANT RecoveryAdmits
