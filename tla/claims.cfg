SPECIFICATION Spec
CONSTANTS
  Run = {r1, r2}
  Recovery = {c1}
  None = None
  LateClaims = FALSE
  MaxOther = 1
CHECK_DEADLOCK FALSE
INVARIANTS RowTellsTruth AcceptedIsPromoted SucceededIsWarm
PROPERTIES NoGoingBack ManifestFollowsCommits
