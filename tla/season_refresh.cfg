SPECIFICATION Spec
CONSTANTS
  Year = {y1, y2}
  Active = y2
  DraftYear = y2
  QuickYears = {y2}
  Weekly = {w1, w2}
  Quick = {q1}
  Draft = {d1}
  Ranks = {r1}
  Gap = {g1}
  Full = {f1}
  Unfenced = {f1}
  Editor = {e1}
  Gaps = {y1}
  Extras = {}
  AtOnce = 4
  Nothing = Nothing
INVARIANTS
  RollupsTellTruth
  HomepageTellsTruth
PROPERTIES
  SeasonStoreSpec
