SPECIFICATION Spec
CONSTANTS
  Query = {q1, q2}
  Nfl = {}
  Meta = {m1}
  OpsWriter = {o1}
  Writer = {w1}
  Asks = {}
  Bare = {w1}
  Publish = {p1}
  Watchdog = dog
  Slots = 2
  PoolSize = 1
  Permits = 1
  MaxWakes = 1
  MaxReopenFailures = 1
  Strikes = 1
  None = None
CHECK_DEADLOCK FALSE
SYMMETRY Alike
INVARIANTS CountExact ReadsExcluded CheckpointExcludes ServingHasPool
