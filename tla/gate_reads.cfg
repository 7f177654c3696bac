SPECIFICATION FairSpec
CONSTANTS
  Query = {q1}
  Nfl = {n1}
  Meta = {}
  OpsWriter = {o1}
  Writer = {w1}
  Asks = {w1}
  Bare = {}
  Publish = {p1}
  Watchdog = dog
  Slots = 1
  PoolSize = 1
  Permits = 1
  MaxWakes = 0
  MaxReopenFailures = 1
  Strikes = 1
  None = None
CHECK_DEADLOCK FALSE
INVARIANTS SlotsConserved OpsWritingEnds
PROPERTY EveryRequestAnswered
