SPECIFICATION FairSpec
CONSTANTS
  Reader = {r1}
  Query = {q1}
  Fleet = {f1}
  Writer = {w1, w2}
  Cold = {w2}
  Renamer = {w2}
  Merger = {m1}
  LeagueWriter = {l1}
  None = None
INVARIANTS
  UsersCounted
  NoLostOpsWrite
  ColdWriterAlone
  FleetFindsOpsFree
PROPERTIES
  ConnectionOwned
  OpsStoreSpec
  EveryRequestAnswered
