CONSTANTS
  Requests = {1, 2}
  MaxResponses = 1
  t1 = t1
  t2 = t2
  ModelConfigs <- LivenessConfigs
SPECIFICATION FairSpec
INVARIANT DestroyedIsQuiet
PROPERTY UnloadEnds
CHECK_DEADLOCK FALSE
