CONSTANTS
  MaxContexts = 3
  MaxSteps = 4
  Globals = {g1}
  Delegates = {d1}
  Callbacks = {c1}
  NULL = NULL
  MaxHandles = 2
SPECIFICATION FairSpec
INVARIANTS
  NeverFaults
  PoolIsTheRest
  UsedFunctionsLive
PROPERTIES
  NoSecondTurn
  CallsReturn
CHECK_DEADLOCK FALSE
