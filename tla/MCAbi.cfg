CONSTANTS
  Calls = {c1, c2}
  MaxLoads = 2
  MaxCallbacks = 2
  None = None
SPECIFICATION FairSpec
INVARIANTS TypeOK TableInUseIsAlive SerializedWhileLoaded
PROPERTIES ShutdownReturns CallsReturn
CHECK_DEADLOCK FALSE
