CONSTANTS
  Calls = {c1, c2}
  MaxLoads = 1
  MaxCallbacks = 1
  None = None
SPECIFICATION Spec
INVARIANT MutationsSerialized
CHECK_DEADLOCK FALSE
