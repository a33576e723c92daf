SPECIFICATION FairSpec
CONSTANTS
  MaxCalls = 2
  MaxActions = 4
  MaxFailures = 0
PROPERTY ImportIsAwaited
CHECK_DEADLOCK FALSE
