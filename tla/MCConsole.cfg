SPECIFICATION FairSpec
CONSTANTS
  MaxCalls = 2
  MaxActions = 5
  MaxFailures = 1
INVARIANTS OneTimer ButtonsAreReleased PendingIsPolled
PROPERTY PendingEnds
CHECK_DEADLOCK FALSE
