CONSTANTS
  Scenarios <- Hanging
SPECIFICATION FairSpec
PROPERTY FinishedWhenComplete
CHECK_DEADLOCK FALSE
