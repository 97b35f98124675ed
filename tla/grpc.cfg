CONSTANTS
  Scenarios <- Checked
SPECIFICATION FairSpec
INVARIANTS InOrderOneByOne FinishIsLast
PROPERTY EveryoneAnswered
CHECK_DEADLOCK FALSE
