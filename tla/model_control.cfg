CONSTANTS
  Scenarios <- Checked
SPECIFICATION FairSpec
INVARIANT EnsemblesHaveModels
PROPERTIES NoLossOfService OperationsEnd StopIsQuiet
CHECK_DEADLOCK FALSE
