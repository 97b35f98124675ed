SPECIFICATION ExecutionSpec
CONSTANTS
    SupportedGpus = {0, 1}
    BatchModulus = 8
    Scenarios <- MCScenarios
    Batches <- MCBatches
INVARIANTS
    PreparedFresh
    FitsModel
    BuffersSound
    EnsemblesRun
    DataInPlace
CHECK_DEADLOCK FALSE
