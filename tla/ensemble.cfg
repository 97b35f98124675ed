CONSTANTS
  Ensembles <- Checked
SPECIFICATION FairSpec
INVARIANTS AnsweredOnce OutputsDelivered
PROPERTY EnsembleCompletes
CHECK_DEADLOCK FALSE
