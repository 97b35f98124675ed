CONSTANTS
  Requests = {1, 2, 3}
  MaxResponses = 1
  t1 = t1
  t2 = t2
  ModelConfigs <- SafetyConfigs
SPECIFICATION Spec
INVARIANTS PendingBatchSound BatchWellFormed OwnedOnce
  NoOversleepWithoutTimeouts
PROPERTIES DequeueOrder ImplementsCompletionQueue
