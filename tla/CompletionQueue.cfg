CONSTANTS
  Requests = {r1, r2, r3}

  MaxResponses = 2
SPECIFICATION CQSafety
INVARIANTS InOrder NothingLost PoppedIsFinal NoneStranded
CHECK_DEADLOCK FALSE
