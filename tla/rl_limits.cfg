CONSTANTS
  Requests = {1, 2, 3}
  Word = 16
  Settings <- AllSettings
SPECIFICATION FairSpec
INVARIANTS ResourcesSound RequestsSound
PROPERTY Served
CHECK_DEADLOCK FALSE
