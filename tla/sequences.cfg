CONSTANTS
  Cids = {1, 2, 3}
  AllSlots <- SeqSlots
  MaxRequests = 3
  SequenceConfigs <- AllConfigs
SPECIFICATION FairSpec
INVARIANT SlotsSound
PROPERTIES KeepsPromise Served
CHECK_DEADLOCK FALSE
