SPECIFICATION Spec
CONSTANTS
  MinBlockSize = 1
  MAX_DECLARABLE_WINDOW_SIZE = 3
  HashTail = 1
  UpdateLag = 2
  UpdateSpan = 1
  SplitBlockSize = 3
  SavingsMin = 1
  SmallBlock = 2
  HeaderBytes = 2
  BlockHeaderBytes = 1
  ChecksumBytes = 1
  Setups <- HashChains
INVARIANT EveryFinderCatchesUp
CHECK_DEADLOCK FALSE
