SPECIFICATION Spec
CONSTANTS
  BlockSizeMax = 4
  Setups <- EmptySkippables
  Chunks = {1, 4, 11}
  Drains = {1, 3}
  MaxStreams = 2
  INPUT_COMPACT_MIN = 6
INVARIANTS
  VerdictMatchesOneShot
