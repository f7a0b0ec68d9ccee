SPECIFICATION FairSpec
CONSTANTS
  BlockSizeMax = 4
  Setups <- AllSetups
  Chunks = {1, 4, 11}
  Drains = {2}
  MaxStreams = 2
  INPUT_COMPACT_MIN = 6
INVARIANTS
  StreamMatchesOneShot
  VerdictMatchesOneShot
  AccountsExact
PROPERTIES
  ImplementsOutputWindow
  CallsReturn
  EventuallySettled
