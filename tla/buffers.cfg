SPECIFICATION BuffersSpec
CONSTANTS
  Windows <- MCWindows
  BlockSizeMax = 3
  Caps <- MCCaps
  Offsets <- MCOffsets
  DictLens <- MCDictLens
  MaxMade = 12
  BlockSize = 2
  UnitBytes = 2
  READ_CHUNK_INITIAL = 1
  READ_CHUNK = 3
  WriteSizes = {1, 3}
  ReadSizes = {0, 1}
  Pledges = {3, 4}
  MaxContent = 3
  MaxFrames = 2
INVARIANTS
  QueueExact
  FrameAnchored
  HistoryKept
  MatchesUnaffected
  CapHolds
  DrainedBufferBounded
  WriterDelivers
  EndIsHonest
PROPERTIES
  ReadsReturn
CHECK_DEADLOCK FALSE
