SPECIFICATION FormatsSpec
CONSTANTS
  Radix = 8
  WINDOWLOG_MIN = 4
  MaxExponent = 3
  BLOCK_SIZE_MAX = 32
  SYMBOLVALUE_MAX = 63
  TABLELOG_MAX_HUF = 5
  FAST_TABLELOG_HUF = 4
  Headers <- MCHeaders
  Payloads <- MCPayloads
  Blocks <- MCBlocks
  Counts <- MCCounts
  Sizes <- MCSizes
  Literals <- MCLiterals
  Histograms <- MCHistograms
  Sections <- MCSections
  Trees <- MCTrees
  Frames <- MCFrames
  Readers = {"execute", "x1", "x1_four", "x2", "x2_four", "weights"}
  Writers = {"sequences", "weights", "huff"}
  MaxBytes = 24
  MaxConsumed = 80
CHECK_DEADLOCK FALSE
INVARIANTS
  RoundTrip
  CutIsNoticed
  BoundSound
  BitsWereLoaded
  NoBitLost
