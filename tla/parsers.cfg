SPECIFICATION ParsersSpec
CONSTANTS
  Sources <- MCSources
  Setups <- MCSetups
  BlockLengths = {5, 9}
  MIN_MATCH = 2
  LONG_MATCH = 3
  TAIL = 3
  ROW_TAIL = 4
  PREFIX_LOW_LIMIT = 1
  LDM_MATCH = 3
  STEP_INCREMENT = 3
  SKIP_SEARCH_STRENGTH = 4
  OPT_NUM = 6
  SUFFICIENT = 4
  OVERLAP = 2
  MIN_MATCH_LENGTH_AFTER_LITERALS = 3
INVARIANTS EverySequenceDecodes OffsetsFollowTheDecoder RepeatReadsInBounds
CHECK_DEADLOCK FALSE
