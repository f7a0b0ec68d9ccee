SPECIFICATION Spec
CONSTANTS
  Sources <- MCSources
  Setups <- MCSetups
  BlockLengths = {6, 9, 14}
  MIN_MATCH = 3
  LONG_MATCH = 4
  TAIL = 4
  PREFIX_LOW_LIMIT = 1
  LDM_MATCH = 3
  STRIDES = {1, 3}
  SMALL_BLOCK = 4
  BUCKETS = 2
  CYCLE = 16
  SEARCH_DEPTH = 4
  HASH_READ = 4
  SKIP = 3
  OPT_NUM = 6
  GOOD_ENOUGH = 5
  UPDATE_LAG = 5
  UPDATE_SPAN = 3
  REPEATS = {2, 3}
  CHAIN_CYCLE = 4
  ATTEMPTS = 3
  ROWS = 2
  ROW_MASK = 3
  CACHE = 2
  SKIP_THRESHOLD = 3
  FROM_START = 1
  FROM_END = 1
  LAZY_STEP = 1
  JUMPS = {3, 5}
  BIASED_FILING = FALSE
INVARIANTS FoundMatchesHold SearchesInStep
CHECK_DEADLOCK FALSE
