SPECIFICATION AllSpec
CONSTANTS
  Distances = {1, 2, 3, 4, 5, 6}
  InitialReps <- MCInitialReps
  PlanDistances = {1, 2, 5}
  PlanLen = 3
  MaxBlocks = 2
  Fallback = "last"
  Codes = {"a", "b", "c"}
  DefaultCodes = {"a", "b"}
  Bytes = {"x", "y", "z"}
  FAST_SELECTOR_REPEAT_MAX_SEQUENCES = 4
  MaxCount = 2
  CarriedBlocks = 4
  FrameStarts <- MCFrameStarts
  PricedBytes = {0, 1}
  PricedCodes = {0, 1}
  BaseFrequencies <- MCBaseFrequencies
  PriceFrames <- MCPriceFrames
  OPT_PRICE_ACCURACY_LOG = 2
  OPT_LITERAL_FREQ_ADD = 2
  OPT_PREDEFINED_THRESHOLD = 4
  LITERAL_TARGET_LOG = 2
  CODE_TARGET_LOG = 2
  WIDTH = 7
  PARSED_MIN = 2
  PricedBlocks <- MCPricedBlocks
  LiteralRuns = {0, 1, 5}
  MaxPricedBlocks = 3
INVARIANTS
  RepsInStep
  DistancesRecovered
  BlocksInStep
  TablesInStep
  PricesNeverWrap
CHECK_DEADLOCK FALSE
