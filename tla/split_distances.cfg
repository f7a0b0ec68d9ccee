SPECIFICATION FrameSpec
CONSTANTS
  PlanDistances = {1, 2, 5}
  PlanLen = 4
  MaxBlocks = 2
  Fallback = "any"
INVARIANT DistancesRecovered
CHECK_DEADLOCK FALSE
