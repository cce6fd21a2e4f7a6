CONSTANTS
  MaxOps = 3
  Contexts = {"null", "object"}
  Latencies = {1, 3}
  Instructions <- MCInstructions
  Quota = 2
  MaxInsts = 4
SPECIFICATION GraphSpec
INVARIANTS ProgDepthIsLongest
CHECK_DEADLOCK FALSE
