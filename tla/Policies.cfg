CONSTANTS
  ThreadNum = 2
  MaxLen = 2
  Regs = {0, 1, 2}
  IntBound = 8
  Instructions <- MCInstructions
  Images <- MCImages
SPECIFICATION MainSpec
INVARIANTS PoliciesAgree
PROPERTIES MainEnds
CHECK_DEADLOCK FALSE
