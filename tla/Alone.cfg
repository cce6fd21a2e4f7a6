CONSTANTS
  ThreadNum = 1
  MaxLen = 4
  Regs = {0, 1, 2}
  IntBound = 8
  Instructions <- MCInstructions
  Images <- MCImages
SPECIFICATION MainSpec
INVARIANTS AloneNoDifference
CHECK_DEADLOCK FALSE
