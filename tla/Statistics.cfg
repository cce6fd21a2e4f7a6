CONSTANTS
  BlockBytes = 2
  Addrs = {0, 2, 3, 4, 8}
  L1Sets = 1
  L1Ways = 2
  L2Sets = 2
  L2Ways = 2
  WrAlloc = FALSE
  L1Cyc = 1
  L2Cyc = 5
  MemCyc = 50
  MaxAccesses = 6
SPECIFICATION SimSpec
INVARIANTS AvgTimeIsTheMean OnlyConflictsRefetch
PROPERTIES L2IsLru
CHECK_DEADLOCK FALSE
