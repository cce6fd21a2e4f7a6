CONSTANTS
  BlockBytes = 2
  Addrs = {0, 2, 4, 8}
  L1Sets = 1
  L1Ways = 2
  L2Sets = 2
  L2Ways = 2
  WrAlloc = TRUE
SPECIFICATION HistorySpec
INVARIANTS L1VictimFound
