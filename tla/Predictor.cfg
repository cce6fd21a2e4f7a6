CONSTANTS
  RowBits = 1
  TagBits = 1
  HistorySize = 2
  MaxBranches = 5
  AddrBits = 17
  Configs <- MCConfigs
  Branches <- MCBranches
SPECIFICATION LogSpec
INVARIANTS TypeOK PredictsAsDefined Learns ReportIsRight SizeIsRight
CHECK_DEADLOCK FALSE
