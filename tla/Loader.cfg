CONSTANTS
  Lines <- MCLines
  Room = 2
  DataRoom = 2
  Garbage = {1, 7}
  MaxLines = 8
  MaxStray = 1
SPECIFICATION FileSpec
INVARIANTS LoadsTheImage LostOnlyInSegments OverrunsAreLong
CHECK_DEADLOCK FALSE
