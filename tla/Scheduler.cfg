CONSTANTS
  ThreadNum = 3
  MaxLen = 2
  Instructions <- MCInstructions
  Images <- MCImages
SPECIFICATION FairHistorySpec
INVARIANTS TypeOK BlockedRaisesSwitch TimersTellTime NobodyStarves ClockIsAccounted
PROPERTIES SwitchIsPaid SwitchOnlyWhenBlocked Termination
CHECK_DEADLOCK FALSE
