SPECIFICATION AttendanceSpec
CONSTANTS
  Workers = {w1, w2}
  MaxTokens = 1
  MaxAttempts = 1
  PriorClasses <- MCPriorClasses
  MaxStarts = 2
  WatchPercent = 75
  HighPercent = 65
  CriticalPercent = 50
  WatchAbsences = 2
  HighAbsences = 3
  CriticalAbsences = 4
  MinDelivered = 2
INVARIANTS
  RecordFollowsLedger
  CountedAsClaimed
  AttemptsBounded
PROPERTIES
  CreditOnlyLostToStaff
  PlanCatchesUp
