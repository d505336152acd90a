\* A required write and an event, two threads.
SPECIFICATION LiveSpec
CONSTANTS
  Writes = {1, 2}
  Kind <- MCKind
  Workers = {w1, w2}
  MaxAttempts = 2
  BatchLimit = 2
  StartupLimit = 1
  QuietFailures = {TRUE, FALSE}
  MaxFaults = 2
  NoWrite = NoWrite
INVARIANTS
  AcceptedIsNotLost
PROPERTIES
  DeliversAtLeastOnce
  RestartsDeliver
  JobEnds
