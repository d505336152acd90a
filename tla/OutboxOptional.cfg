\* An optional write.
SPECIFICATION Spec
CONSTANTS
  Writes = {3}
  Kind <- MCKind
  Workers = {w1}
  MaxAttempts = 2
  BatchLimit = 1
  StartupLimit = 2
  QuietFailures = {FALSE}
  MaxFaults = 1
  NoWrite = NoWrite
INVARIANTS
  QueuedUntilWritten
