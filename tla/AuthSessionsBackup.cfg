\* Privileged logins with one-time passwords and backup codes.
SPECIFICATION Spec
CONSTANTS
  Workers = {w1, w2}
  BackupCodes = {c1, c2}
  NoCode = NoCode
  MaxAttempts = 1
  MaxRequests = 4
  Served = {"request", "verify"}
SYMMETRY Symmetry
CHECK_DEADLOCK FALSE
INVARIANTS
  OneUsePerBackupCode
