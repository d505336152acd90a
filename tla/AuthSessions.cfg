\* Every kind of request, two threads.
SPECIFICATION Spec
CONSTANTS
  Workers = {w1, w2}
  BackupCodes = {c1}
  NoCode = NoCode
  MaxAttempts = 1
  MaxRequests = 4
  Served = {"request", "verify", "login", "sso", "reset", "refresh", "logout", "access"}
SYMMETRY Symmetry
CHECK_DEADLOCK FALSE
INVARIANTS
  OneUsePerOtp
  GuessesBounded
  EndedSessionsStayOver
  SpentTokenIsRefused
