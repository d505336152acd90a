\* Two workers whose reads and commits interleave, with fairness.
\* CHECK_DEADLOCK FALSE: the bound on requests ends the behaviour.
SPECIFICATION LiveSpec
CONSTANTS
  Orders = {o1}
  Payments = {p1}
  Attempts = {a1}
  Workers = {w1, w2}
  StaffTargets = {"preparing"}
  DemoMode = FALSE
  NoticeStatuses = {"failed", "captured"}
  MaxRequests = 3
  MaxAborts = 0
  NoRef = NoRef
  NoId = NoId
  DemoId = DemoId
  SandboxId = SandboxId
INVARIANTS
  PaidNeedsGateway
  PaidLeavesPlaced
PROPERTIES
  CaptureReachesLedger
CHECK_DEADLOCK FALSE
