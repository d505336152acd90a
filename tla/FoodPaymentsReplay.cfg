\* One worker that may die between registering an event and the commit.
SPECIFICATION Spec
CONSTANTS
  Orders = {o1}
  Payments = {p1}
  Attempts = {a1}
  Workers = {w1}
  StaffTargets = {}
  DemoMode = FALSE
  NoticeStatuses = {}
  MaxRequests = 1
  MaxAborts = 1
  NoRef = NoRef
  NoId = NoId
  DemoId = DemoId
  SandboxId = SandboxId
INVARIANTS
  ReplaySafeWebhook
CHECK_DEADLOCK FALSE
