\* One worker, two intents for one order: a dismissal cancels a paid order.
SPECIFICATION Spec
CONSTANTS
  Orders = {o1}
  Payments = {p1, p2}
  Attempts = {a1}
  Workers = {w1}
  StaffTargets = {}
  DemoMode = FALSE
  NoticeStatuses = {}
  MaxRequests = 4
  MaxAborts = 0
  NoRef = NoRef
  NoId = NoId
  DemoId = DemoId
  SandboxId = SandboxId
SYMMETRY Interchangeable
INVARIANTS
  DismissalCancelsUnpaid
CHECK_DEADLOCK FALSE
