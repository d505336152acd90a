\* One worker: requests run one after the other, up to one dies half way.
\* CHECK_DEADLOCK FALSE: the bound on requests ends the behaviour.
SPECIFICATION Spec
CONSTANTS
  Orders = {o1}
  Payments = {p1, p2}
  Attempts = {a1}
  Workers = {w1}
  StaffTargets = {"preparing", "delivered"}
  DemoMode = TRUE
  NoticeStatuses = {"captured"}
  MaxRequests = 4
  MaxAborts = 1
  NoRef = NoRef
  NoId = NoId
  DemoId = DemoId
  SandboxId = SandboxId
SYMMETRY Interchangeable
INVARIANTS
  PaidOrderNamesPayment
PROPERTIES
  PaidPaymentStaysPaid
  SettledOrderNeverReopens
CHECK_DEADLOCK FALSE
