# Verification of LPU Smart Campus

TLA+ models of the campus backend (`src/app`, a FastAPI application), checked
with TLC on small instances and, where stated, proved with TLAPS for every
instance. The source is the reference: each definition names what it models in
`PROJECT.json` ("map"), and where code and comments disagree the model follows
the code.

## 1. The system

A FastAPI process serves synchronous handlers on a pool of threads. It keeps
relational state in PostgreSQL (SQLAlchemy sessions, READ COMMITTED, no flush
before queries) and documents in MongoDB: sessions, one-time passwords, carts,
webhook events, and a mirror of the relational rows. Redis carries caches, rate
limits, queues and events. Razorpay is the payment gateway.

| Component | State | Operations | What is hard | What makes it correct |
|---|---|---|---|---|
| Food payments and orders (`routers/food.py`) | `food_orders`, `food_payments`, registered webhook events | intent, webhook, verify, failure report, dismissal, demo completion, cancel, deliver, staff status, timeout | webhooks in any order and repeated; handlers race on unlocked rows; partial writes of changed columns; a request dying between MongoDB and SQL; notices without a signature | paid only by the gateway's word or a sandbox notice's; paid stays paid; order and payment agree; a settled order is not reopened; a captured payment is recorded |
| Food checkout (`routers/food.py`) | order rows of a slot, stock, sold-out marks, row locks | single order, cart checkout, menu edit | checks before the locks; stale stock; resent carts; lock order; status updates that lock nothing | slots not overbooked; stock taken exactly; a cart placed once; requests end |
| Cart and catalogue (`routers/food.py`, `food_bootstrap.py`) | Mongo carts, shops, menu, slots, ratings | add, change, remove, clear, menu and shop edits, seeding, rating | read-modify-write of the cart; seeding again over live edits | a cart is of one shop |
| SQL outbox and mirror (`outbox.py`, `mongo.py`) | `outbox_events`, connection state | mirror, enqueue, dispatch, startup dispatch | outages, failures that pass for successes, crashes between write and commit, two dispatchers | accepted required writes are delivered at least once |
| Realtime hub (`realtime_bus.py`, `routers/realtime.py`) | subscribers, queues, dedupe cache, backends' channels | publish, backend message, replay, reconnect | the same event by several backends; echo of own events; full queues; lost connections | an event reaches a client once, and one that kept up hears all of them |
| Sessions (`auth_utils.py`) | `auth_sessions`, revoked access tokens | create, rotate, revoke, check | two refreshes at once, revoke against rotate, replay | a refresh token exchanged once is refused later; what was ended stays ended |
| Login OTP and MFA (`routers/auth.py`) | `auth_otps`, backup codes | request, verify, reset | parallel guesses, code used twice, partial consumption | one use per password and per backup code; bounded guesses |
| Registration (`routers/auth.py`, `id_alignment.py`) | `students` and `auth_users` in SQL and in MongoDB, id sequences, registration numbers | register, sign in (password or provider), reset the password, align ids, link and restore the profile, sync at requests and start | documents written before the SQL commit; ids of rolled-back rows reused; a foreign key that SQLite does not enforce | an account is linked to its own student |
| Attendance sessions (`routers/attendance.py`) | class session, attempt tokens, submissions | open, validate code, mark, staff marks | long face verification between check and write | attempts bounded; a verified student is counted |
| Attendance ledger (`attendance_ledger.py`) and rectification | events, records, correction requests | append, recompute, override, request, review | append and recompute of two transactions; approval racing rejection | the record is what the ledger says; an approved correction is counted |
| Recovery plans (`attendance_recovery.py`) | plans, actions, notices, autopilot | evaluate, cycle, acknowledge, complete | an autopilot cycle holds what it read while handlers go on; two active plans | a critical student is watched; what settled a plan is owned by somebody |
| RMS cases and messages (`routers/admin.py`, `messages.py`) | support threads, cases | write, answer, move, reopen, synchronise | unlocked cases moved by two people; lists that re-apply old markers, whoever sent them | a settled case is owned: an assignee, or a decisive word in the thread |
| Remedial classes (`routers/remedial.py`) | classes, codes, marks | schedule, regenerate code, send, cancel, mark | marks while the class is cancelled or moved | a slot attended stays done for the plan |
| Redis clients (`redis_dual_client.py`, `rate_limit.py`) | active instance, failure counts, listener, counters | hit, failover, health check, reconnect | outcome booked on another instance than served; listener left behind, or its loop ended | limits hold per instance; the listener comes back unless its loop ended |
| Workers and code mail (`workers.py`, `otp_delivery.py`) | queues, results, mail channels | enqueue, result, inline fallback | late answer against timeout; a mail reported failed that was sent | a caller told "sent" was mailed |
| Enterprise controls (`routers/enterprise.py`) | deletion requests, holds, the account | request, approve, hold, execute, SCIM | check then act across documents; a crash half way; a sign-in that recreates | requester, approver and executor differ |
| Identity shield (`identity_shield.py`) | cases, templates, devices | screen an applicant, screen a recorded face | screening after the commit, of what was read | every recorded face is screened or its screening was lost |
| Saarthi (`saarthi_service.py`) | session of the week, Sunday's event and record | page, status, turn, reset | first turns at once; midnight between reading and crediting; provider failures | a credited Sunday stays credited |
| Copilot (`routers/copilot.py`) | audit rows, what it scheduled, sent and opened | ask, rate | parts commit one by one and the answer is logged last | what an answer claims was done, was done |
| Face checks (`face_verification.py`) | templates, the frames of one check | enrol, check, load the runtime | two references; per-frame flaws; liveness over frames | accepted only if both references saw the face |
| Profiles (`attendance.py`, `academic_policy.py`, `media_storage.py`) | photo, blob, template, semester, section | photo upload, term sync, section change | the blob is in MongoDB; two uploads; UTC and campus disagree on the term | the photo's bytes exist; one promotion per term |
| Timetable (`attendance.py`, `people.py`, `copilot.py`) | classes, overrides, rooms, enrolments | create, override, assign, enrol, show, mark | two views of what a student has now | a class that is shown may be marked; the pages agree |
| Startup, migrations, observability; web client | | | | not modelled, see section 8 |

`PROJECT.json` lists the components with their status and every hazard at its
line, with the properties that cover it or the reason why none does.

## 2. Modules

* `FoodStatuses`: order statuses and the transitions staff may ask for.
* `FoodPayments`: orders and payments. `MCFoodPayments` instantiates it.
* `FoodPaymentsProofs`: theorems about it.
* `FoodCheckout`: placing orders. `MCFoodCheckout` instantiates it.
* `FoodCheckoutProofs`: theorems about it.
* `Delivery`: what an outbox promises, at-least-once delivery, in three variables.
* `Outbox`: the outbox as the code has it. `MCOutbox` instantiates it.
* `OutboxProofs`: theorems about it, with the proof that it implements `Delivery`.
* `AuthSessions`: one-time passwords, reset tokens and sessions of one account.
  `MCAuthSessions` instantiates it.
* `AuthSessionsProofs`: theorems about it.
* `RecoveryRules`: how classes held and missed become a risk level, and what a
  level asks of a plan. Pure operators.
* `ClassAttendance`: one student in one class on its day, with `RecoveryRules`.
  `MCClassAttendance` instantiates it.
* `ClassAttendanceProofs`: theorems about it.
* `MCServices`: fourteen services, one per behaviour (the variable `part`), each a
  module: `RecoveryPlans` (with `RecoveryRules`), `RmsCases`, `Accounts`,
  `RedisFailover`, `EventHub`, `Saarthi`, `Timetable`, `Registrations`,
  `FaceChecks`, `StudentProfiles`, `IdentityShield`, `FoodStore`, `OtpDispatch`
  and `Copilot`.
* `ServicesProofs`: theorems about `Accounts`, `FaceChecks`, `StudentProfiles`,
  `IdentityShield`, `RmsCases`, `RecoveryPlans`, `FoodStore`, `OtpDispatch` and
  `Registrations`.
* `PlatformProofs`: theorems about `Copilot`, `Saarthi`, `Timetable`, `EventHub` and
  `RedisFailover`.
* `MCServicesProofs`: theorems about the fourteen together, `ServicesSpec`, from the
  two before it.

`FoodPayments` takes over where `FoodCheckout` ends: its initial orders are rows
a checkout has placed. `FoodCheckout` abstracts what `FoodPayments` does to an
order into a reading and a writing (`ReadOrder`, `MoveOrder`), whose statuses are any two
of which the second may follow the first in the former.
`ClassAttendance` and `RecoveryPlans` share the rules: the first is about handlers
and autopilot that evaluate one plan at once, the second about what evaluations
in a row do to a plan, its actions and its case. `RmsCases` is about the cases of
a support thread, which no plan opens. `Timetable` says which classes there are,
and takes a mark as one step, which `ClassAttendance` takes apart; `FaceChecks` is
the step `VerifyFace` of the latter and `BeginMark` of `RecoveryPlans`.
`StudentProfiles` and `IdentityShield` follow the same uploads, one to the stores,
the other to the screening. `OtpDispatch` is the step `SendOtp` of `AuthSessions`.
`Outbox` stands for what the services call mirror writes; a service that depends
on how a mirror write fails (`Registrations`, `Copilot`, `Accounts`) models it.

### FoodPayments

A request is a record `job[w]` of worker `w`. Payment handlers take three steps,
because they touch the database three times: they read the payment row (the
handler's guards are evaluated there), read the order rows and compute the new
ones (`ReadOrders`), and commit. Handlers that start from order rows take two.
`WriteBack` is SQLAlchemy's UPDATE: a column is written only if the new value
differs from the value *this request read*, so two overlapping requests may each
contribute columns of one row. Nothing is locked, as in the code.

* Payment row: `status`, `provider_payment_id`, and the covered orders. The
  columns `order_state` and `payment_state` always move with `status` and are
  left out. Order row: `status`, `payment_status`, `payment_reference`.
* The gateway (external) records which of authorised, failed, captured each
  attempt went through; it captures an intent once, and any event it caused may be
  delivered any number of times in any order. `attempt = NoId` is the
  `order.paid` event, whose payload need not name a payment.
* A webhook that names another provider than Razorpay ("sandbox" by default) bears no
  signature; `X-Webhook-Token` is all it is asked for, and only if a token is set.
  `Arrives` lets such a notice say anything in `NoticeStatuses` of any payment that
  exists; `NoticeStatuses = {}` is a deployment whose token nobody else has.
* A webhook first inserts into `payment_webhook_events`: a duplicate changes
  nothing (`WebhookReplayed`), otherwise the event is registered in the same step
  that reads the payment and either is dropped (`WebhookIgnored`) or goes on
  (`WebhookAccepted`).
* `ReconcileFailure` is the failure report that asks Razorpay and learns of a
  capture; an unreachable gateway, or one without news, goes on as `LoadOrders`.
* `Abort` is a request that dies: its SQL transaction is gone, the registered
  event stays.

### FoodCheckout

`Begin` makes the checks before the locks, `LockRow` takes the slot's row and
then each item's, `TakeStock` or `Refuse` decide under the locks, `Commit`
inserts. The handlers that move orders on lock nothing: `ReadOrder` reads the order and
checks the transition, `MoveOrder` writes the new status at the commit, by the order's id
and over whatever another handler wrote meanwhile. An order brought back that way from a
status the handler had not seen is marked `revived` (a history variable). A single order uses the stock it read in `Begin` although it holds the
lock (`with_for_update().all()` does not refresh a loaded row), a cart refreshes
it (`StockKnown`). The database breaks a deadlock by failing one request
(`DeadlockVictim`, external). `request` in a row only tells the rows of two
requests apart.

Abstractions: one date; one cart line per item; menu items with tracked stock;
the demo mode, which skips every check, and orders placed by an admin, which skip
the single-shop rule, are left out; a menu edit sets stock and sold-out in one
step; PostgreSQL's locks, not SQLite's `BEGIN IMMEDIATE`; rate limit, geofence
and time window only refuse requests and are left out.

### Outbox

A write is one call of `mirror_document` or of the hub's `publish`. Its kind says
how it fails: a `required` mirror write raises, an `optional` one returns False,
an `event` raises unless it can be queued, or is lost without an error. `job[w]` is what thread `w` does with
its write: `sending` it directly, `queueing` a row in `outbox_events`, then
`selecting` and `dispatching` a batch of due rows; a starting process enters at
`selecting` with no write. The batch is one transaction: `rows` holds what it has
read and then written, and `Commit` or `RollBack` ends it. A dispatched row is
locked by the batch's first UPDATE of it, so that a second dispatcher that read
the same rows waits and then tries them again.

* `link` is the process's MongoDB connection: `closed` (an attempt to open it is
  allowed), `open`, or `cooling` after a failed attempt. `up` says whether MongoDB
  and the bus answer. A write that fails under way may have been applied.
* A publication that fails raises, or passes for a success (`quiet` in `Try`):
  `publish_json` returns False unless Redis is required and not degraded by its quota, and
  `_publish_backend_event` counts that as a success. `QuietFailures` says which of the two
  a deployment sees; `swallowed` are the events lost that way.
* A required write that finds no connection is refused before anything is queued
  (`SendRefused`); one that fails under way is queued and raises nevertheless.
* `answered` is what the caller was told; `delivered` what arrived.

`Delivery` sees `submitted`, `delivered`, `swallowed` and the rows marked sent, restricted
to the writes that must persist; it may drop what is `Droppable`, here the events. `Account`, the abstract step that changes what counts
as sent, lets a row go back from sent to pending, which a stale second dispatcher
does.

Abstractions: a document is delivered or not, so the order in which documents of
one key arrive is not seen; the outbox is switched on; a row's `due` stands for
`available_at`; attempts are counted up to their limit.

### AuthSessions

One account, privileged (a second factor is asked for) or not. Requests are
numbered in the order they begin, and what a request issues bears its number: the
one-time password of request 3 is `otps[3]`, its session `sessions[3]`, its access
and refresh token are both 3. That keeps names out of the state: `home[t]` is the
session token pair `t` belongs to, `sessions[s].cur`, `prev` and `jti` are the
numbers whose hashes and ids the document holds.

A handler is a sequence of MongoDB calls with nothing around them, so each write is
a step of its own and `job[w]` carries what thread `w` read:

| Request | Steps |
|---|---|
| `request_login_otp`, `request_password_reset_otp` | `RequestOtp`, `RetireOtps`, `InsertOtp`, `SendOtp` |
| `verify_login_otp` | `VerifyOtp` (reads the user), `FindOtp` (reads the password), then `CountMiss`, `DiscardOtp`, or `BurnCode` if a backup code is used, `ConsumeOtp`, `RevokeAll`, `CreateSession` |
| `verify_password_reset_otp` | the same to `ConsumeOtp`, `SupersedeResets`, `GrantReset` |
| `reset_password` | `ResetPassword`, `SpendReset`, `RevokeAll`, `RetireAllOtps` |
| `login_student_with_password`, SSO | `PasswordLogin`, `RevokeAll`, `CreateSession`; `SsoLogin`, `CreateSession` |
| `refresh_auth_token` | `Refresh`, `BarAccess`, `Rotate`; on a replayed token or an expired password `DropSession` |
| `logout` | `Logout`, `DropSession`, `BarAccess` |
| `get_current_user` | its condition is `AccessHonoured`; it writes only when the password has expired: `AccessWithOldPassword`, `DropSession` |

`Abandon` stops a request between any two steps. `spent`, `ended`, `via` and
`factor` are history that only properties read. A logout confirms even when MongoDB
fails; the specification counts a session as ended only if it was revoked.

Abstractions: whether a presented secret is right is a choice; what a password is,
and the SQL copy of it, are left out, so is everything that only refuses a request
(rate limit, captcha, inactive account at login). A resend cooldown may have passed
at any time. An access token's own expiry only refuses more.

### ClassAttendance

The attendance of one student in one class of a course. `job[w]` is the
transaction of thread `w`: what it read (`seen...`), what it will write (`put...`),
the rows it has locked (`wrote`) and the steps it has left (`todo`). `Handler`
begins one, `Proceed` takes its steps:

| Request | Action |
|---|---|
| attempt token for the faculty's code | `ValidateCode`, `IssueToken` |
| mark by the student | `RejectAtGate`, or `MarkAttendance`, `CountAttempt`, `VerifyFace` (or `RejectLocation`, `FaceUnavailable`), `ReadSubmission`, `WriteSubmission`, `AppendEvent`, `WriteRecord` |
| rectification: ask, decide | `RequestRectification`, `ApproveRectification`, `RejectRectification` |
| staff: review one or many, mark the class | `ReviewSubmission`, `MarkBulk` |
| staff: override, correction and its review | `OverrideAttendance`, `CreateCorrection`, `ReviewCorrection` |
| recomputation of the record | `RecomputeRecord` |
| `run_recovery_autopilot_cycle` | `Autopilot` |

A write locks its row to the commit; one that meets another's lock waits and then
writes what it had decided, and `Put` writes a column only if it differs from what
was read. `UniqueViolation` and `DeadlockAbort` are the database's refusals, `Fail`
an error or a crash. Reading the latest event and writing the record are apart, so
that two transactions may each miss the other's event; `overlapped` marks the
record they leave, and `RecordFollowsLedger` says that nothing else leaves it
behind the ledger.

Abstractions: a handler is cut only where it may have to wait or where a slow
call lies between reading and writing; the plan's row is written at the commit;
a request dies at its last step, which is the worst case for what it has written;
one correction is followed; a token that expires is one that is not used; what came
before is one of six pasts (`Pasts`), and the earlier classes of the course are
constant. Location, device and window only refuse a mark and are one choice.

### The services

Each module has its own `Init`, `Next` and type invariant.

* `RecoveryPlans`: the plan of one student in one course, `action`s, remedial
  classes (`CreateMakeUp`, `SendCode`, `CancelMakeUp`, `BeginMark`/`FinishMark`,
  `MarkForStudent`) and the case that escalates the plan. `BeginCycle` is what the
  autopilot reads, `CommitCycle` what it writes after the mails, `FailCycle` its
  rollback. `HoldClass` is a class held: a recorded one evaluates the plan, one
  known from the timetable alone waits for the autopilot. Left out: action types
  other than the ones in `Followed`; a second case (RmsCases has them); evaluations
  at the same time (ClassAttendance).
* `RmsCases`: one student's thread with one faculty member, its cases, and one
  request `held` between reading and commit while others are served at once, so that every two can race. A message, of the student or of the faculty, is text or begins
  with an action marker (`SendMessage`): the synchronisations do not look at its sender.
  Left out: escalation by date, read marks, other threads.
* `Accounts`: the document and the row of one address, a deletion request with
  approval, legal hold and execution in separate writes (`EraseUser`,
  `EraseSessions`, `CompleteDeletion`), SCIM, SSO, sign-in and the reset code that
  may bring an erased document back. Left out: other addresses, a second request.
* `RedisFailover`: the hits of one key in one window over two instances, the
  health check, the listener and its reconnection. `execute_with_failover` books a
  failure on the instance that is active by then, which need not be the one that
  failed. A hit out of quota closes the clients under the listener (`GivesUp`), which finds
  its connection cut (`FindCut`): the library connects again, the loop goes on, or an
  error that says "closed file" ends it. Left out: the single-client set-up, other
  operations than the hit.
* `EventHub`: publications with their scope, the backends' channels, dedupe cache,
  queue of the client, outbox redispatch, restarts. A publication is one step. One
  client per process in `Readers`. Left out: topics and the scope "all"; `Lapse` is
  the cache entry that expires.
* `Saarthi`: the requests of one student in one week, cut where they read what
  another request changes or wait for its row. Chat rows and provider answers are
  abstracted to their number and kind.
* `Timetable`: classes by course, weekday and start; overrides; and three views of
  them, `Effective` (timetable), `MayMark` (marking) and `CopilotList` (copilot),
  each translated from its own function. One student, atomic requests, one start
  hour per weekday in the run. The location lock and the session are
  ClassAttendance's; that the copilot uses the server's date and not the campus
  date, and its checks of the profile, are left out.
* `Registrations`: rows and documents of students and accounts, ids handed out by
  a sequence (PostgreSQL) or as highest plus one (SQLite), the steps of a
  registration and what brings the stores together (`AlignUserId`, `LinkProfile`,
  `RestoreProfile`, `SyncRequestUser`, `SignInFederated`, `ResetPassword`,
  `SyncStudentRow`, `SyncUserRow`, `ReissueNumbers`). A link may name a row that does not
  exist on SQLite, whose foreign keys are not enforced (`MayLink`). Students only. The address check of both stores is one step, and so are a flush and the
  mirror write after it.
* `FaceChecks`: an image is the check it fails with its severity (one flaw), the
  similarity with each template in per cent, and pose and texture units for the
  liveness check. The lock of a recorded enrolment is time that may have passed;
  a restart loses the request.
* `StudentProfiles`: photo, blob and template in two stores, the semester and
  section over terms. The 14-day lock of a photo may have expired at any time; the
  48-hour lock and the capacity of a section are left out; sections are named by
  semester and term. `spoilt` and `hasty` record the two ways in which the code
  itself breaks what the properties say, so that nothing else may.
* `IdentityShield`: screenings of one student and of applicants; templates are the
  numbers of uploads, `Likeness` says which resemble each other. One device, and
  one applicant in the run.
* `FoodStore`: the catalogue, the cart document as several tabs read and write it
  whole, and ratings. One line per item (no notes); quantities, stock and prices only
  as far as guards ask; demo mode off in the run. A line may be taken from a cart
  that has lost it (`strayed`). Checkout is FoodCheckout's.
* `OtpDispatch`: a code request from its row to the answer, through the Celery
  queue or inline, with the mail channels. Broker, worker and mail servers
  (external) fail, answer late, or take what they report as failed. A code may be
  spent by a verification, or retired by a later request, before the answer (`SpendCode`).
  The rest of the request is AuthSessions'.
* `Copilot`: questions of one staff account. `Schedule`, `SendRemedialCode` and
  `OpenCase` commit on their own; then `LookForMirror`, `InsertMirror` and `LogAnswer`
  write the audit row, which needs the asker's `auth_users` row. A failure that nobody
  foresaw answers "retry" without a rollback (`Fails`); an audit row that cannot be
  written leaves the answer unaudited (`AuditFails`). The reads behind an answer are
  abstracted to its outcomes; the mirrored account row exists or not; the account
  always has a support thread; a code message that is refused leaves the plan
  completed. `ClassesNeeded` and `SafeAbsences` are its attendance arithmetic.

## 3. Runs

| Run | Shows |
|---|---|
| `food_payments_serial` | one worker, one order, two intents, one attempt each, demo mode on, one request may die: `PaidOrderNamesPayment`, `PaidPaymentStaysPaid`, `SettledOrderNeverReopens` |
| `food_payments_concurrent` | two workers: `PaidNeedsGateway`, `PaidLeavesPlaced`, and with fairness `CaptureReachesLedger` |
| `food_checkout` | two workers, two students, two shops, two slots, five carts: `KitchenWithinCapacity`, `CheckoutTakesItsStock`, `PatientStudentOrdersOnce`, `SingleShopAtATime`, and with fairness `RequestEnds` |
| `outbox_delivery` | a required write and an event, two threads, limits that split a batch, two faults out of outages, crashes and SQL failures: `AcceptedIsNotLost`, `DeliversAtLeastOnce` (refinement), and with fairness `RestartsDeliver` and `JobEnds` |
| `auth_sessions` | two threads, four requests of any kind: `OneUsePerOtp`, `GuessesBounded`, `EndedSessionsStayOver`, `SpentTokenIsRefused` |
| `class_attendance` | two threads, two handlers of any kind and the autopilot, one earlier class: `RecordFollowsLedger`, `CountedAsClaimed`, `AttemptsBounded`, `CreditOnlyLostToStaff`, and with fairness `PlanCatchesUp` |
| `services` | the fourteen services, one per behaviour; the properties are in the table below |
| `food_payments_dismissal` | violation: dismissing one intent cancels an order that another intent paid |
| `food_payments_replay` | violation: a webhook that dies after its registration is never processed |
| `food_checkout_retry` | violation: a cart sent again before the answer is placed twice |
| `outbox_optional` | violation: a queued optional write is marked sent without being written |
| `auth_backup_codes` | violation: two overlapping logins use one backup code |

The five violations are findings in `PROJECT.json`, each with the text of the
repository it contradicts.

The services share no state with one another in these models, so that a product of
two would show nothing that each does not show alone. They are one run because
`part` is chosen at the start and never changes.

| Part | Property | What it says |
|---|---|---|
| `recovery` | `AttendedSlotStaysDone` | a remedial class that counted for the plan is not taken back by a later evaluation or a stale cycle |
| | `CriticalIsWatched` | at critical risk there is an open case again and again (fairness of the autopilot) |
| `rms` | `SettledIsOwned` | no case is settled for which nobody answers, whichever transitions race |
| `accounts` | `ThreeAdmins` | a completed deletion took three administrators |
| `redis` | `ListenerRecovers` | the listener ends on an instance that is up (fairness of its thread) |
| | `AllowedBounded` | hits allowed are bounded by the places that count them |
| `hub` | `DeliveredOnce` | an event reaches the clients of an instance once, but for redispatch and a lapsed cache |
| `saarthi` | `CreditHolds` | a Sunday is credited once, with its event, and stays present |
| `timetable` | `ShownMayBeMarked` | a class that is shown may be marked, and the copilot finds it |
| | `PagesAgree` | history, aggregate and timetable count the same attendance |
| `registrations` | `LinkIsOwn` | an account never shows another student's record |
| `faces` | `RecognisedByBoth` | a fifth of the frames was recognised by both references |
| `profiles` | `PhotoIsWhole` | the photo's bytes and template exist and are its own |
| | `PromotedOncePerTerm` | one promotion per term |
| `shield` | `FacesAreScreened` | the faces of a student were screened together |
| `food` | `CartIsOfOneShop` | a cart's items are of one shop |
| `otp` | `ConfirmedIsMailed` | a code is reported as sent only when it was mailed and still stands |
| `copilot` | `AnswerIsKept` | what an answer claims was done, was done, and is in the audit row |

`ServicesWellFormed` is the type invariant of the part together with
`CartIsOfOneShop`, `ConfirmedIsMailed` and `AllowedBounded`.

Several of these hold only up to a named exception (`republished`, `forgotten`,
`late`, `spoilt`, `hasty`, `strayed`, `unscreened`, `overlapped`, `raced`): a history
variable that records the one thing the code does about which the property would
fail, so that what is checked is that nothing else does. The comment at each property
says when its exception occurs.

Serial and concurrent runs are apart because the code keeps different promises in
them. Served one by one, requests keep order and payment consistent. Overlapping
ones do not: with two workers TLC finds `PaidPaymentStaysPaid`,
`PaidOrderNamesPayment` and `SettledOrderNeverReopens` violated (a failed event
that read the row before the capture committed writes over it). The repository
promises nothing about overlapping requests, so these are recorded as hazards.

### Bounds

`MaxRequests` counts requests of people, not webhooks, which are bounded by the
events that exist; `MaxAborts` counts requests that die. Four requests are
enough for intent, second intent, failure or dismissal, and one move by staff;
the mutants and the violations need at most that. With two workers three
requests suffice for an intent and two racing ones besides the webhooks. The
checkout run has three requests: two that compete and one that precedes them, or
a menu edit between them; capacity two and three and stock two put every limit
within reach. Deadlock checking is off in these runs since a behaviour ends when
the requests are used up.

In `outbox_delivery` two faults are what it takes to queue both writes at once
(MongoDB and the bus fail), to lose an answer to a crash, or to fail a batch after
an outage; two attempts tell a row with attempts left from one without. The code's
limits are 20 rows for a request and 200 for a start; with two rows the instance
takes 2 and 1, so that one dispatcher sees both rows and the other is cut short.
Deadlock is checked: a process can always be started again.

In `auth_sessions` a one-time password is refused after one miss (five in the code):
the limit is compared and the counter incremented in the same way, and two threads
that guess at once already pass it. Four requests are a login, a second request that
overlaps it, and two more to use what they left: a session and two refreshes, a
password and two verifications. `BackupCodes` has one member there, and two in
`auth_backup_codes`, where a second code is what the lost update brings back. Threads
and codes are interchangeable, hence the symmetry; no liveness is checked with it.

In `class_attendance` a student has one token and one attempt (three and ten in
the code): the limits are compared in the same way, and two threads that count at
once pass them already. Two handlers are any pair that can race, on top of a past
that earlier handlers have left; the autopilot comes on top of both. The thresholds
are the code's defaults (75, 65, 50 per cent; two, three, four absences), and with
one class attended before, presence and absence on the day call for different plans.

In `services` each part has its own bounds, at the size where each action fires and
each mutant is found: two threads where requests race, two backends and two processes
for the hub, two Redis instances, three administrators, two weekdays and one room, two
addresses and three ids for three registrations of which one may die, one change of
term. Deadlock is not checked there since a part stops when its bounds are used up; in
`class_attendance`, where the autopilot never stops, it is. The face check needs four frames:
below that a majority of the frames is a streak, and the two rules cannot be told
apart. The risk thresholds of the plan are set to 60, 50, 34 per cent so that three
classes reach every level. With two registrations that die (`MaxLostSignups`
= 2) `LinkIsOwn` fails: a document may keep the number of a row that another
registration took over; that is recorded as a hazard, and the theorem assumes at most one.

Each property has a mutant of the modelled code under "mutants", that is, a
plausible bug with which TLC finds it violated.

### Fairness

`FoodPayments`: a started request goes on (WF: the thread pool runs it), and the
`order.paid` event is delivered again until it is answered (SF: Razorpay repeats
deliveries, and a free worker is there again and again). `FoodCheckout`: a request
that can step does, and the database resolves deadlocks (WF). `Outbox`: threads
run and time passes (WF of each thread, of a row coming due, of the cooldown's
end); that destinations recover and that processes are started again is not
assumed but is the hypothesis of `RestartsDeliver`, because no timer dispatches
the outbox. `AuthSessions` states no liveness: its handlers neither wait for one
another nor retry. `ClassAttendance`: a thread goes on with its transaction, and the
autopilot's thread wakes for ever (WF); nothing is assumed about handlers being
called. `RecoveryPlans`: the autopilot's cycles begin and commit (WF). `RedisFailover`:
the listener's daemon thread runs (WF); that an instance stays up is the hypothesis of
`ListenerRecovers`. `ServicesSpec` states both as one WF: `part` never changes, so it is
the fairness of the thread the behaviour is about. The other services state safety only. No fairness is assumed of
people, of the gateway's decisions, or of crashes.

## 4. Proofs

Each safety property of a passing run is proved for every value of the constants, with
the hypotheses under Assumptions below; section 7 says what stays with TLC and why. For
the services the
theorems speak first of a module's own specification; `MCServicesProofs` then carries
them to `ServicesSpec`, which the run `services` checks. The proofs
follow one scheme: the invariant holds at first, a lemma for each action says that it
is kept, and a temporal step combines them. What differs is the invariant. A step acts
on what its request read earlier, so that none of the properties is inductive; the
invariant adds what a request under way may still rely on.

### Food payments

For every set of orders, payments, attempts and workers and every bound:

* `TypeCorrect`: `Spec => []TypeOK`.
* `PaidNeedsGatewayAlways`: a request that is about to commit "paid" already has the
  gateway's word. The strengthening says so of each job's `payNew`, and that jobs of
  one payment agree with its row on what they read.
* `PaidLeavesPlacedAlways`: a request writes single columns, so that "paid" and
  "verified" may be written by different requests. The strengthening tracks, for each
  job that is about to write "paid", that each covered order has left `placed`, or is
  about to leave it by this job's own write, and that no job carries a write back to
  `placed`.
* `PaidOrderNamesPaymentAlways`, `PaidPaymentStaysPaidAlways`,
  `SettledOrderNeverReopensAlways`: assuming `OneAtATime`, that is, at most one worker.
  The run `food_payments_serial` checks them with one, and with two they fail (section
  3). On top of the invariant above `SerialInv` says that the rows are as the request
  read them (`RowsAsRead`), so that a commit writes the rows that were computed
  (`CommitWrites`): what is left is that each handler computes good ones.

### Food checkout

For every set of students, carts, items, slots and workers and every capacity and stock:

* `TypeCorrect`, and under the locks `CheckoutTakesItsStockAlways` and
  `KitchenWithinCapacityAlways`. `LocksHeld`: no row is locked twice, and a request that
  has taken its stock holds every row its cart needs. Hence what it read under the lock
  is still so: the stock (`StockKept`) and the room in the slot (`RoomKept`). That a
  cart has no more lines than its total quantity bounds what a commit adds to the slot.
* `PatientStudentOrdersOnceAlways`, `SingleShopAtATimeAlways` rest on no lock, as the
  checks they are about run before the locks: a student who waits has one request under
  way (`OneRequestEach`), so nobody places his cart meanwhile (`CartsWhole`) and what it
  found about his other orders is still so (`StillSameShop`).

### Outbox

For every set of writes and threads and every limit and bound of the outbox:

* `TypeCorrect` (module `OutboxProofs`): `Spec => []TypeOK`.
* `AcceptedIsNeverLost`: `Spec => []AcceptedIsNotLost`.
* `ImplementsDelivery`: `Spec => DeliversAtLeastOnce`. Both rest on `IInv`: what the
  table says of rows, a batch in progress must already keep (`HonestBatch`: its
  rows are rows of the table, and the ones it will mark sent have arrived), and a
  thread that will tell its caller "ok" has its write in the table
  (`QueuedWrite`). Since nothing takes a delivery or a row back (`Monotone`), a
  batch that another thread overtakes stays honest. Each step then maps to
  `Accept`, `Deliver`, `Account` or a stutter.

### Sessions and one-time passwords

For every set of threads and every number of requests and misses allowed, in
`AuthSessionsProofs`:

* `TypeCorrect`, `OtpConsumedOnce`, `EndedSessionsNeverReturn`, and
  `SpentTokensStayRefused`, from one inductive invariant `IInv`: `OwnNumber` (no two
  requests under way share a number, and the number has issued nothing yet),
  `KnowsItsDocument` (what the job is about exists, and a refresh's token belongs to the
  session it rotates), `SpentIsReplaced` (a token once replaced is nobody's current
  token: a rotation only ever stores fresh numbers), `EndsAreClosed` (the sessions a job
  promises to end exist, and are revoked once the job has passed the step that revokes
  them). Revocation is never undone since `Rotated` leaves `revoked` alone; that is what
  the mutant `RotatedWhole` breaks.
* `GuessesNeverExceed`: the limit is kept with `Counted`, which adds to a password's
  misses the threads about to count one; a thread joins them only below the limit,
  and leaves them by counting.

### Class attendance

For every set of workers, numbers of tokens, attempts and handlers, and every past:

* `AttendanceInvAlways`: the invariant has three layers. `Routine(j)` is about one
  handler alone: what it has read and decided, given the steps it has left (a mark
  counts its attempt before the face is looked at, only a mark verifies, an event is
  followed by its record in the same transaction, a correction is noted as applied in
  the transaction after its event's). The sequences of steps a handler may have left are
  listed as `Programs`. `Fitting(j)` sets what it has read against the tables as they
  are now: a reading of the day that nobody outdated (`~j.stale`) is that of the latest
  event. The tables: one writer of the submission's row (`OneWriter`), events numbered
  by a clock that no handler outruns (`Clocked`), tokens issued in order and within
  their limit together with those about to be issued (`IssuedInOrder`), face checks no
  more than counted attempts (`FacesCounted`).
* From it `TypeCorrect`, `RecordFollowsLedgerAlways`, `CountedAsClaimedAlways`,
  `AttemptsBoundedAlways`, and the action property `CreditOnlyLostToStaffAlways`.

### Services

In `ServicesProofs` and `PlatformProofs`, for all constants of each service:

* `ThreeAdminsAlways` (`RolesApart`): who is about to approve did not ask, who executes
  neither asked nor approved, and what they have read cannot be changed meanwhile.
* `RecognisedByBothAlways` (`FaceCounted`): the invariant counts for each reference the
  frames it accepts and the frames both do: the two counts together exceed the number
  of frames by no more than the frames of both, and two majorities of three fifths
  exceed it by a fifth (`MajoritiesMeet`).
* `PhotoIsWholeAlways` (`PhotoKept`, `UnderWay`): a photo under way has a blob and no
  row, and what an upload replaces has a row, so that no upload marks another's photo.
* `PromotedOncePerTermAlways` (`Dated`): the semester is accounted for up to the term
  of the date kept with the section, not up to the present term.
* `FacesAreScreenedAlways` (`ScreeningAhead`): the faces of now were screened, or a
  request that will look at them, or has, is under way; `StatusesHold` carries a
  verdict from the request that read the faces to its commit.
* `SettledIsOwnedAlways` (`HeldFits`): before staff has spoken only transitions move a
  case, and the request held between reading and commit has not outlived the assignee
  it read.
* `AttendedSlotStaysDoneAlways` (`CycleSpares`): a cycle of the autopilot that has read
  the plan is never about to cancel a slot that was credited, since a mark waits for the
  cycle. The thresholds of risk and the length of the past do not matter.
* `CartIsOfOneShopAlways`, `ConfirmedIsMailedAlways`: conjuncts of `ServicesWellFormed`.
  What a tab is about to write is pinned as the cart is (`CartInv`), and a task that
  ended well, in the queue or inline, mailed its code (`CodesMailed`).
* `DeliveredOnceAlways` (`Accounted`): deliveries of an event are no more than its
  redispatches and lapses, and one more only for an event the instance published or
  still remembers. Any number of backends, and any size of cache and stream.
* `AllowedBoundedAlways` (`RedisInv`): the bound of the hits allowed is a sum over the
  instances, and a sum cannot be reasoned about by induction here. The proof counts a
  set instead: `Spent` holds a pair of an instance and a number for each hit within the
  limit that it has counted, and `LimitKept` says that the hits allowed, with those that
  have been counted within the limit and wait for their answer (`Passing`), are no more
  than `Spent`, the process's own counter, and one limit for each loss of an instance's
  counts. A request that fails over is counted in a second place, never allowed twice.
  `HitsCounted` bounds each counter by the hits begun
  and not still on their way to it.
* `CreditHoldsAlways` (`RequestsFit`): one request at a time holds the Sunday's record,
  so what it found of the ledger is still so when it commits; a request that credits the
  session holds the event with it.
* `ShownMayBeMarkedAlways`: a statement about three functions of the same rows, true of
  any rows, overrides and enrolments, reachable or not; no induction is needed.
* `AnswerIsKeptAlways`: what is done is never undone, so a claim is good once its commit
  has passed; the invariant follows it from the request to the audit row and to the
  answer. `MirrorsAhead` says where in its handling a request may count on what has been
  written before.
* `PagesMatchAlways`: the totals and the history are functions of the same rows, written
  twice. The totals count: submissions, records, days on which a class was held
  (computed by whole weeks since the term began), or one class if all else is zero. The
  history lists: an entry for each. `Told` turns a comparison of sizes into one of
  members: if each class counted has an entry, and no two the same, then the entries are
  no fewer. `EntryOfSubmission`, `EntryOfRecord`, `EntryOfClass` and `EntryOfFallback`
  find the entry. `CountedWasHeld` does the arithmetic of weeks, from uniqueness
  of remainders up: the k-th week counted has a day on which the class was held. Only
  the types of the rows and the weekday of a submission (`TimetableInv`) are needed of
  the states.
* `LinkIsOwnAlways` (`LinkInv`), for at most one registration that dies: the row an
  account is linked to is its own while no id changes hands, and an id changes hands only
  when a row is written again for an address that has lost its row. `Astray` are those
  addresses, with those whose document names an id without a row; `OneAstray` says that
  there is at most one, and none before a registration has died, so that an id without a
  row can be named by nobody but the address the row is then written for. A registration
  under way keeps apart from all others in address and id (`RowsApart`, from the unique
  keys the database makes writers wait for), has its document to itself (`OwnDoc`) and,
  from the release of the stale link on, the links to its id (`Freed`). `Foreign`,
  `Strewn` and `References` say which documents may lie under another's id, and that
  whatever is linked to a document that is going to be moved is of its address: that is
  what `align_student_profile_id_with_sql` relies on when it moves the references with it.
  Steps that only bring the stores together share the lemma `Quiet`.
* `ClassesNeededIsExact`, `SafeAbsencesIsExact`: the number of classes the copilot says
  a student needs to reach 75 %, or may miss, is the smallest, or largest, that is
  right. The code computes both in integers from counts of classes.

### The services together

In `MCServicesProofs`, of `ServicesSpec`:

* `ServicesWellFormedAlways`: `ServicesInv` joins the invariant of each of the fourteen
  modules; a step moves one of them and leaves the others' variables alone
  (`EachSteps`). The types in it are not all plain: the caches, streams and queues of the
  hub, the turns Saarthi keeps, and the ids given out by registrations are bounded
  (`HubBounded`, `SaarthiKept`, `RegistrationsInv`), and a shop's rating counts ratings of
  its own orders, as does the one a request is about to write (`StoreInv`).
* `PagesAgreeAlways`, and `ServicesSafe` for the eleven other invariants of single
  services and, with at most one registration that dies, `LinkIsOwn`.
* `EachServiceRuns`: a behaviour of `ServicesSpec` is one of each module's own
  specification (of `RecoverySpec` without its fairness). This is what lets a theorem about
  one module, proved apart, be read as a statement about the system the run checks.

### Assumptions

Assumed is what each module's `ASSUME` names and TLC evaluates in the runs: types of the
bounds, finitely many workers, items and administrators, and that marker values are
outside the sets they mark. These say more:

* `CheckoutAssumption`: a cart is of one shop (the request is refused otherwise), and
  `TotalQuantity`, a sum over the cart, is a number no less than the cart's lines. The
  sum is defined by induction over data, which the provers cannot do; TLC evaluates the
  two facts for the carts of the run.
* `AttendanceAssumption`: there is a worker.
* `ProfileAssumption`: the first semester is not after the last.
* `RecoveryPlansAssumption`: a code is issued with a remedial class, so there is at
  least one.
* `TimetableAssumption`: a week has a day, there are a date and an hour, the courses are
  finitely many, and the first rows are rows: an end of day for each place, a room or
  none for each course.
* `RegistrationsAssumption`: the word that stands for no address is not an address.
* `OneAtATime`, for the three theorems about payments that say so, and `MaxLostSignups <= 1`
  for `LinkIsOwnAlways`: beyond either hypothesis TLC finds the property violated.

## 5. Plan

Modelled so far, in this order: food payments and checkout, outbox, sessions and
one-time passwords, attendance with ledger and recovery, then the services. All
twelve runs that keep checking within minutes are in use: what comes next goes
into the existing modules, or as a part into `MCServices`.

1. MFA enrolment, key rotation and the backup drill, as actions around `Accounts`.
2. Compositions: `EventHub` with `RedisFailover` as one of its backends; a mark of
   `ClassAttendance` with the enrolment and override of `Timetable`.

## 6. How to check

`tlc -config FoodCheckout.cfg MCFoodCheckout` and so on for the runs in
`PROJECT.json`; `tlapm FoodPaymentsProofs.tla` and so on for the eight modules whose
name ends in `Proofs`, from half a minute to ten each. The longest run is `services`, a few
minutes. To look at one service alone, restrict `part` in `ServicesInit`.

## 7. Model-checked only

* Liveness under fairness is out of the prover's reach: `CaptureReachesLedger`,
  `RequestEnds`, `RestartsDeliver`, `JobEnds`, `PlanCatchesUp`, `CriticalIsWatched`,
  `ListenerRecovers`.
* What is computed by induction over data: the sum over a cart (`TotalQuantity`).
* The five violations: their counterexamples are the result.

## 8. Not modelled

* Startup, schema migration, metrics and logging: wiring, with no state that a
  request depends on; the dispatch of the outbox at startup is in `Outbox`, the
  synchronisation of rows and documents in `Registrations`.
* The web client: its calls are the requests the modules enumerate.
* `schemas.py` (validation of shapes) and the maintenance scripts.
* Enterprise: enrolment of a second factor, rotation of the encryption key, backup
  drills, exports. They are single writes or files; a rotation that overlaps a
  change of a document loses that change.
* The rest of the copilot: recognising what a question asks, its summaries of the
  modules, advice about blocked food orders, the list of audits. All of it reads only.
* Study material, resources, announcements and dashboards: storage and lists.
* What no request reaches: `load_default_student_timetable` always answers 410,
  so `_ensure_default_timetable_for_student` never runs; the frames of the classic engine in
  `verify_face_sequence` are never reached; `soft_delete_expired_media` has no caller.
* The similarity, pose and texture of images are numbers given from outside.
