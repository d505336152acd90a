--------------------------- MODULE RecoveryPlans ---------------------------
(***************************************************************************)
(* The recovery plan of one student in one course, the actions it asks     *)
(* for, the remedial classes they point at and the RMS case that escalates *)
(* it.  (app/attendance_recovery.py, app/routers/remedial.py.)             *)
(*                                                                         *)
(* Evaluations of one plan are served one after the other, for they lock   *)
(* its row; ClassAttendance is about those that overlap.  What falls       *)
(* between the reading of an autopilot cycle and its commit, with mails    *)
(* and a language model in between, is what the student does.              *)
(***************************************************************************)
EXTENDS RecoveryRules

CONSTANTS
  Followed,      \* types of action followed: each is kept and cancelled on its own
  MakeUps,       \* remedial classes of the course, numbered in the order of their dates
  FirstClasses,  \* the classes held before: TRUE where the student was present
  MaxClasses,    \* bound: classes held
  MaxCodes,      \* bound: codes of one remedial class
  MaxMarks,      \* bound: marks of one remedial class at a time
  MaxFailures    \* bound: cycles that fail

ASSUME RecoveryPlansAssumption ==
  /\ MakeUps \subseteq Nat \ {0} /\ IsFiniteSet(MakeUps)
  /\ FirstClasses \in Seq(BOOLEAN)
  /\ Followed \subseteq ActionTypes
  /\ {MaxClasses, MaxMarks, MaxFailures} \subseteq Nat /\ MaxCodes \in Nat \ {0}

VARIABLES
  classes,   \* the classes held: TRUE where the student was present
  makeup,    \* rows of makeup_classes
  message,   \* the code in the student's message of each remedial class
  attended,  \* rows of remedial_attendance
  marking,   \* marks of the student whose face is being verified
  plan,      \* the plan written last
  action,    \* status of the plan's actions
  rmsCase,   \* status of the RMS case opened last about the plan's course
  mailed,    \* a mail about recovery is in the log of the last day
  cycle,     \* what the autopilot has read and not committed
  failures,
  credited   \* history: slots a mark completed, and the student has not reopened

recoveryVars ==
  <<classes, makeup, message, attended, marking, plan, action, rmsCase, mailed, cycle,
    failures, credited>>

\* The clock of the class runs ahead of the one recovery compares with (campus time and
\* UTC): a class is recommended until it is long over.
Phases == {"none", "upcoming", "open", "over", "past"}
MakeUp == [phase : Phases, active : BOOLEAN, code : 0..MaxCodes]
NoMakeUp == [phase |-> "none", active |-> FALSE, code |-> 0]

\* An action is found again by its type and its remedial class, if it has one.
Slot(m) == <<"REMEDIAL_SLOT", m>>
ActionKeys == ((Followed \ {"REMEDIAL_SLOT"}) \X {0}) \cup {Slot(m) : m \in MakeUps}
KeyType(key) == key[1]
ActionStatuses == {"none", "PENDING", "SENT", "ACKNOWLEDGED", "COMPLETED", "CANCELLED"}
PlanStatuses == {"none", "ACTIVE", "ESCALATED", "RECOVERED"}
NoPlan == [status |-> "none", risk |-> NoRisk]

OpenCases == {"NEW", "TRIAGE", "ASSIGNED"}
CaseStatuses == OpenCases \cup {"none", "APPROVED", "REJECTED", "CLOSED"}

NoCycle == [risk |-> "idle", makeup |-> 0, cancels |-> {}]

RecoveryTypeOK ==
  /\ classes \in Seq(BOOLEAN)
  /\ makeup \in [MakeUps -> MakeUp]
  /\ message \in [MakeUps -> 0..MaxCodes]
  /\ attended \subseteq MakeUps
  /\ marking \in [MakeUps -> 0..MaxMarks]
  /\ plan \in [status : PlanStatuses, risk : Risks \cup {NoRisk}]
  /\ action \in [ActionKeys -> ActionStatuses]
  /\ plan.status = "none" => \A key \in ActionKeys : action[key] = "none"
  /\ rmsCase \in CaseStatuses
  /\ mailed \in BOOLEAN
  /\ cycle \in [risk : Risks \cup {NoRisk, "idle"}, makeup : MakeUps \cup {0},
                cancels : SUBSET ActionKeys]
  /\ failures \in 0..MaxFailures
  /\ credited \subseteq attended

RecoveryInit ==
  /\ classes = FirstClasses
  /\ makeup = [m \in MakeUps |-> NoMakeUp]
  /\ message = [m \in MakeUps |-> 0]
  /\ attended = {}
  /\ marking = [m \in MakeUps |-> 0]
  /\ plan = NoPlan
  /\ action = [key \in ActionKeys |-> "none"]
  /\ rmsCase = "none"
  /\ mailed = FALSE
  /\ cycle = NoCycle
  /\ failures = 0
  /\ credited = {}

(***************************************************************************)
(* Evaluation of the plan                                                  *)
(***************************************************************************)

PlanIsActive == plan.status \in {"ACTIVE", "ESCALATED"}

Recommendable ==
  {m \in MakeUps : makeup[m].active /\ makeup[m].phase \in {"upcoming", "open", "over"}}

\* The next remedial class, or 0.
Recommended ==
  IF Recommendable = {} THEN 0
  ELSE CHOOSE m \in Recommendable : \A n \in Recommendable : m <= n

\* The student has a parent's address and parents are alerted.
RequiredKeys(risk, next) ==
  {key \in ActionKeys :
     /\ KeyType(key) \in RequiredActions(risk, next # 0, TRUE)
     /\ KeyType(key) = "REMEDIAL_SLOT" => key = Slot(next)}

\* Actions an evaluation adds, or takes up again.  A new plan starts without any.
Upserted(risk, next) ==
  [key \in ActionKeys |->
     LET now == IF PlanIsActive THEN action[key] ELSE "none"
     IN IF key \in RequiredKeys(risk, next) /\ now \in {"none", "CANCELLED"}
        THEN DefaultStatus(KeyType(key)) ELSE now]

\* Mutant: what the student has done is cancelled with the rest.
Unused_Done(risk, next) ==
  {key \in ActionKeys \ RequiredKeys(risk, next) :
     PlanIsActive /\ action[key] \notin {"none", "CANCELLED"}}

\* Actions an evaluation cancels: what the student has completed is left alone.
Unused(risk, next) ==
  {key \in ActionKeys \ RequiredKeys(risk, next) :
     PlanIsActive /\ action[key] \notin {"none", "COMPLETED", "CANCELLED"}}

Cancelled(actions, keys) ==
  [key \in ActionKeys |-> IF key \in keys THEN "CANCELLED" ELSE actions[key]]

\* Mutant: a case that was settled is enough.
Escalated_Settled == IF rmsCase \in OpenCases \cup {"none"} THEN "TRIAGE" ELSE rmsCase

\* An open case goes back to triage, whoever it was assigned to; a new one takes the
\* place of a settled one.
Escalated == "TRIAGE"

PlanStatusOf(risk) == IF risk = "critical" THEN "ESCALATED" ELSE "ACTIVE"

\* Nobody is written to who had a mail within the day, for any course.
Mails(risk) == risk # NoRisk /\ ~mailed

\* A new plan forgets what was completed under the old one.
CreditKept == IF PlanIsActive THEN credited ELSE {}

\* evaluate_attendance_recovery where nothing comes between.
EvaluatedWith(held, actions, done) ==
  LET risk == RiskLevel(held)
      next == Recommended
      keys == Unused(risk, next) \ done
  IN IF risk = NoRisk
     THEN /\ plan' = IF PlanIsActive THEN [status |-> "RECOVERED", risk |-> plan.risk] ELSE plan
          /\ action' = Cancelled(actions, IF PlanIsActive THEN Unused(risk, 0) \ done ELSE {})
          /\ UNCHANGED <<rmsCase, mailed>>
     ELSE /\ plan' = [status |-> PlanStatusOf(risk), risk |-> risk]
          /\ action' = [key \in ActionKeys |->
                          IF key \in done THEN "COMPLETED"
                          ELSE Cancelled(Upserted(risk, next), keys)[key]]
          /\ rmsCase' = IF risk = "critical" THEN Escalated ELSE rmsCase
          /\ mailed' = (mailed \/ Mails(risk))

\* A class is held.  A presence or absence that is recorded evaluates the plan; one
\* that follows from the timetable alone waits for the autopilot.
HoldClass(present) ==
  /\ Len(classes) < MaxClasses
  /\ cycle = NoCycle
  /\ classes' = Append(classes, present)
  /\ \/ EvaluatedWith(classes', action, {}) /\ credited' = CreditKept
     \/ ~present /\ UNCHANGED <<plan, action, rmsCase, mailed, credited>>
  /\ UNCHANGED <<makeup, message, attended, marking, cycle, failures>>

(***************************************************************************)
(* The autopilot                                                           *)
(***************************************************************************)

\* The cycle has written the plan and the actions it keeps, which stay locked; the
\* cancellations are written when it commits.  The student is among those of the batch.
BeginCycle ==
  /\ cycle = NoCycle
  /\ cycle' = [risk |-> RiskLevel(classes), makeup |-> Recommended,
               cancels |-> Unused(RiskLevel(classes),
                                  IF RiskLevel(classes) = NoRisk THEN 0 ELSE Recommended)]
  /\ UNCHANGED <<classes, makeup, message, attended, marking, plan, action, rmsCase, mailed,
                 failures, credited>>

\* The closing of a plan names no action that is kept.
CommitCycle ==
  /\ cycle # NoCycle
  /\ IF cycle.risk = NoRisk
     THEN /\ plan' = IF PlanIsActive THEN [plan EXCEPT !.status = "RECOVERED"] ELSE plan
          /\ action' = Cancelled(action, cycle.cancels)
          /\ UNCHANGED <<rmsCase, mailed, credited>>
     ELSE /\ plan' = [status |-> PlanStatusOf(cycle.risk), risk |-> cycle.risk]
          /\ action' = Cancelled(Upserted(cycle.risk, cycle.makeup), cycle.cancels)
          /\ rmsCase' = IF cycle.risk = "critical" THEN Escalated ELSE rmsCase
          /\ mailed' = (mailed \/ Mails(cycle.risk))
          /\ credited' = CreditKept
  /\ cycle' = NoCycle
  /\ UNCHANGED <<classes, makeup, message, attended, marking, failures>>

\* A cycle that fails is rolled back, with the log of the mails it sent.
FailCycle ==
  /\ cycle # NoCycle
  /\ failures < MaxFailures
  /\ failures' = failures + 1
  /\ cycle' = NoCycle
  /\ UNCHANGED <<classes, makeup, message, attended, marking, plan, action, rmsCase, mailed,
                 credited>>

MailDayEnds ==
  /\ mailed
  /\ mailed' = FALSE
  /\ UNCHANGED <<classes, makeup, message, attended, marking, plan, action, rmsCase, cycle,
                 failures, credited>>

(***************************************************************************)
(* What the student does about an action                                   *)
(***************************************************************************)

\* Rows the cycle has written are locked until it commits.
Unlocked(key) == cycle = NoCycle \/ key \in cycle.cancels

Answerable(key) ==
  /\ KeyType(key) \in StudentFacing
  /\ action[key] \notin {"none", "CANCELLED"}
  /\ Unlocked(key)

AcknowledgeAction(key) ==
  /\ Answerable(key)
  /\ action' = [action EXCEPT ![key] = "ACKNOWLEDGED"]
  /\ credited' = credited \ {key[2]}
  /\ UNCHANGED <<classes, makeup, message, attended, marking, plan, rmsCase, mailed, cycle,
                 failures>>

CompleteAction(key) ==
  /\ Answerable(key)
  /\ action' = [action EXCEPT ![key] = "COMPLETED"]
  /\ UNCHANGED <<classes, makeup, message, attended, marking, plan, rmsCase, mailed, cycle,
                 failures, credited>>

(***************************************************************************)
(* Remedial classes                                                        *)
(***************************************************************************)

OnlyMakeUp == <<classes, plan, action, rmsCase, mailed, cycle, failures, credited>>

\* Scheduled at least an hour ahead, with a code of its own.
CreateMakeUp(m) ==
  /\ makeup[m].phase = "none"
  /\ makeup' = [makeup EXCEPT ![m] = [phase |-> "upcoming", active |-> TRUE, code |-> 1]]
  /\ UNCHANGED <<message, attended, marking, OnlyMakeUp>>

\* Until the attendance window has ended; messages keep the code they were sent with.
RegenerateCode(m) ==
  /\ makeup[m].active
  /\ makeup[m].phase \in {"upcoming", "open"}
  /\ makeup[m].code < MaxCodes
  /\ makeup' = [makeup EXCEPT ![m].code = @ + 1]
  /\ UNCHANGED <<message, attended, marking, OnlyMakeUp>>

SendCode(m) ==
  /\ makeup[m].active
  /\ message' = [message EXCEPT ![m] = makeup[m].code]
  /\ UNCHANGED <<makeup, attended, marking, OnlyMakeUp>>

\* Within half an hour of scheduling, which is before the class starts.  The slot of
\* the plan is left to the next evaluation.
CancelMakeUp(m) ==
  /\ makeup[m].active
  /\ makeup[m].phase = "upcoming"
  /\ makeup' = [makeup EXCEPT ![m].active = FALSE]
  /\ message' = [message EXCEPT ![m] = 0]
  /\ UNCHANGED <<attended, marking, OnlyMakeUp>>

PhaseAfter(phase) ==
  CASE phase = "upcoming" -> "open" [] phase = "open" -> "over" [] OTHER -> "past"

TimePasses(m) ==
  /\ makeup[m].phase \in {"upcoming", "open", "over"}
  /\ makeup' = [makeup EXCEPT ![m].phase = PhaseAfter(@)]
  /\ UNCHANGED <<message, attended, marking, OnlyMakeUp>>

CodeAccepted(m) == makeup[m].active /\ makeup[m].phase = "open"

\* The student types the code of the message; the face is verified next.
BeginMark(m) ==
  /\ CodeAccepted(m)
  /\ message[m] = makeup[m].code
  /\ m \notin attended
  /\ marking[m] < MaxMarks
  /\ marking' = [marking EXCEPT ![m] = @ + 1]
  /\ UNCHANGED <<makeup, message, attended, OnlyMakeUp>>

\* Mutant: only a slot that is still open is completed.
SlotsOf_Open(m) ==
  IF PlanIsActive /\ action[Slot(m)] \in {"PENDING", "ACKNOWLEDGED"} THEN {Slot(m)} ELSE {}

\* The slots complete_remedial_recovery_action completes, cancelled ones too.
SlotsOf(m) == IF PlanIsActive /\ action[Slot(m)] # "none" THEN {Slot(m)} ELSE {}

\* The row, the slot and the plan are one transaction.
Marks(m) ==
  /\ cycle = NoCycle
  /\ attended' = attended \cup {m}
  /\ EvaluatedWith(classes, [key \in ActionKeys |->
                               IF key \in SlotsOf(m) THEN "COMPLETED" ELSE action[key]],
                   SlotsOf(m))
  /\ credited' = CreditKept \cup (IF PlanIsActive /\ action[Slot(m)] # "none" THEN {m} ELSE {})

\* The class is not looked at again: it may be cancelled, over or have another code.
FinishMark(m) ==
  /\ marking[m] > 0
  /\ marking' = [marking EXCEPT ![m] = @ - 1]
  /\ \/ m \notin attended /\ Marks(m)
     \/ UNCHANGED <<attended, plan, action, rmsCase, mailed, credited>>
  /\ UNCHANGED <<classes, makeup, message, cycle, failures>>

\* An administrator marks without a face.
MarkForStudent(m) ==
  /\ CodeAccepted(m)
  /\ m \notin attended
  /\ Marks(m)
  /\ UNCHANGED <<classes, makeup, message, marking, cycle, failures>>

(***************************************************************************)
(* Staff and the RMS case                                                  *)
(***************************************************************************)

CaseTransitions ==
  {<<"NEW", "TRIAGE">>, <<"TRIAGE", "ASSIGNED">>, <<"ASSIGNED", "APPROVED">>,
   <<"ASSIGNED", "REJECTED">>, <<"APPROVED", "CLOSED">>, <<"REJECTED", "CLOSED">>,
   <<"CLOSED", "NEW">>, <<"APPROVED", "NEW">>, <<"REJECTED", "NEW">>}

StaffMovesCase ==
  /\ cycle = NoCycle
  /\ \E status \in CaseStatuses :
       /\ <<rmsCase, status>> \in CaseTransitions
       /\ rmsCase' = status
  /\ UNCHANGED <<classes, makeup, message, attended, marking, plan, action, mailed, cycle,
                 failures, credited>>

RecoveryNext ==
  \/ \E present \in BOOLEAN : HoldClass(present)
  \/ BeginCycle \/ CommitCycle \/ FailCycle \/ MailDayEnds
  \/ \E key \in ActionKeys : AcknowledgeAction(key) \/ CompleteAction(key)
  \/ \E m \in MakeUps :
       \/ CreateMakeUp(m) \/ RegenerateCode(m) \/ SendCode(m) \/ CancelMakeUp(m)
       \/ TimePasses(m) \/ BeginMark(m) \/ FinishMark(m) \/ MarkForStudent(m)
  \/ StaffMovesCase

\* The autopilot thread wakes up for ever, and a cycle ends.
AutopilotRuns == BeginCycle \/ CommitCycle

RecoverySpec == RecoveryInit /\ [][RecoveryNext]_recoveryVars /\ WF_recoveryVars(AutopilotRuns)

\* A remedial class the student attended under a plan that offered it stays completed in
\* that plan, whichever evaluation comes after and even if one had cancelled the slot
\* before, unless the student reopens it (mark_remedial_attendance).
AttendedSlotStaysDone == \A m \in credited : action[Slot(m)] = "COMPLETED"

\* A student at critical risk has an open case.
Watched == RiskLevel(classes) = "critical" => rmsCase \in OpenCases
=============================================================================
