-------------------------- MODULE ClassAttendance --------------------------
(***************************************************************************)
(* The attendance of one student in one class of a course, on its day:     *)
(* the session and its code, attempt tokens, the face check, the           *)
(* submission, the ledger of events with the record computed from it, the  *)
(* student's rectification request, staff overrides and corrections, and   *)
(* the recovery plan every one of them re-evaluates.                       *)
(* (app/routers/attendance.py, app/attendance_ledger.py and the attendance *)
(* overrides of app/routers/admin.py.)                                     *)
(*                                                                         *)
(* A handler is one database transaction: it reads, and then takes the     *)
(* steps of job.todo, which are cut where it may have to wait.  A write    *)
(* locks its row until the commit, where it becomes visible; another       *)
(* transaction that writes the row waits, and then writes what it had      *)
(* decided before.  The ORM sends a column only when its value differs     *)
(* from the one that was read (Put).                                       *)
(***************************************************************************)
EXTENDS RecoveryRules

CONSTANTS
  Workers,       \* threads of the process
  MaxTokens,     \* ATTENDANCE_ATTEMPT_MAX_TOKENS_PER_CLASS
  MaxAttempts,   \* ATTENDANCE_ATTEMPT_MAX_SUBMISSIONS
  PriorClasses,  \* the course's earlier classes: TRUE where the student was present
  MaxStarts      \* bound: handlers that begin, apart from the autopilot

ASSUME AttendanceAssumption ==
  /\ IsFiniteSet(Workers) /\ Workers # {}
  /\ {MaxTokens, MaxAttempts} \subseteq Nat \ {0}
  /\ MaxStarts \in Nat
  /\ PriorClasses \in Seq(BOOLEAN)

VARIABLES
  session,     \* the attendance session of the class
  token,       \* attendance_attempt_tokens
  submission,  \* status of the row of attendance_submissions
  events,      \* attendance_events of the day
  record,      \* row of attendance_records
  request,     \* status of the rectification request
  correction,  \* status of the attendance correction
  plans,       \* the active recovery plans: their risk
  newest,      \* the plan updated last
  job,         \* what each thread does
  clock,       \* events appended, those of aborted transactions too
  starts,
  faces,       \* face checks answered with each token
  raced,       \* tokens two attempts have counted at once
  overlapped   \* the record was last written from an outdated reading

tables == <<token, submission, events, record, request, correction, plans, newest>>
ghosts == <<faces, raced, overlapped>>
vars == <<session, tables, job, clock, starts, ghosts>>

\* Attempt tokens in the order of issue, one more than could be issued if each thread
\* counted before the others insert.
Tokens == 1..MaxTokens + Cardinality(Workers)
NoToken == 0

Attendance == {"present", "absent"}
SubmissionStatuses == {"pending", "verified", "approved", "rejected"}
RequestStatuses == {"none", "pending", "approved", "rejected"}
CorrectionStatuses == {"none", "pending", "approved", "rejected", "applied"}

\* by: the override of a correction, or anything else.
Event == [at : 1..MaxStarts + 2, status : Attendance, by : {"correction", "other"}]
Record == [status : Attendance, from : 1..MaxStarts + 2]
NoEvent == [at |-> 0, status |-> "none", by |-> "other"]
NoRecord == [status |-> "none", from |-> 0]
Token == [issued : BOOLEAN, consumed : BOOLEAN, attempts : 0..MaxAttempts]
NoTokenRow == [issued |-> FALSE, consumed |-> FALSE, attempts |-> 0]

\* No transaction creates a plan where it sees one, so there are never more than threads.
PlanIds == 1..Cardinality(Workers)

Kinds == {"idle", "validate", "mark", "audit", "request", "review", "batch", "bulk",
          "override", "correct", "recompute", "autopilot"}
Staff == {"review", "batch", "bulk", "override", "correct"}
Steps == {"issue", "count", "face", "read", "submission", "request", "correction",
          "append", "record", "commit"}
Rows == {"token", "submission", "request", "correction", "record"}

\* seen*: what the transaction read; put*: what it will write.
Job == [kind : Kinds, todo : Seq(Steps), wrote : SUBSET Rows,
        token : Tokens \cup {NoToken}, seenAttempts : 0..MaxAttempts, faced : BOOLEAN,
        seenSubmission : SubmissionStatuses \cup {"none"},
        putSubmission : SubmissionStatuses \cup {"none"},
        seenRequest : RequestStatuses, putRequest : RequestStatuses,
        putCorrection : CorrectionStatuses,
        status : Attendance \cup {"none"}, event : Event \cup {NoEvent},
        latest : Event \cup {NoEvent}, seenRecord : Record \cup {NoRecord},
        plan : PlanIds \cup {0}, seenRisk : Risks \cup {NoRisk},
        putRisk : Risks \cup {NoRisk}, stale : BOOLEAN]

IdleJob ==
  [kind |-> "idle", todo |-> <<>>, wrote |-> {}, token |-> NoToken, seenAttempts |-> 0,
   faced |-> FALSE, seenSubmission |-> "none", putSubmission |-> "none",
   seenRequest |-> "none", putRequest |-> "none", putCorrection |-> "none",
   status |-> "none", event |-> NoEvent, latest |-> NoEvent, seenRecord |-> NoRecord,
   plan |-> 0, seenRisk |-> NoRisk, putRisk |-> NoRisk, stale |-> FALSE]

AttendanceTypeOK ==
  /\ session \in {"none", "open", "over"}
  /\ overlapped \in BOOLEAN
  /\ token \in [Tokens -> Token]
  /\ submission \in SubmissionStatuses \cup {"none"}
  /\ events \subseteq Event
  /\ record \in Record \cup {NoRecord}
  /\ request \in RequestStatuses
  /\ correction \in CorrectionStatuses
  /\ plans \in [PlanIds -> Risks \cup {NoRisk}]
  /\ newest \in PlanIds
  /\ job \in [Workers -> Job]
  /\ clock \in 0..MaxStarts + 2
  /\ starts \in 0..MaxStarts
  /\ faces \in [Tokens -> Nat]
  /\ raced \subseteq Tokens

\* What has happened before: nothing; a validated code; the submission of an earlier
\* release, no code of this commit writes a pending one; a refused mark, an absence and
\* the student's request about it; a correction asked for; two transactions that
\* overlapped and left the record behind the ledger.
Pasts == {"nothing", "code", "old", "refused", "correction", "behind"}

Absence == [at |-> 1, status |-> "absent", by |-> "other"]
Presence == [at |-> 2, status |-> "present", by |-> "other"]

AttendanceInit ==
  /\ \E past \in Pasts :
       /\ session = IF past \in {"code", "old", "refused"} THEN "open" ELSE "none"
       /\ token = [t \in Tokens |->
                     [NoTokenRow EXCEPT !.issued = session = "open" /\ t = 1]]
       /\ submission = CASE past = "old" -> "pending" [] past = "refused" -> "rejected"
                         [] OTHER -> "none"
       /\ events = CASE past = "refused" -> {Absence}
                     [] past = "behind" -> {Absence, Presence} [] OTHER -> {}
       /\ record = IF events # {} THEN [status |-> "absent", from |-> 1] ELSE NoRecord
       /\ overlapped = (past = "behind")
       /\ clock = Cardinality(events)
       /\ request = IF past = "refused" THEN "pending" ELSE "none"
       /\ correction = IF past = "correction" THEN "pending" ELSE "none"
  /\ plans = [p \in PlanIds |-> NoRisk]
  /\ newest = 1
  /\ job = [w \in Workers |-> IdleJob]
  /\ starts = 0
  /\ faces = [t \in Tokens |-> 0]
  /\ raced = {}

(***************************************************************************)
(* Transactions                                                            *)
(***************************************************************************)

Free(w) == job[w].kind = "idle"

At(w, step) == job[w].todo # <<>> /\ Head(job[w].todo) = step

\* Mutant: an UPDATE of every column.
Put_Every(new, seen, now) == new

\* What a column holds after an UPDATE of a value that was read.
Put(new, seen, now) == IF new = seen THEN now ELSE new

\* The row the next step of w writes.
Target(w) ==
  IF job[w].todo = <<>> THEN "nothing"
  ELSE IF Head(job[w].todo) = "count" THEN "token" ELSE Head(job[w].todo)

SameRow(w, v) == Target(w) = "token" => job[w].token = job[v].token

WaitsFor(w, v) == w # v /\ Target(w) \in job[v].wrote /\ SameRow(w, v)

Begins(w, kind) == Free(w) /\ starts < MaxStarts /\ kind \in Kinds /\ starts' = starts + 1

\* w goes on to its next step with the fields of new.
Goes(w, new) == job' = [job EXCEPT ![w] = [new EXCEPT !.todo = Tail(job[w].todo)]]

Writes(w, row, new) ==
  /\ \A v \in Workers : ~WaitsFor(w, v)
  /\ Goes(w, [new EXCEPT !.wrote = @ \cup {row}])

Rollback(w) ==
  /\ job' = [job EXCEPT ![w] = IdleJob]
  /\ UNCHANGED <<session, tables, clock, starts, ghosts>>

\* An insert meets a row committed since the handler read that there is none.
UniqueViolation(w) ==
  /\ \A v \in Workers : ~WaitsFor(w, v)
  /\ \/ At(w, "submission") /\ job[w].seenSubmission = "none" /\ submission # "none"
     \/ At(w, "request") /\ job[w].seenRequest = "none" /\ request # "none"
     \/ At(w, "record") /\ job[w].seenRecord = NoRecord /\ record # NoRecord
  /\ Rollback(w)

DeadlockAbort(w) ==
  /\ \E v \in Workers : WaitsFor(w, v) /\ WaitsFor(v, w)
  /\ Rollback(w)

\* A crash, or an exception on the way, of a required mirror write too.  An aborted
\* transaction leaves nothing behind, so it may as well stop at its last step.  The autopilot logs what goes
\* wrong and comes back.
Fail(w) ==
  /\ At(w, "commit")
  /\ job[w].kind # "autopilot"
  /\ Rollback(w)

(***************************************************************************)
(* The class window and the session                                        *)
(***************************************************************************)

\* Opening twice rotates the code; parallel inserts are settled by a savepoint.
OpenSession ==
  /\ session = "none"
  /\ session' = "open"
  /\ UNCHANGED <<tables, job, clock, starts, ghosts>>

\* The session and its tokens end with the window in which attendance is marked; a
\* token that expires before is one the student does not use any more.
CloseWindow ==
  /\ session = "open"
  /\ session' = "over"
  /\ UNCHANGED <<tables, job, clock, starts, ghosts>>

IssuedTokens == {t \in Tokens : token[t].issued}

\* The tokens of the class that _issue_attendance_attempt_token counts.
CountedTokens == IssuedTokens

\* The right code; the tokens are counted before one is inserted.
ValidateCode(w) ==
  /\ Begins(w, "validate")
  /\ session = "open"
  /\ ~Credited(submission)
  /\ Cardinality(CountedTokens) < MaxTokens
  /\ job' = [job EXCEPT ![w] = [IdleJob EXCEPT !.kind = "validate", !.todo = <<"issue">>]]
  /\ UNCHANGED <<session, tables, clock, ghosts>>

IssueToken(w) ==
  LET t == Cardinality(IssuedTokens) + 1 IN
  /\ At(w, "issue")
  /\ token' = [token EXCEPT ![t].issued = TRUE]
  /\ job' = [job EXCEPT ![w] = IdleJob]
  /\ UNCHANGED <<session, submission, events, record, request, correction, plans,
                 newest, clock, starts, ghosts>>

(***************************************************************************)
(* Marking attendance                                                      *)
(***************************************************************************)

Count == <<"append", "record", "commit">>

\* A missing, unknown, expired or exhausted token, or a refused browser.  A handler
\* that saw no submission looks again before it inserts one.
RejectAtGate(w) ==
  /\ Begins(w, "audit")
  /\ session # "over"
  /\ ~Credited(submission)
  /\ job' = [job EXCEPT ![w] =
       [IdleJob EXCEPT !.kind = "audit", !.putSubmission = "rejected",
          !.seenSubmission = submission,
          !.todo = IF submission = "none" THEN <<"read", "submission", "commit">>
                   ELSE <<"submission", "commit">>]]
  /\ UNCHANGED <<session, tables, clock, ghosts>>

Usable(t) ==
  token[t].issued /\ ~token[t].consumed /\ token[t].attempts < MaxAttempts

MarkAttendance(w) ==
  /\ Begins(w, "mark")
  /\ session = "open"
  /\ ~Credited(submission)
  /\ \E t \in Tokens :
       /\ Usable(t)
       /\ job' = [job EXCEPT ![w] =
            [IdleJob EXCEPT !.kind = "mark", !.token = t, !.seenAttempts = token[t].attempts,
               !.seenSubmission = submission, !.todo = <<"count", "face">>]]
  /\ UNCHANGED <<session, tables, clock, ghosts>>

CountAttempt(w) ==
  /\ At(w, "count")
  /\ Writes(w, "token", job[w])
  /\ UNCHANGED <<session, tables, clock, starts, ghosts>>

\* The location is refused and the refusal is recorded, with the attempt.
RejectLocation(w) ==
  /\ At(w, "face")
  /\ job' = [job EXCEPT ![w].putSubmission = "rejected",
                        ![w].todo = IF job[w].seenSubmission = "none"
                                    THEN <<"read", "submission", "commit">>
                                    ELSE <<"submission", "commit">>]
  /\ UNCHANGED <<session, tables, clock, starts, ghosts>>

\* The face service is down, or there is no usable photo: the attempt is not counted.
FaceUnavailable(w) ==
  /\ At(w, "face")
  /\ Rollback(w)

\* Mutant: the submission is committed before its event.
VerifyFace_CommitFirst(w) ==
  /\ At(w, "face")
  /\ job' = [job EXCEPT ![w].putSubmission = "verified", ![w].faced = TRUE,
                        ![w].status = "present",
                        ![w].todo = <<"submission", "commit">> \o Count]
  /\ UNCHANGED <<session, tables, clock, starts, ghosts>>

VerifyFace(w) ==
  /\ At(w, "face")
  /\ \/ job' = [job EXCEPT ![w].putSubmission = "rejected", ![w].faced = TRUE,
                           ![w].todo = <<"submission", "commit">>]
     \/ job' = [job EXCEPT ![w].putSubmission = "verified", ![w].faced = TRUE,
                           ![w].status = "present",
                           ![w].todo = <<"submission">> \o Count]
  /\ UNCHANGED <<session, tables, clock, starts, ghosts>>

(***************************************************************************)
(* Steps                                                                   *)
(***************************************************************************)

ReadSubmission(w) ==
  /\ At(w, "read")
  /\ Goes(w, [job[w] EXCEPT !.seenSubmission = submission])
  /\ UNCHANGED <<session, tables, clock, starts, ghosts>>

WriteSubmission(w) ==
  /\ At(w, "submission")
  /\ job[w].seenSubmission = "none" => submission = "none"
  /\ Writes(w, "submission", job[w])
  /\ UNCHANGED <<session, tables, clock, starts, ghosts>>

WriteRequest(w) ==
  /\ At(w, "request")
  /\ job[w].seenRequest = "none" => request = "none"
  /\ Writes(w, "request", job[w])
  /\ UNCHANGED <<session, tables, clock, starts, ghosts>>

WriteCorrection(w) ==
  /\ At(w, "correction")
  /\ Writes(w, "correction", job[w])
  /\ UNCHANGED <<session, tables, clock, starts, ghosts>>

\* The submission as the transaction sees it.
OwnSubmission(w) ==
  IF "submission" \in job[w].wrote
  THEN Put(job[w].putSubmission, job[w].seenSubmission, submission) ELSE submission

OwnEvents(w) == events \cup ({job[w].event} \ {NoEvent})

\* Mutant: the order of the events is reversed.
LatestEvent_Earliest(day) == CHOOSE e \in day : \A f \in day : e.at <= f.at

LatestEvent(day) == CHOOSE e \in day : \A f \in day : f.at <= e.at

\* The rows recompute_attendance_record reads before it writes the record.
ReadsLedger(new, day) ==
  [new EXCEPT !.latest = LatestEvent(day), !.seenRecord = record, !.stale = FALSE]

\* The new event is stamped, inserted and read again with nothing to wait for.  An
\* override takes its status from the day's submissions.
AppendEvent(w) ==
  LET status == IF job[w].kind \in {"override", "correct"}
                THEN SubmissionAttendance(OwnSubmission(w)) ELSE job[w].status
      event == [at |-> clock + 1, status |-> status,
                by |-> IF job[w].kind = "correct" THEN "correction" ELSE "other"]
  IN /\ At(w, "append")
     /\ clock' = clock + 1
     /\ Goes(w, ReadsLedger([job[w] EXCEPT !.event = event], events \cup {event}))
     /\ UNCHANGED <<session, tables, starts, ghosts>>

ComputedRecord(w) ==
  [status |-> Put(job[w].latest.status, job[w].seenRecord.status, record.status),
   from |-> Put(job[w].latest.at, job[w].seenRecord.from, record.from)]

OwnRecord(w) == IF "record" \in job[w].wrote THEN ComputedRecord(w) ELSE record

DueRisk(sub, rec) == RiskLevel(PriorClasses \o <<CountsPresent(sub, rec.status)>>)

ActivePlans == {p \in PlanIds : plans[p] # NoRisk}

\* _active_plan takes the plan updated last.
ActivePlan ==
  IF ActivePlans = {} THEN 0
  ELSE IF newest \in ActivePlans THEN newest
  ELSE CHOOSE p \in ActivePlans : TRUE

ActiveRisk == IF ActivePlan = 0 THEN NoRisk ELSE plans[ActivePlan]

\* Nothing tells two active plans of a course apart: two transactions may create one each.
UnusedPlan(w) ==
  CHOOSE p \in PlanIds : plans[p] = NoRisk /\ \A v \in Workers \ {w} : job[v].plan # p

\* evaluate_attendance_recovery.
Evaluated(w, new, risk) ==
  IF ActivePlan = 0 /\ risk = NoRisk THEN new
  ELSE [new EXCEPT !.plan = IF ActivePlan = 0 THEN UnusedPlan(w) ELSE ActivePlan,
                   !.seenRisk = ActiveRisk, !.putRisk = risk]

\* The plan is evaluated with the record locked, on the rows as the transaction sees them.
WriteRecord(w) ==
  /\ At(w, "record")
  /\ job[w].seenRecord = NoRecord => record = NoRecord
  /\ Writes(w, "record",
            IF job[w].kind = "recompute" THEN job[w]
            ELSE Evaluated(w, job[w], DueRisk(OwnSubmission(w), ComputedRecord(w))))
  /\ UNCHANGED <<session, tables, clock, starts, ghosts>>

PlanStatus(risk) ==
  CASE risk = NoRisk -> "RECOVERED" [] risk = "critical" -> "ESCALATED" [] OTHER -> "ACTIVE"

\* Status and risk are two columns: a plan closed meanwhile stays closed when the
\* evaluation leaves its status as it was read.
PlanAfter(w) ==
  LET now == plans[job[w].plan]
  IN IF now = NoRisk /\ PlanStatus(job[w].putRisk) = PlanStatus(job[w].seenRisk) THEN NoRisk
     ELSE Put(job[w].putRisk, job[w].seenRisk, now)

(***************************************************************************)
(* Commit                                                                  *)
(***************************************************************************)

Wrote(w, row) == row \in job[w].wrote

\* The handlers of a correction commit the override, and then its outcome.
NextTransaction(w) ==
  IF Tail(job[w].todo) = <<>> THEN IdleJob
  ELSE [IdleJob EXCEPT !.kind = job[w].kind, !.todo = Tail(job[w].todo),
                       !.seenSubmission = submission,
                       !.putSubmission = job[w].putSubmission,
                       !.putCorrection = "applied"]

\* Mutant: a refused face is not counted.
TokenAfter_Verified(w) ==
  IF job[w].putSubmission = "verified"
  THEN [token[job[w].token] EXCEPT !.attempts = job[w].seenAttempts + 1, !.consumed = TRUE]
  ELSE token[job[w].token]

\* The number of attempts was read before the row was locked.
TokenAfter(w) ==
  [token[job[w].token] EXCEPT !.attempts = job[w].seenAttempts + 1,
                              !.consumed = @ \/ job[w].putSubmission = "verified"]

Commit(w) ==
  /\ At(w, "commit")
  /\ token' = IF Wrote(w, "token") THEN [token EXCEPT ![job[w].token] = TokenAfter(w)] ELSE token
  /\ submission' = OwnSubmission(w)
  /\ events' = OwnEvents(w)
  /\ record' = OwnRecord(w)
  /\ request' = IF ~Wrote(w, "request") THEN request
                ELSE Put(job[w].putRequest, job[w].seenRequest, request)
  /\ correction' = IF Wrote(w, "correction") /\ job[w].putCorrection # "none"
                   THEN job[w].putCorrection ELSE correction
  /\ plans' = IF job[w].plan = 0 THEN plans ELSE [plans EXCEPT ![job[w].plan] = PlanAfter(w)]
  /\ newest' = IF job[w].plan = 0 THEN newest ELSE job[w].plan
  /\ job' = [v \in Workers |->
               IF v = w THEN NextTransaction(w)
               ELSE [job[v] EXCEPT !.stale =
                                @ \/ (Wrote(w, "record") /\ job[v].latest # NoEvent)]]
  /\ faces' = IF job[w].faced THEN [faces EXCEPT ![job[w].token] = @ + 1] ELSE faces
  /\ raced' = IF Wrote(w, "token") /\ token[job[w].token].attempts # job[w].seenAttempts
              THEN raced \cup {job[w].token} ELSE raced
  /\ overlapped' = IF Wrote(w, "record") THEN job[w].stale ELSE overlapped
  /\ UNCHANGED <<session, clock, starts>>

(***************************************************************************)
(* Requests of the student and decisions of the staff                      *)
(***************************************************************************)

StaffBegins(w, new) ==
  /\ Begins(w, new.kind)
  /\ job' = [job EXCEPT ![w] = new]
  /\ UNCHANGED <<session, tables, clock, ghosts>>

RequestRectification(w) ==
  /\ ~Credited(submission) /\ record.status # "present"
  /\ request # "approved"
  /\ StaffBegins(w, [IdleJob EXCEPT !.kind = "request", !.seenRequest = request,
                       !.putRequest = "pending", !.todo = <<"request", "commit">>])

\* The plan is evaluated before the submission is approved.
ApproveRectification(w) ==
  /\ request = "pending"
  /\ StaffBegins(w, [IdleJob EXCEPT !.kind = "review", !.seenRequest = request,
                       !.putRequest = "approved", !.status = "present",
                       !.putSubmission = "approved",
                       !.todo = <<"request", "append", "record", "read", "submission",
                                  "commit">>])

RejectRectification(w) ==
  /\ request = "pending"
  /\ StaffBegins(w, [IdleJob EXCEPT !.kind = "review", !.seenRequest = request,
                       !.putRequest = "rejected", !.todo = <<"request", "commit">>])

ReviewSubmission(w) ==
  /\ submission = "pending"
  /\ \/ StaffBegins(w, [IdleJob EXCEPT !.kind = "batch", !.seenSubmission = submission,
                          !.putSubmission = "approved", !.status = "present",
                          !.todo = <<"submission">> \o Count])
     \/ StaffBegins(w, [IdleJob EXCEPT !.kind = "batch", !.seenSubmission = submission,
                          !.putSubmission = "rejected", !.todo = <<"submission", "commit">>])

\* The submission is left as it is.
MarkBulk(w) ==
  \E status \in Attendance :
    StaffBegins(w, [IdleJob EXCEPT !.kind = "bulk", !.status = status, !.todo = Count])

Override(status) == IF status = "present" THEN "approved" ELSE "rejected"

OverrideSteps == <<"submission">> \o Count

OverrideAttendance(w) ==
  \E status \in Attendance :
    StaffBegins(w, [IdleJob EXCEPT !.kind = "override", !.seenSubmission = submission,
                      !.putSubmission = Override(status), !.todo = OverrideSteps])

\* One correction is followed.  Setting a class to present is a change of high impact, which the faculty asks for;
\* an absence, and every change of an administrator, is applied at once.
CreateCorrection(w) ==
  /\ correction = "none"
  /\ \A v \in Workers : job[v].kind # "correct"
  /\ \/ StaffBegins(w, [IdleJob EXCEPT !.kind = "correct", !.putCorrection = "pending",
                          !.todo = <<"correction", "commit">>])
     \/ \E status \in Attendance :
          StaffBegins(w, [IdleJob EXCEPT !.kind = "correct", !.putCorrection = "approved",
                            !.putSubmission = Override(status),
                            !.todo = <<"correction", "commit">> \o OverrideSteps
                                       \o <<"correction", "commit">>])

\* The review writes the note with the override, and the outcome after its commit.
ReviewCorrection(w) ==
  /\ correction = "pending"
  /\ \/ StaffBegins(w, [IdleJob EXCEPT !.kind = "correct", !.putCorrection = "rejected",
                          !.todo = <<"correction", "commit">>])
     \/ StaffBegins(w, [IdleJob EXCEPT !.kind = "correct", !.seenSubmission = submission,
                          !.putSubmission = "approved",
                          !.todo = <<"correction">> \o OverrideSteps
                                     \o <<"correction", "commit">>])

RecomputeRecord(w) ==
  /\ events # {}
  /\ StaffBegins(w, ReadsLedger([IdleJob EXCEPT !.kind = "recompute",
                                   !.todo = <<"record", "commit">>], events))

\* Mutant: only the courses with an active plan are evaluated again.
Autopilot_ActivePlans(w) ==
  /\ Free(w)
  /\ ActivePlan # 0
  /\ \A v \in Workers : job[v].kind # "autopilot"
  /\ job' = [job EXCEPT ![w] =
       Evaluated(w, [IdleJob EXCEPT !.kind = "autopilot", !.todo = <<"commit">>],
                 DueRisk(submission, record))]
  /\ UNCHANGED <<session, tables, clock, starts, ghosts>>

\* _background_recovery_autopilot_loop evaluates every student and course again.
Autopilot(w) ==
  /\ Free(w)
  /\ \A v \in Workers : job[v].kind # "autopilot"
  /\ job' = [job EXCEPT ![w] =
       Evaluated(w, [IdleJob EXCEPT !.kind = "autopilot", !.todo = <<"commit">>],
                 DueRisk(submission, record))]
  /\ UNCHANGED <<session, tables, clock, starts, ghosts>>

(***************************************************************************)
(* The specification                                                       *)
(***************************************************************************)

Handler(w) ==
  \/ ValidateCode(w) \/ RejectAtGate(w) \/ MarkAttendance(w)
  \/ RequestRectification(w) \/ ApproveRectification(w) \/ RejectRectification(w)
  \/ ReviewSubmission(w) \/ MarkBulk(w) \/ OverrideAttendance(w)
  \/ CreateCorrection(w) \/ ReviewCorrection(w) \/ RecomputeRecord(w)

Proceed(w) ==
  \/ IssueToken(w) \/ CountAttempt(w) \/ RejectLocation(w) \/ FaceUnavailable(w)
  \/ VerifyFace(w) \/ ReadSubmission(w) \/ WriteSubmission(w) \/ WriteRequest(w)
  \/ WriteCorrection(w) \/ AppendEvent(w) \/ WriteRecord(w)
  \/ Commit(w) \/ UniqueViolation(w) \/ DeadlockAbort(w)

AttendanceNext ==
  \/ CloseWindow \/ OpenSession
  \/ \E w \in Workers : Handler(w) \/ Proceed(w) \/ Fail(w) \/ Autopilot(w)

\* A thread goes on with its transaction, and the autopilot thread sleeps for a time
\* only.
AttendanceFairness ==
  /\ \A w \in Workers : WF_vars(Proceed(w))
  /\ WF_vars(\E w \in Workers : Autopilot(w))

AttendanceSpec == AttendanceInit /\ [][AttendanceNext]_vars /\ AttendanceFairness

(***************************************************************************)
(* Properties                                                              *)
(***************************************************************************)

\* After a transaction whose reading of the day no other one outdated, the record
\* is that of the latest event: transactions that overlap may leave it behind, and
\* the next one puts it right (recompute_attendance_record).
RecordFollowsLedger ==
  ~overlapped /\ events # {} =>
    \E e \in events :
      /\ \A f \in events : f.at <= e.at
      /\ record = [status |-> e.status, from |-> e.at]

\* What is claimed was counted, whatever was aborted or crashed on the way: a verified
\* submission has used up a token and left a presence in the ledger, and a correction is
\* applied only once its event is there, though the override commits on its own
\* (mark_realtime_attendance, rms_review_attendance_correction).
CountedAsClaimed ==
  /\ submission = "verified" =>
       /\ \E t \in Tokens : token[t].consumed
       /\ \E e \in events : e.status = "present"
  /\ correction = "applied" => \E e \in events : e.by = "correction"

\* Guessing stays bounded.  The limit of tokens for a class is exceeded by no more than the
\* requests that can count them at the same time, and a token allows its number of face
\* checks, unless two attempts with it counted from the same number
\* (_issue_attendance_attempt_token, _verify_attendance_attempt_token).
AttemptsBounded ==
  /\ Cardinality(IssuedTokens) <= MaxTokens + Cardinality(Workers) - 1
  /\ \A t \in Tokens \ raced : faces[t] <= MaxAttempts

\* A mark of the student that read the row as rejected takes back no credit, though the
\* row is verified or approved while the mark is on its way.  A mark that read it as
\* pending does, and so does a recorded refusal that found no row first and the
\* credited one when it looked again (_upsert_location_rejected_submission).
CreditOnlyLostToStaff ==
  [][Credited(submission) /\ ~Credited(submission') =>
       \E w \in Workers :
         /\ At(w, "commit")
         /\ \/ job[w].kind \in Staff
            \/ job[w].seenSubmission = "pending" \/ Credited(job[w].seenSubmission)]_vars

\* Once nobody changes the class any more, the plan that counts as the active one gets
\* the risk the attendance calls for: also where a handler evaluated it too early, was
\* aborted, or no handler ran at all (run_recovery_autopilot_cycle).
PlanCatchesUp == <>[](ActiveRisk = DueRisk(submission, record))
=============================================================================
