------------------------------- MODULE Copilot -------------------------------
(***************************************************************************)
(* The campus copilot (app/routers/copilot.py) as one member of staff uses *)
(* it: a question is handled, which may schedule a remedial class, send    *)
(* its code and open a support case, and its answer is then recorded in    *)
(* the audit log, whose rows refer to an auth_users row that mirrors the   *)
(* asker's account. Each part commits on its own.                          *)
(***************************************************************************)
EXTENDS Integers

CONSTANTS
  Askers,        \* requests
  MaxQuestions,  \* bound: questions asked
  MaxFaults      \* bound: unforeseen failures
ASSUME CopilotAssumption == MaxQuestions \in Nat /\ MaxFaults \in Nat

VARIABLES
  asked,     \* questions asked so far
  asking,    \* a request's question and where its handling is
  mirror,    \* the asker has an auth_users row
  done,      \* what each question has brought about, committed
  settled,   \* cases staff have closed
  log,       \* copilot_audit_logs: what the row of a question claims
  rated,     \* rows the asker has rated
  answers,   \* what the answer to a question claimed, and whether it named a row
  mishaps    \* unforeseen failures so far

copilotVars == <<asked, asking, mirror, done, settled, log, rated, answers, mishaps>>

Questions == 1..MaxQuestions
Deeds == {"class", "codes", "case"}
Outcomes == {"completed", "blocked", "denied", "failed"}
Claim == [outcome : Outcomes, did : SUBSET Deeds]
NoClaim == [outcome |-> "none", did |-> {}]

\* unsaved: written to the session and not committed; broken: its transaction has failed.
Asking == [pc : {"idle", "plan", "review", "opening", "sending", "mirroring", "inserting", "logging"},
           n : 0..MaxQuestions, claim : Claim \cup {NoClaim}, unsaved : SUBSET (Deeds \cup {"mirror"}),
           broken : BOOLEAN]
Question(pc, n, claim) == [pc |-> pc, n |-> n, claim |-> claim, unsaved |-> {}, broken |-> FALSE]
NoQuestion == Question("idle", 0, NoClaim)

CopilotTypeOK ==
  /\ asked \in 0..MaxQuestions /\ mishaps \in 0..MaxFaults
  /\ asking \in [Askers -> Asking]
  /\ mirror \in BOOLEAN
  /\ done \in [Deeds -> SUBSET Questions]
  /\ settled \subseteq Questions /\ rated \subseteq Questions
  /\ log \in [Questions -> Claim \cup {NoClaim}]
  /\ answers \in [Questions -> [claim : Claim \cup {NoClaim}, row : BOOLEAN]]

CopilotInit ==
  /\ asked = 0 /\ mishaps = 0
  /\ asking = [w \in Askers |-> NoQuestion]
  /\ mirror = FALSE
  /\ done = [x \in Deeds |-> {}]
  /\ settled = {} /\ rated = {}
  /\ log = [n \in Questions |-> NoClaim]
  /\ answers = [n \in Questions |-> [claim |-> NoClaim, row |-> FALSE]]

\* Classes to attend in a row until 75 % are reached, and classes that may be missed before
\* attendance falls below.
ClassesNeeded(attended, delivered) ==
  LET deficit == 3 * delivered - 4 * attended IN IF deficit > 0 THEN deficit ELSE 0
SafeAbsences(attended, delivered) ==
  LET spare == (4 * attended) \div 3 - delivered
  IN  IF delivered <= 0 \/ spare < 0 THEN 0 ELSE spare

(***************************************************************************)
(* Handling a question                                                     *)
(***************************************************************************)

Put(w, q) == asking' = [asking EXCEPT ![w] = q]
Goes(w, pc) == Put(w, [asking[w] EXCEPT !.pc = pc])
\* The handler returns: the answer goes to the audit.
Returns(w, outcome, did) ==
  Put(w, [asking[w] EXCEPT !.pc = "mirroring", !.claim = [outcome |-> outcome, did |-> did]])
Did(deed, n) == done' = [done EXCEPT ![deed] = @ \cup {n}]

\* Questions about anything but plans and students are answered without writing.
AnswersFromRecords(w) ==
  \E outcome \in Outcomes \ {"failed"} :
    Put(w, Question("mirroring", asked + 1, [outcome |-> outcome, did |-> {}]))

Ask(w) ==
  /\ asking[w].pc = "idle" /\ asked < MaxQuestions
  /\ asked' = asked + 1
  /\ \/ \E pc \in {"plan", "review"} :
          Put(w, Question(pc, asked + 1, NoClaim))
     \/ AnswersFromRecords(w)
  /\ UNCHANGED <<mirror, done, settled, log, rated, answers, mishaps>>

\* The student, course or section is not found, or out of the asker's scope.
Decline(w) ==
  /\ \/ asking[w].pc = "plan" /\ Returns(w, "blocked", {})
     \/ asking[w].pc = "review" /\ \E outcome \in {"blocked", "denied"} : Returns(w, outcome, {})
  /\ UNCHANGED <<asked, mirror, done, settled, log, rated, answers, mishaps>>

\* Looks for an open case of the student's thread.
Review(w) ==
  /\ asking[w].pc = "review"
  /\ IF done["case"] \ settled = {} THEN Goes(w, "opening") ELSE Returns(w, "completed", {})
  /\ UNCHANGED <<asked, mirror, done, settled, log, rated, answers, mishaps>>

OpenCase(w) ==
  /\ asking[w].pc = "opening"
  /\ Did("case", asking[w].n)
  /\ Returns(w, "completed", {"case"})
  /\ UNCHANGED <<asked, mirror, settled, log, rated, answers, mishaps>>

\* Mutant: the class is left to the commit of the audit row.
Schedule_Flushed(w) ==
  /\ asking[w].pc = "plan"
  /\ Put(w, [asking[w] EXCEPT !.pc = "sending", !.unsaved = @ \cup {"class"}])
  /\ UNCHANGED <<asked, mirror, done, settled, log, rated, answers, mishaps>>

\* The remedial module schedules the class and commits it, or refuses the slot.
Schedule(w) ==
  /\ asking[w].pc = "plan"
  /\ \/ Did("class", asking[w].n) /\ Goes(w, "sending")
     \/ Returns(w, "blocked", {}) /\ UNCHANGED done
  /\ UNCHANGED <<asked, mirror, settled, log, rated, answers, mishaps>>

\* The code is sent to the section when the asker wants it; a refusal leaves the plan completed.
SendRemedialCode(w) ==
  /\ asking[w].pc = "sending"
  /\ \/ Did("codes", asking[w].n) /\ Returns(w, "completed", {"class", "codes"})
     \/ Returns(w, "completed", {"class"}) /\ UNCHANGED done
  /\ UNCHANGED <<asked, mirror, settled, log, rated, answers, mishaps>>

\* Any other exception: the asker is told to try again, nothing is rolled back here.
Fails(w) ==
  /\ asking[w].pc \in {"plan", "review", "opening", "sending"} /\ mishaps < MaxFaults
  /\ mishaps' = mishaps + 1
  /\ \E broken \in BOOLEAN :
       Put(w, [asking[w] EXCEPT !.pc = "mirroring", !.broken = broken,
                                !.claim = [outcome |-> "failed", did |-> {}]])
  /\ UNCHANGED <<asked, mirror, done, settled, log, rated, answers>>

(***************************************************************************)
(* Recording the answer (_persist_audit)                                   *)
(***************************************************************************)

GiveAnswer(w, row) ==
  /\ answers' = [answers EXCEPT ![asking[w].n] = [claim |-> asking[w].claim, row |-> row]]
  /\ Put(w, NoQuestion)

\* The session is rolled back and the answer given without a row.
AnswerUnlogged(w) == GiveAnswer(w, FALSE) /\ UNCHANGED <<mirror, done, log>>

LookForMirror(w) ==
  /\ asking[w].pc = "mirroring"
  /\ IF asking[w].broken THEN AnswerUnlogged(w)
     ELSE Goes(w, IF mirror THEN "logging" ELSE "inserting") /\ UNCHANGED <<mirror, done, log, answers>>
  /\ UNCHANGED <<asked, settled, rated, mishaps>>

\* The insert waits for another session's of the same row, and fails if that one committed.
InsertMirror(w) ==
  /\ asking[w].pc = "inserting"
  /\ \A v \in Askers : "mirror" \notin asking[v].unsaved
  /\ IF mirror THEN AnswerUnlogged(w)
     ELSE /\ Put(w, [asking[w] EXCEPT !.pc = "logging", !.unsaved = @ \cup {"mirror"}])
          /\ UNCHANGED <<mirror, done, log, answers>>
  /\ UNCHANGED <<asked, settled, rated, mishaps>>

\* The commit of row and session; reading the row back may still fail.
LogAnswer(w) ==
  LET q == asking[w] IN
  /\ q.pc = "logging"
  /\ mirror' = (mirror \/ "mirror" \in q.unsaved)
  /\ done' = [x \in Deeds |-> IF x \in q.unsaved THEN done[x] \cup {q.n} ELSE done[x]]
  /\ log' = [log EXCEPT ![q.n] = q.claim]
  /\ \/ GiveAnswer(w, TRUE) /\ UNCHANGED mishaps
     \/ GiveAnswer(w, FALSE) /\ mishaps < MaxFaults /\ mishaps' = mishaps + 1
  /\ UNCHANGED <<asked, settled, rated>>

AuditFails(w) ==
  /\ asking[w].pc \in {"inserting", "logging"} /\ mishaps < MaxFaults
  /\ AnswerUnlogged(w)
  /\ mishaps' = mishaps + 1
  /\ UNCHANGED <<asked, settled, rated>>

(***************************************************************************)
(* Afterwards                                                              *)
(***************************************************************************)

Rate(n) ==
  /\ log[n] # NoClaim
  /\ rated' = rated \cup {n}
  /\ UNCHANGED <<asked, asking, mirror, done, settled, log, answers, mishaps>>

CloseCase ==
  /\ \E n \in done["case"] \ settled : settled' = settled \cup {n}
  /\ UNCHANGED <<asked, asking, mirror, done, log, rated, answers, mishaps>>

CopilotNext ==
  \/ \E w \in Askers :
       \/ Ask(w) \/ Decline(w) \/ Review(w) \/ OpenCase(w) \/ Schedule(w) \/ SendRemedialCode(w) \/ Fails(w)
       \/ LookForMirror(w) \/ InsertMirror(w) \/ LogAnswer(w) \/ AuditFails(w)
  \/ \E n \in Questions : Rate(n)
  \/ CloseCase

\* What an answer claims was done, and what the audit log claims of it, is done for good,
\* whatever fails afterwards; an answer that names an audit row has one that claims the same,
\* and the row's asker has an auth_users row (copilot_query, _persist_audit,
\* _remedial_plan_response).
AnswerIsKept ==
  \A n \in Questions :
    /\ \A deed \in answers[n].claim.did \cup log[n].did : n \in done[deed]
    /\ answers[n].row => log[n] = answers[n].claim
    /\ log[n] # NoClaim => mirror
=============================================================================
