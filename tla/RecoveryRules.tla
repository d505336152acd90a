--------------------------- MODULE RecoveryRules ---------------------------
(***************************************************************************)
(* The pure part of app/attendance_recovery.py: how the classes of one     *)
(* student in one course become a risk level, and what a risk level asks   *)
(* of a recovery plan.                                                     *)
(***************************************************************************)
EXTENDS Naturals, Sequences, FiniteSets

CONSTANTS
  WatchPercent, HighPercent, CriticalPercent,     \* attendance thresholds
  WatchAbsences, HighAbsences, CriticalAbsences,  \* absences in a row
  MinDelivered                                    \* classes before a percentage counts

\* The getters of the settings clamp each threshold to its neighbour.
ASSUME RecoveryAssumption ==
  /\ {WatchPercent, HighPercent, CriticalPercent} \subseteq 1..100
  /\ CriticalPercent <= HighPercent
  /\ HighPercent <= WatchPercent
  /\ {WatchAbsences, HighAbsences, CriticalAbsences, MinDelivered} \subseteq Nat \ {0}
  /\ WatchAbsences <= HighAbsences
  /\ HighAbsences <= CriticalAbsences

Risks == {"watch", "high", "critical"}
NoRisk == "none"

Credited(status) == status \in {"verified", "approved"}

\* What a submission counts as elsewhere: a pending one is a presence there, and is
\* not one for recovery.
SubmissionAttendance(status) ==
  CASE status \in {"verified", "approved", "pending"} -> "present"
    [] status = "rejected" -> "absent"
    [] OTHER -> "none"

\* A delivered class of a day with one slot: the submission decides, and without one
\* the day's record.
CountsPresent(submission, recordStatus) ==
  IF submission # "none" THEN Credited(submission) ELSE recordStatus = "present"

\* classes: the delivered classes in the order of their days, TRUE for a presence.
PresentCount(classes) == Cardinality({i \in DOMAIN classes : classes[i]})

\* The class after which every one was missed.
Streak(classes) ==
  Cardinality({i \in DOMAIN classes : \A j \in i..Len(classes) : ~classes[j]})

\* The percentage is rounded to two decimals, which moves no whole threshold for
\* fewer than a thousand classes.
RiskLevel(classes) ==
  LET delivered == Len(classes)
      AtMost(percent) == 100 * PresentCount(classes) <= percent * delivered
      Below(percent) == 100 * PresentCount(classes) < percent * delivered
      absences == Streak(classes)
  IN CASE delivered = 0 -> NoRisk
       [] delivered < MinDelivered /\ absences < WatchAbsences -> NoRisk
       [] AtMost(CriticalPercent) \/ absences >= CriticalAbsences -> "critical"
       [] AtMost(HighPercent) \/ absences >= HighAbsences -> "high"
       [] Below(WatchPercent) \/ absences >= WatchAbsences -> "watch"
       [] OTHER -> NoRisk

ActionTypes == {"FACULTY_NUDGE", "REMEDIAL_SLOT", "OFFICE_HOUR_INVITE",
                "CATCH_UP_TASK", "PARENT_ALERT"}

\* The types of action an evaluation keeps or adds; every other one is cancelled.
RequiredActions(risk, makeupKnown, parentAllowed) ==
  {"FACULTY_NUDGE"}
    \cup (IF makeupKnown THEN {"REMEDIAL_SLOT"} ELSE {})
    \cup (IF risk \in {"high", "critical"}
            THEN {"OFFICE_HOUR_INVITE", "CATCH_UP_TASK"} ELSE {})
    \cup (IF risk = "critical" /\ parentAllowed THEN {"PARENT_ALERT"} ELSE {})

DefaultStatus(type) == IF type \in {"FACULTY_NUDGE", "PARENT_ALERT"} THEN "SENT" ELSE "PENDING"

StudentFacing == {"REMEDIAL_SLOT", "OFFICE_HOUR_INVITE", "CATCH_UP_TASK"}
=============================================================================
