----------------------------- MODULE RmsCases -----------------------------
(***************************************************************************)
(* The support thread of a student and a faculty member about one subject, *)
(* and the RMS cases opened for it (app/routers/admin.py, messages.py).    *)
(*                                                                         *)
(* Nothing locks a case.  A request reads it, changes it and writes, when  *)
(* it commits, the columns it has changed: whatever was written in between *)
(* stays in the others.  One request at a time is held between its reading *)
(* and its commit; the ones that pass meanwhile are served at once, so that*)
(* every two of them can race.                                             *)
(***************************************************************************)
EXTENDS Naturals, FiniteSets

CONSTANT MaxThreadCases  \* bound: cases of the thread
ASSUME RmsAssumption == MaxThreadCases \in Nat \ {0}

VARIABLES
  thread,   \* what the last message says, and whether any was ever a decisive word
  threadCases, \* the rows of rms_cases, in the order they were opened
  held      \* the request that has read and not committed

rmsVars == <<thread, threadCases, held>>

ThreadCaseIds == 1..MaxThreadCases
Settled == {"APPROVED", "REJECTED", "CLOSED"}
\* The actions a message beginning with [[RMS_ACTION]] may name.
Words == {"approve", "disapprove", "schedule"}

\* assigned: the case has an assignee.  Escalation is a flag of its own that no other
\* action reads; it and the dates are left out.
CaseRow == [status : {"none", "NEW", "TRIAGE", "ASSIGNED"} \cup Settled,
            assigned : BOOLEAN]
NewCase == [status |-> "NEW", assigned |-> FALSE]
NoCase == [NewCase EXCEPT !.status = "none"]

\* case 0 is a row to insert.
Request == [case : 0..MaxThreadCases, read : CaseRow, new : CaseRow, word : Words \cup {"none"}]
NoRequest == [case |-> 0, read |-> NoCase, new |-> NoCase, word |-> "none"]

RmsTypeOK ==
  /\ thread \in [last : Words \cup {"none", "text"}, spoken : BOOLEAN]
  /\ threadCases \in [ThreadCaseIds -> CaseRow]
  /\ held \in Request

RmsInit ==
  /\ thread = [last |-> "none", spoken |-> FALSE]
  /\ threadCases = [c \in ThreadCaseIds |-> NoCase]
  /\ held = NoRequest

(***************************************************************************)
(* The life cycle of a case                                                *)
(***************************************************************************)

\* Mutant: a case may be decided before anyone is responsible for it.
Lifecycle_Unassigned ==
  {<<"NEW", "TRIAGE", "TRIAGE">>, <<"TRIAGE", "ASSIGN", "ASSIGNED">>}
    \cup {<<status, "APPROVE", "APPROVED">> : status \in {"TRIAGE", "ASSIGNED"}}
    \cup {<<status, "REJECT", "REJECTED">> : status \in {"TRIAGE", "ASSIGNED"}}
    \cup {<<status, "CLOSE", "CLOSED">> : status \in {"APPROVED", "REJECTED"}}
    \cup {<<status, "REOPEN", "NEW">> : status \in Settled}

Lifecycle ==
  {<<"NEW", "TRIAGE", "TRIAGE">>, <<"TRIAGE", "ASSIGN", "ASSIGNED">>,
   <<"ASSIGNED", "APPROVE", "APPROVED">>, <<"ASSIGNED", "REJECT", "REJECTED">>,
   <<"APPROVED", "CLOSE", "CLOSED">>, <<"REJECTED", "CLOSE", "CLOSED">>}
    \cup {<<status, "REOPEN", "NEW">> : status \in Settled}

CaseActions == {"TRIAGE", "ASSIGN", "APPROVE", "REJECT", "CLOSE", "REOPEN"}

Allowed(row, do) == \E step \in Lifecycle : step[1] = row.status /\ step[2] = do

\* A reopened case keeps its assignee.
After(row, do) ==
  [status |-> (CHOOSE step \in Lifecycle : step[1] = row.status /\ step[2] = do)[3],
   assigned |-> row.assigned \/ do = "ASSIGN"]

IfAllowed(row, do) == IF Allowed(row, do) THEN After(row, do) ELSE row

\* A word of staff takes the case as far along its life cycle as the word reaches, and
\* does nothing to a case that is decided.
Worded(row, word) ==
  LET taken == IfAllowed(IfAllowed(row, "TRIAGE"), "ASSIGN")
  IN CASE word = "approve" -> IfAllowed(taken, "APPROVE")
       [] word = "disapprove" -> IfAllowed(taken, "REJECT")
       [] OTHER -> taken

Existing == {c \in ThreadCaseIds : threadCases[c] # NoCase}
Unclosed == {c \in Existing : threadCases[c].status # "CLOSED"}
Free == ThreadCaseIds \ Existing

(***************************************************************************)
(* Transactions                                                            *)
(***************************************************************************)

Insert(row) ==
  /\ Free # {}
  /\ threadCases' = [threadCases EXCEPT
                       ![CHOOSE c \in Free : \A d \in Free : c <= d] = row]

\* The columns that the request has changed.
Merged(now, read, new) ==
  [column \in DOMAIN now |-> IF new[column] # read[column] THEN new[column] ELSE now[column]]

Write(request) ==
  /\ IF request.case = 0 THEN Insert(request.new)
     ELSE threadCases' = [threadCases EXCEPT
                            ![request.case] = Merged(@, request.read, request.new)]
  /\ IF request.word = "none" THEN UNCHANGED thread
     ELSE thread' = [last |-> request.word, spoken |-> TRUE]

\* A request commits at once, or is held if it has something to write.
Serve(request) ==
  \/ Write(request) /\ UNCHANGED held
  \/ /\ held = NoRequest /\ held' = request
     /\ request.new # request.read \/ request.case = 0 \/ request.word # "none"
     /\ UNCHANGED <<thread, threadCases>>

ReleaseHeld ==
  /\ held # NoRequest
  /\ Write(held)
  /\ held' = NoRequest

\* A failed request leaves nothing.
DropHeld ==
  /\ held # NoRequest
  /\ held' = NoRequest
  /\ UNCHANGED <<thread, threadCases>>

Change(c, new, word) == [case |-> c, read |-> threadCases[c], new |-> new, word |-> word]
Opening(new, word) == [case |-> 0, read |-> NewCase, new |-> new, word |-> word]

(***************************************************************************)
(* Requests                                                                *)
(***************************************************************************)

\* send_support_query_message, by the student or the faculty member: the text is sent
\* as it is, and may be a decisive word.
SendMessage(said) ==
  /\ thread' = [last |-> said, spoken |-> thread.spoken \/ said \in Words]
  /\ UNCHANGED <<threadCases, held>>

\* rms_apply_query_action: the word and the case in one transaction.
StaffAnswers(word) ==
  /\ thread.last # "none"
  /\ \/ \E c \in Unclosed : Serve(Change(c, Worded(threadCases[c], word), word))
     \/ Unclosed = {} /\ Serve(Opening(Worded(NewCase, word), word))

StaffMoves(c, do) ==
  /\ Allowed(threadCases[c], do)
  /\ Serve(Change(c, After(threadCases[c], do), "none"))

StudentReopens(c) ==
  /\ threadCases[c].status \in Settled
  /\ Serve(Change(c, After(threadCases[c], "REOPEN"), "none"))

StatusOfWord(word) ==
  CASE word = "approve" -> "APPROVED" [] word = "disapprove" -> "REJECTED"
    [] word = "schedule" -> "ASSIGNED"

\* The last message of the thread is a decisive word, whoever sent it.
Marked == thread.last \in Words

MarkedRow(row) ==
  IF Marked THEN [row EXCEPT !.status = StatusOfWord(thread.last)] ELSE row

\* _sync_rms_cases_from_threads: whoever lists the cases has the last word of the
\* thread decide again, a reopened case too.  A thread without an open case gets one.
StaffLists ==
  /\ thread.last # "none"
  /\ \/ \E c \in Unclosed : Serve(Change(c, MarkedRow(threadCases[c]), "none"))
     \/ Unclosed = {} /\ Serve(Opening(MarkedRow(NewCase), "none"))

\* The student's tracker only opens what is missing.
StudentTracks ==
  /\ thread.last # "none"
  /\ Unclosed = {}
  /\ Serve(Opening(MarkedRow(NewCase), "none"))

RmsNext ==
  \/ \E said \in Words \cup {"text"} : SendMessage(said)
  \/ \E word \in Words : StaffAnswers(word)
  \/ StaffLists \/ StudentTracks \/ ReleaseHeld \/ DropHeld
  \/ \E c \in Existing :
       \/ \E do \in CaseActions : StaffMoves(c, do)
       \/ StudentReopens(c)

\* No case is settled for which nobody answers: it has an assignee, or a decisive word
\* was sent in its thread; whatever transitions, decisions and synchronisations race on
\* the row (_apply_rms_case_transition, _sync_rms_cases_from_threads).  The word need
\* not be staff's: the synchronisations settle the case whoever sent it (admin.py 3496-3526),
\* so that a student's message that is a word is the exception to "somebody answers".
SettledIsOwned ==
  \A c \in Existing :
    threadCases[c].status \in Settled => threadCases[c].assigned \/ thread.spoken
=============================================================================
