------------------------------- MODULE Saarthi -------------------------------
(***************************************************************************)
(* The counselling assistant of one student in one week, and the           *)
(* attendance it credits for the week's mandatory Sunday                   *)
(* (app/saarthi_service.py, app/routers/saarthi.py).                       *)
(*                                                                         *)
(* A request is one transaction, cut where it reads what another request   *)
(* may change and where it may wait for another's row; what it has written *)
(* counts when it commits.  The event and the record of the Sunday are     *)
(* unique, and so is the session of the week.                              *)
(***************************************************************************)
EXTENDS Naturals, Sequences, SequencesExt, FiniteSets

CONSTANTS
  SaarthiRequests,   \* requests served at a time
  Preferred,         \* SAARTHI_LLM_PROVIDER, or ""
  Keyed,             \* providers with an API key
  LlmRequired,       \* SAARTHI_LLM_REQUIRED
  ChatRows,          \* messages a reply looks back on
  MaxTalk,           \* bound: requests
  MaxSundayMarks          \* bound: marks of the faculty

ASSUME SaarthiAssumption ==
  /\ SaarthiRequests \cup {MaxTalk, MaxSundayMarks} \subseteq Nat /\ ChatRows \in Nat \ {0}
  /\ LlmRequired \in BOOLEAN

VARIABLES
  day,        \* the week up to Saturday, its Sunday, and what comes after
  inCourse,  \* the student is enrolled in the course
  session,    \* the week's session: "none", "open" or "credited"
  ledger,     \* the Sunday's events, the latest last
  record,     \* the Sunday's attendance record: its event, or "none"
  chat,       \* the latest messages of the session
  request,    \* what each request does
  talks, sundayMarks,
  late        \* history: an absence was written by a request that had found no credit
              \* where there was one by now

saarthiVars == <<day, inCourse, session, ledger, record, chat, request, talks, sundayMarks, late>>

Days == {"week", "sunday", "after"}
\* Events of the assistant, by their key, and of the faculty.
OwnEvents == {"present", "absent"}
StaffEvents == {"staff-present", "staff-absent"}
AttendanceEvents == OwnEvents \cup StaffEvents
SaidWords == {"crisis", "plain"}
\* A reply that names the helpline keeps the crisis in mind, as the message itself does.
Rows == {"crisis", "plain", "helpline"}

SaarthiRequest == [at : {"idle", "look", "write", "session", "join", "reply", "end"},
             kind : {"page", "status", "reset", "turn"}, day : Days, words : SaidWords,
             credited : BOOLEAN, found : {"none", "open", "credited"},
             event : OwnEvents \cup {"none"}, record : BOOLEAN, known : BOOLEAN,
             holds : SUBSET {"record", "session"}, reply : Rows]
AtRest == [at |-> "idle", kind |-> "page", day |-> "week", words |-> "plain",
          credited |-> FALSE, found |-> "none", event |-> "none", record |-> FALSE,
          known |-> FALSE, holds |-> {}, reply |-> "plain"]

SaarthiTypeOK ==
  /\ day \in Days /\ inCourse \in BOOLEAN /\ late \in BOOLEAN
  /\ session \in {"none", "open", "credited"}
  /\ ToSet(ledger) \subseteq AttendanceEvents
  /\ record \in AttendanceEvents \cup {"none"}
  /\ ToSet(chat) \subseteq Rows /\ Len(chat) <= ChatRows
  /\ request \in [SaarthiRequests -> SaarthiRequest]
  /\ talks \in 0..MaxTalk /\ sundayMarks \in 0..MaxSundayMarks

SaarthiInit ==
  /\ day = "week" /\ inCourse = FALSE /\ session = "none"
  /\ ledger = <<>> /\ record = "none" /\ chat = <<>>
  /\ request = [r \in SaarthiRequests |-> AtRest]
  /\ talks = 0 /\ sundayMarks = 0 /\ late = FALSE

OnlyRequest == <<day, session, ledger, record, chat, talks, sundayMarks>>
Step(r, next) == request' = [request EXCEPT ![r] = next]
Held(r, what) == \E q \in SaarthiRequests \ {r} : what \in request[q].holds

(***************************************************************************)
(* Materialising the Sunday                                                *)
(***************************************************************************)

\* The attendance pages look at the weeks up to the last one that has left a trace.
Through(kind) ==
  IF kind = "page" /\ day = "after" /\ (session # "none" \/ record # "none") THEN "sunday" ELSE day

ShouldMaterialise(kind) == kind # "page" \/ inCourse \/ (day # "week" /\ session # "none")
                                          \/ record # "none"

\* Mutant: the credit of the session is not looked at.
Desired_Uncredited(through) ==
  IF through = "after" /\ record \notin StaffEvents \cup {"absent"} THEN "absent" ELSE "none"

\* A credited Sunday is to be present; another one is to be absent once it is over, unless
\* the faculty has recorded it.
Desired(through) ==
  IF through = "week" THEN "none"
  ELSE IF session = "credited" THEN IF record = "present" THEN "none" ELSE "present"
  ELSE IF through = "after" /\ record \notin StaffEvents \cup {"absent"} THEN "absent"
  ELSE "none"

AfterWrite(req) == IF req.kind \in {"turn", "reset"} THEN "session" ELSE "end"

\* Requests are alike: the first free place takes the next one.
Begin(r, kind, words) ==
  /\ request[r] = AtRest /\ \A q \in SaarthiRequests : request[q] = AtRest => r <= q
  /\ talks < MaxTalk
  /\ talks' = talks + 1
  /\ inCourse' = (inCourse \/ kind # "page")
  /\ LET event == IF ShouldMaterialise(kind) THEN Desired(Through(kind)) ELSE "none"
         req == [AtRest EXCEPT !.kind = kind, !.day = day, !.words = words,
                              !.credited = (session = "credited"), !.event = event]
     IN Step(r, [req EXCEPT !.at = IF event = "none" THEN AfterWrite(req) ELSE "look"])
  /\ UNCHANGED <<day, session, ledger, record, chat, sundayMarks, late>>

(***************************************************************************)
(* An event and the record it gives (append_event_and_recompute)           *)
(***************************************************************************)

Look(r) ==
  /\ request[r].at = "look"
  /\ Step(r, [request[r] EXCEPT !.at = "write", !.record = (record # "none"),
                                !.known = (request[r].event \in ToSet(ledger))])
  /\ UNCHANGED <<OnlyRequest, inCourse, late>>

\* A row that was not there when it was looked for, and is there now, is refused by its
\* unique constraint.
Collides(req) ==
  \/ ~req.known /\ req.event \in ToSet(ledger)
  \/ ~req.record /\ record # "none"

\* The award follows the session; the materialisation precedes it.
WriteEvent(r) ==
  /\ request[r].at = "write"
  /\ ~Held(r, "record")
  /\ LET req == request[r]
     IN IF Collides(req) THEN Step(r, AtRest) /\ UNCHANGED late
        ELSE /\ Step(r, [req EXCEPT !.at = IF "session" \in req.holds THEN "reply"
                                           ELSE AfterWrite(req),
                                    !.holds = @ \cup {"record"}])
             /\ late' = (late \/ (req.event = "absent" /\ ~req.credited /\ session = "credited"))
  /\ UNCHANGED <<OnlyRequest, inCourse>>

(***************************************************************************)
(* The session of the week                                                 *)
(***************************************************************************)

FindSession(r) ==
  /\ request[r].at = "session"
  /\ Step(r, [request[r] EXCEPT !.at = "join", !.found = session])
  /\ UNCHANGED <<OnlyRequest, inCourse, late>>

\* On the Sunday a session without credit is credited, whatever the reply will be.
Awards(req) == req.kind = "turn" /\ req.day = "sunday" /\ req.found # "credited"

\* Who comes a week later has another session.
Join(r) ==
  /\ request[r].at = "join"
  /\ ~Held(r, "session") \/ request[r].day = "after"
  /\ LET req == request[r]
         joined == [req EXCEPT !.holds = @ \cup {"session"}]
     IN IF req.day = "after" THEN Step(r, [req EXCEPT !.at = "reply"])
        ELSE IF req.found = "none" /\ session # "none" THEN Step(r, AtRest)
        ELSE IF Awards(req) THEN Step(r, [joined EXCEPT !.at = "look", !.event = "present"])
        ELSE Step(r, [joined EXCEPT !.at = "reply"])
  /\ UNCHANGED <<OnlyRequest, inCourse, late>>

(***************************************************************************)
(* The reply                                                               *)
(***************************************************************************)

Providers == <<"nvidia", "bedrock", "gemini", "openrouter">>
WithKey == SelectSeq(Providers, LAMBDA p : p \in Keyed)

\* The preferred provider first; NVIDIA has no one to fall back on.
ProviderOrder ==
  IF Preferred = "nvidia" THEN <<"nvidia">>
  ELSE IF Preferred \in ToSet(Providers) /\ (Preferred \in Keyed \/ Keyed = {})
  THEN <<Preferred>> \o Remove(WithKey, Preferred)
  ELSE WithKey

\* A provider's keys are tried until one is not refused for its quota or its rights.
PoolAnswers(p) == IF p \in Keyed THEN {"reply", "error"} ELSE {"error"}
GeminiAnswers == IF "gemini" \in Keyed
                 THEN PoolAnswers("gemini") \cup PoolAnswers("openrouter") ELSE {"error"}
Answers(p) == IF p = "gemini" THEN GeminiAnswers ELSE PoolAnswers(p)

\* A reply of low quality is not used, whichever those are.
Quality(answer) == IF answer = "reply" THEN {"good", "poor"} ELSE {"none"}

\* Without a required provider there is always a reply made of prepared phrases.
PreparedReply == ~LlmRequired

\* No reply is found where every provider may fail, or where there is none.
CanFail == ~PreparedReply /\ (Preferred \notin ToSet(Providers) \cup {""} \/ \A i \in DOMAIN ProviderOrder :
             \E answer \in Answers(ProviderOrder[i]) : Quality(answer) # {"good"})

InCrisis(prior) == \E i \in DOMAIN prior : prior[i] # "plain"

\* A crisis has replies of its own: the first, and the one to who says to be safe, name the
\* helpline and ask about safety.
CrisisReplies(prior, words) ==
  IF words = "crisis" /\ ~InCrisis(prior) THEN {"helpline"}
  ELSE IF words = "crisis" THEN {"plain"}
  ELSE {"plain", "helpline"}

Latest(rows, n) == SubSeq(rows, IF Len(rows) > n THEN Len(rows) - n + 1 ELSE 1, Len(rows))

\* A greeting or a thank-you is answered without a provider.  A request that fails rolls
\* everything back, the credit too.
Reply(r) ==
  /\ request[r].at = "reply"
  /\ LET req == request[r]
         prior == IF req.day = "after" THEN <<>> ELSE Latest(chat, ChatRows - 1)
     IN \/ /\ req.kind = "reset"
           /\ Step(r, [req EXCEPT !.at = "end"])
        \/ /\ req.kind = "turn" /\ (req.words = "crisis" \/ InCrisis(prior))
           /\ \E reply \in CrisisReplies(prior, req.words) :
                Step(r, [req EXCEPT !.at = "end", !.reply = reply])
        \/ /\ req.kind = "turn" /\ req.words # "crisis" /\ ~InCrisis(prior)
           /\ \/ Step(r, [req EXCEPT !.at = "end"])
              \/ CanFail /\ Step(r, AtRest)
  /\ UNCHANGED <<OnlyRequest, inCourse, late>>

(***************************************************************************)
(* The end of a request                                                    *)
(***************************************************************************)

\* An event that was there already is not written again; the record has the latest one.
\* Messages are deleted before a new chat waits for a turn, whose messages stay.
Appended(req) == IF req.known THEN ledger ELSE Append(ledger, req.event)

Commit(r) ==
  /\ request[r].at = "end"
  /\ LET req == request[r]
     IN /\ IF "record" \in req.holds
           THEN ledger' = Appended(req) /\ record' = Last(ledger')
           ELSE UNCHANGED <<ledger, record>>
        /\ IF "session" \in req.holds
           THEN /\ session' = IF Awards(req) THEN "credited"
                              ELSE IF session = "none" THEN "open" ELSE session
                /\ IF req.kind = "reset" THEN chat' \in {<<>>, chat}
                   ELSE chat' = Latest(chat \o <<req.words, req.reply>>, ChatRows)
           ELSE UNCHANGED <<session, chat>>
  /\ Step(r, AtRest)
  /\ UNCHANGED <<day, inCourse, talks, sundayMarks, late>>

\* The faculty marks the class by hand (mark_attendance_bulk).
FacultyMarks(event) ==
  /\ day # "week" /\ inCourse
  /\ sundayMarks < MaxSundayMarks
  /\ \A r \in SaarthiRequests : "record" \notin request[r].holds
  /\ sundayMarks' = sundayMarks + 1
  /\ ledger' = Append(ledger, event) /\ record' = event
  /\ UNCHANGED <<day, inCourse, session, chat, request, talks, late>>

NextDay ==
  /\ day # "after"
  /\ day' = IF day = "week" THEN "sunday" ELSE "after"
  /\ UNCHANGED <<inCourse, session, ledger, record, chat, request, talks, sundayMarks, late>>

SaarthiNext ==
  \/ \E r \in SaarthiRequests :
       \/ \E kind \in {"page", "status", "reset"} : Begin(r, kind, "plain")
       \/ \E words \in SaidWords : Begin(r, "turn", words)
       \/ Look(r) \/ WriteEvent(r) \/ FindSession(r) \/ Join(r) \/ Reply(r) \/ Commit(r)
  \/ \E event \in StaffEvents : FacultyMarks(event)
  \/ NextDay

\* A Sunday is credited once, and only with its event.  What is credited is recorded as
\* present, whatever requests overlap, fail or come late, unless the faculty has recorded
\* it otherwise or a request that found no credit wrote the absence after it
\* (materialize_saarthi_attendance, create_saarthi_turn).
CreditHolds ==
  /\ \A i, j \in DOMAIN ledger : ledger[i] = "present" /\ ledger[j] = "present" => i = j
  /\ session = "credited" <=> "present" \in ToSet(ledger)
  /\ session = "credited" => late \/ record \in StaffEvents \cup {"present"}
=============================================================================
