-------------------------- MODULE PlatformProofs --------------------------
(***************************************************************************)
(* Proofs about the two assistants, the timetable they speak of, the event *)
(* hub and the Redis clients.                                              *)
(***************************************************************************)
EXTENDS Copilot, Saarthi, Timetable, EventHub, RedisFailover, FiniteSetTheorems,
        SequenceTheorems, WellFoundedInduction, TLAPS

(***************************************************************************)
(* The copilot                                                             *)
(***************************************************************************)

\* What is done is never undone, and a request claims a deed only after its commit: the
\* invariant follows a claim from the request to the audit row and to the answer. A request
\* inserts an asker's missing auth_users row before it writes the audit row, which is why a
\* row implies one.

\* What requests under way, audit rows and answers claim is done.
ClaimsHold ==
  /\ \A w \in Askers : \A deed \in asking[w].claim.did : asking[w].n \in done[deed]
  /\ \A n \in Questions : \A deed \in log[n].did \cup answers[n].claim.did : n \in done[deed]

\* A request that sends a code has scheduled its class; one about to write its audit row
\* has the auth_users row, or brings it.
MirrorsAhead ==
  /\ \A w \in Askers : asking[w].pc = "sending" => asking[w].n \in done["class"]
  /\ \A w \in Askers : asking[w].pc = "logging" => mirror \/ "mirror" \in asking[w].unsaved
  /\ \A n \in Questions : log[n] # NoClaim => mirror

\* An answer that names a row repeats it, and no question is under way twice.
AnswersMatch ==
  /\ \A n \in Questions : answers[n].row => n <= asked /\ log[n] = answers[n].claim
  /\ \A w \in Askers : asking[w].pc # "idle" => asking[w].n \in Questions /\ asking[w].n <= asked
  /\ \A v, w \in Askers :
       asking[v].pc # "idle" /\ asking[w].pc # "idle" /\ asking[v].n = asking[w].n => v = w
  /\ \A w \in Askers : asking[w].pc # "idle" => ~answers[asking[w].n].row

CopilotInv == CopilotTypeOK /\ ClaimsHold /\ MirrorsAhead /\ AnswersMatch
CopilotSpec == CopilotInit /\ [][CopilotNext]_copilotVars

\* The count of classes to attend is right: attending that many in a row reaches 75 %, and
\* no fewer do (_classes_needed_to_recover).
THEOREM ClassesNeededIsExact ==
  ASSUME NEW a \in Nat, NEW d \in Nat
  PROVE  \A k \in Nat : 4 * (a + k) >= 3 * (d + k) <=> k >= ClassesNeeded(a, d)
  BY DEF ClassesNeeded

\* The count of classes that may be missed is right for a student who has 75 %: missing
\* that many keeps them, and one more does not (_safe_absences_remaining).
THEOREM SafeAbsencesIsExact ==
  ASSUME NEW a \in Nat, NEW d \in Nat \ {0}, 4 * a >= 3 * d
  PROVE  \A k \in Nat : 4 * a >= 3 * (d + k) <=> k <= SafeAbsences(a, d)
  BY DEF SafeAbsences

LEMMA Constants == MaxQuestions \in Nat /\ MaxFaults \in Nat
  BY CopilotAssumption

\* Claims are of deeds.
LEMMA ClaimsTyped ==
  ASSUME CopilotTypeOK
  PROVE  /\ \A w \in Askers : asking[w].claim.did \subseteq Deeds
         /\ \A n \in Questions : log[n].did \subseteq Deeds /\ answers[n].claim.did \subseteq Deeds
<1>1. \A x \in Claim \cup {NoClaim} : x.did \subseteq Deeds
  BY DEF Claim, NoClaim
<1>2. \A w \in Askers : asking[w].claim \in Claim \cup {NoClaim}
  BY DEF CopilotTypeOK, Asking
<1>3. \A n \in Questions : log[n] \in Claim \cup {NoClaim} /\ answers[n].claim \in Claim \cup {NoClaim}
  BY DEF CopilotTypeOK
<1>4. QED
  BY <1>1, <1>2, <1>3

\* A request that goes on with its question.
LEMMA GoesOn ==
  ASSUME CopilotInv, NEW w \in Askers, NEW q \in Asking, Put(w, q),
         asking[w].pc # "idle", q.pc # "idle", q.n = asking[w].n,
         done' \in [Deeds -> SUBSET Questions], \A deed \in Deeds : done[deed] \subseteq done'[deed],
         \A deed \in q.claim.did : q.n \in done'[deed],
         q.pc = "sending" => q.n \in done'["class"],
         q.pc = "logging" => mirror \/ "mirror" \in q.unsaved,
         mishaps' \in 0..MaxFaults, UNCHANGED <<asked, mirror, settled, log, rated, answers>>
  PROVE  CopilotInv'
<1>1. /\ asking \in [Askers -> Asking] /\ asking' \in [Askers -> Asking]
      /\ asking'[w] = q /\ \A v \in Askers \ {w} : asking'[v] = asking[v]
  BY DEF Put, CopilotInv, CopilotTypeOK
<1>2. CopilotTypeOK'
  BY <1>1 DEF CopilotInv, CopilotTypeOK
<1>3. ClaimsHold'
  <2>1. \A v \in Askers \ {w} : \A deed \in asking'[v].claim.did : asking'[v].n \in done'[deed]
    BY <1>1, ClaimsTyped DEF CopilotInv, ClaimsHold
  <2>2. \A n \in Questions : \A deed \in log'[n].did \cup answers'[n].claim.did : n \in done'[deed]
    BY ClaimsTyped DEF CopilotInv, ClaimsHold
  <2>3. \A deed \in asking'[w].claim.did : asking'[w].n \in done'[deed]
    BY <1>1
  <2>4. QED
    BY <2>1, <2>2, <2>3 DEF ClaimsHold
<1>4. MirrorsAhead'
  BY <1>1 DEF CopilotInv, MirrorsAhead, Deeds
<1>5. AnswersMatch'
  BY <1>1 DEF CopilotInv, AnswersMatch
<1>6. QED
  BY <1>2, <1>3, <1>4, <1>5 DEF CopilotInv

\* A request that answers: its session commits what it wrote, or is rolled back.
LEMMA Ends ==
  ASSUME CopilotInv, NEW w \in Askers, NEW row \in BOOLEAN, asking[w].pc # "idle", GiveAnswer(w, row),
         done' \in [Deeds -> SUBSET Questions], \A deed \in Deeds : done[deed] \subseteq done'[deed],
         mirror' \in BOOLEAN, mirror => mirror',
         \/ log' = log /\ ~row
         \/ log' = [log EXCEPT ![asking[w].n] = asking[w].claim] /\ mirror',
         mishaps' \in 0..MaxFaults, UNCHANGED <<asked, settled, rated>>
  PROVE  CopilotInv'
<1> DEFINE n == asking[w].n
<1>1. /\ asking \in [Askers -> Asking] /\ asking' \in [Askers -> Asking]
      /\ asking'[w] = NoQuestion /\ \A v \in Askers \ {w} : asking'[v] = asking[v]
  <2>1. NoQuestion \in Asking
    BY Constants DEF NoQuestion, Question, NoClaim, Asking
  <2>2. QED
    BY <2>1 DEF GiveAnswer, Put, CopilotInv, CopilotTypeOK
<1>2. n \in Questions /\ asking[w].claim \in Claim \cup {NoClaim} /\ n <= asked
  BY <1>1 DEF CopilotInv, AnswersMatch, Asking
<1>3. /\ answers'[n] = [claim |-> asking[w].claim, row |-> row]
      /\ \A m \in Questions \ {n} : answers'[m] = answers[m]
      /\ answers' \in [Questions -> [claim : Claim \cup {NoClaim}, row : BOOLEAN]]
  <2>1. [claim |-> asking[w].claim, row |-> row] \in [claim : Claim \cup {NoClaim}, row : BOOLEAN]
    BY <1>2
  <2>2. QED
    BY <1>2, <2>1 DEF GiveAnswer, CopilotInv, CopilotTypeOK
<1>4. /\ log' \in [Questions -> Claim \cup {NoClaim}]
      /\ \A m \in Questions \ {n} : log'[m] = log[m]
      /\ \/ log'[n] = log[n] /\ ~row
         \/ log'[n] = asking[w].claim /\ mirror'
  <2>1. CASE log' = log /\ ~row
    BY <2>1, <1>2 DEF CopilotInv, CopilotTypeOK
  <2>2. CASE log' = [log EXCEPT ![n] = asking[w].claim] /\ mirror'
    <3>1. log' \in [Questions -> Claim \cup {NoClaim}] /\ log'[n] = asking[w].claim
          /\ \A m \in Questions \ {n} : log'[m] = log[m]
      BY <2>2, <1>2 DEF CopilotInv, CopilotTypeOK
    <3>2. QED
      BY <3>1, <2>2
  <2>3. QED
    BY <2>1, <2>2
<1>5. CopilotTypeOK'
  BY <1>1, <1>3, <1>4 DEF CopilotInv, CopilotTypeOK
<1>6. ClaimsHold'
  <2>1. \A deed \in asking[w].claim.did : n \in done'[deed]
    BY ClaimsTyped DEF CopilotInv, ClaimsHold
  <2>2. \A v \in Askers : \A deed \in asking'[v].claim.did : asking'[v].n \in done'[deed]
    BY <1>1, ClaimsTyped DEF CopilotInv, ClaimsHold, NoQuestion, Question, NoClaim
  <2>3. \A m \in Questions \ {n} : \A deed \in log'[m].did \cup answers'[m].claim.did : m \in done'[deed]
    BY <1>3, <1>4, ClaimsTyped DEF CopilotInv, ClaimsHold
  <2>4. \A deed \in log[n].did : n \in done'[deed]
    BY <1>2, ClaimsTyped DEF CopilotInv, ClaimsHold
  <2>5. \A deed \in log'[n].did \cup answers'[n].claim.did : n \in done'[deed]
    BY <1>3, <1>4, <2>1, <2>4
  <2>6. QED
    BY <2>2, <2>3, <2>5 DEF ClaimsHold
<1>7. MirrorsAhead'
  <2>1. \A v \in Askers : asking'[v].pc = "sending" => asking'[v].n \in done'["class"]
    BY <1>1 DEF CopilotInv, MirrorsAhead, NoQuestion, Question, Deeds
  <2>2. \A v \in Askers : asking'[v].pc = "logging" => mirror' \/ "mirror" \in asking'[v].unsaved
    BY <1>1 DEF CopilotInv, MirrorsAhead, NoQuestion, Question
  <2>3. \A m \in Questions : log'[m] # NoClaim => mirror'
    BY <1>4 DEF CopilotInv, MirrorsAhead
  <2>4. QED
    BY <2>1, <2>2, <2>3 DEF MirrorsAhead
<1>8. AnswersMatch'
  <2>1. \A m \in Questions : answers'[m].row => m <= asked' /\ log'[m] = answers'[m].claim
    BY <1>2, <1>3, <1>4 DEF CopilotInv, AnswersMatch
  <2>2. \A v \in Askers : asking'[v].pc # "idle" => v # w /\ asking'[v] = asking[v] /\ asking[v].n # n
    BY <1>1 DEF CopilotInv, AnswersMatch, NoQuestion, Question
  <2>3. \A v \in Askers : asking'[v].pc # "idle" =>
          asking'[v].n \in Questions /\ asking'[v].n <= asked' /\ ~answers'[asking'[v].n].row
    BY <1>3, <2>2 DEF CopilotInv, AnswersMatch
  <2>4. \A u, v \in Askers : asking'[u].pc # "idle" /\ asking'[v].pc # "idle"
                              /\ asking'[v].n = asking'[u].n => u = v
    BY <1>1, <1>2, <2>2, Constants DEF CopilotInv, AnswersMatch, NoQuestion, Question, Questions
  <2>5. QED
    BY <2>1, <2>3, <2>4 DEF AnswersMatch
<1>9. QED
  BY <1>5, <1>6, <1>7, <1>8 DEF CopilotInv

LEMMA AskKeeps == ASSUME CopilotInv, NEW w \in Askers, Ask(w) PROVE CopilotInv'
<1> DEFINE Next == asked + 1 \in 0..MaxQuestions
<1>0. Next /\ asked \in Nat /\ asked + 1 \in Questions
  <2>1. asked \in 0..MaxQuestions
    BY DEF CopilotInv, CopilotTypeOK
  <2>2. asked < MaxQuestions
    BY DEF Ask
  <2>3. QED
    BY <2>1, <2>2, Constants DEF Questions
<1> HIDE DEF Next
<1>1. PICK q \in Asking : /\ Put(w, q) /\ q.pc # "idle" /\ q.pc # "sending" /\ q.pc # "logging"
                          /\ q.n = asked + 1 /\ q.claim.did = {}
  <2>1. CASE \E pc \in {"plan", "review"} : Put(w, Question(pc, asked + 1, NoClaim))
    <3>1. PICK pc \in {"plan", "review"} : Put(w, Question(pc, asked + 1, NoClaim))
      BY <2>1
    <3> DEFINE q == Question(pc, asked + 1, NoClaim)
    <3>2. q \in Asking
      BY <1>0 DEF Next, Asking, Question
    <3>3. q.pc = pc /\ q.n = asked + 1 /\ q.claim.did = {}
      BY DEF Question, NoClaim
    <3>4. QED
      BY <3>1, <3>2, <3>3
  <2>2. CASE AnswersFromRecords(w)
    <3>1. PICK outcome \in Outcomes :
               Put(w, Question("mirroring", asked + 1, [outcome |-> outcome, did |-> {}]))
      BY <2>2 DEF AnswersFromRecords
    <3> DEFINE q == Question("mirroring", asked + 1, [outcome |-> outcome, did |-> {}])
    <3>2. [outcome |-> outcome, did |-> {}] \in Claim
      BY DEF Claim
    <3>3. q \in Asking
      BY <3>2, <1>0 DEF Next, Asking, Question
    <3>4. q.pc = "mirroring" /\ q.n = asked + 1 /\ q.claim.did = {}
      BY DEF Question
    <3>5. QED
      BY <3>1, <3>3, <3>4
  <2>3. QED
    BY <2>1, <2>2 DEF Ask
<1>2. /\ asking \in [Askers -> Asking] /\ asking' \in [Askers -> Asking]
      /\ asking'[w] = q /\ \A v \in Askers \ {w} : asking'[v] = asking[v]
  BY <1>1 DEF Put, CopilotInv, CopilotTypeOK
<1>3. /\ asked \in Nat /\ asked + 1 \in Questions /\ asked' = asked + 1
      /\ \A n \in Questions : n \in Nat
      /\ UNCHANGED <<mirror, done, settled, log, rated, answers, mishaps>>
  <2>1. \A n \in Questions : n \in Nat
    BY Constants DEF Questions
  <2>2. QED
    BY <1>0, <2>1 DEF Ask
<1>4. CopilotTypeOK'
  <2>1. asked' \in 0..MaxQuestions
    BY <1>3, Constants DEF Questions
  <2>2. QED
    BY <2>1, <1>2, <1>3 DEF CopilotInv, CopilotTypeOK
<1>5. ClaimsHold'
  BY <1>1, <1>2, <1>3 DEF CopilotInv, ClaimsHold
<1>6. MirrorsAhead'
  BY <1>1, <1>2, <1>3 DEF CopilotInv, MirrorsAhead
<1>7. AnswersMatch'
  <2>1. \A n \in Questions : answers'[n].row => n <= asked' /\ log'[n] = answers'[n].claim
    BY <1>3 DEF CopilotInv, AnswersMatch
  <2>2. ~answers'[asked + 1].row
    BY <1>3 DEF CopilotInv, AnswersMatch
  <2>3. \A v \in Askers : asking'[v].pc # "idle" =>
          asking'[v].n \in Questions /\ asking'[v].n <= asked' /\ ~answers'[asking'[v].n].row
    BY <1>1, <1>2, <1>3, <2>2 DEF CopilotInv, AnswersMatch
  <2>4. \A v \in Askers \ {w} : asking'[v].pc # "idle" => asking'[v].n # asked + 1
    BY <1>2, <1>3 DEF CopilotInv, AnswersMatch
  <2>5. QED
    BY <1>1, <1>2, <1>3, <2>1, <2>3, <2>4 DEF CopilotInv, AnswersMatch
<1>8. QED
  BY <1>4, <1>5, <1>6, <1>7 DEF CopilotInv

\* What a step of a request reads of its question.
LEMMA QuestionTyped ==
  ASSUME CopilotInv, NEW w \in Askers
  PROVE  /\ asking[w] \in Asking /\ DOMAIN asking = Askers
         /\ asking[w].claim.did \subseteq Deeds
         /\ asking[w].pc # "idle" => asking[w].n \in Questions
         /\ done \in [Deeds -> SUBSET Questions]
         /\ mishaps \in 0..MaxFaults
         /\ mishaps < MaxFaults => mishaps + 1 \in 0..MaxFaults
         /\ \A deed \in asking[w].claim.did : asking[w].n \in done[deed]
<1>1. asking \in [Askers -> Asking] /\ done \in [Deeds -> SUBSET Questions] /\ mishaps \in 0..MaxFaults
  BY DEF CopilotInv, CopilotTypeOK
<1>2. mishaps < MaxFaults => mishaps + 1 \in 0..MaxFaults
  BY <1>1, Constants
<1>3. asking[w].claim.did \subseteq Deeds
  BY ClaimsTyped DEF CopilotInv
<1>4. asking[w].pc # "idle" => asking[w].n \in Questions
  BY DEF CopilotInv, AnswersMatch
<1>5. \A deed \in asking[w].claim.did : asking[w].n \in done[deed]
  BY DEF CopilotInv, ClaimsHold
<1>6. QED
  BY <1>1, <1>2, <1>3, <1>4, <1>5

\* The handler returns a claim of deeds that are done.
LEMMA ReturnsKeeps ==
  ASSUME CopilotInv, NEW w \in Askers, NEW outcome \in Outcomes, NEW did \in SUBSET Deeds,
         Returns(w, outcome, did), asking[w].pc # "idle",
         done' \in [Deeds -> SUBSET Questions], \A deed \in Deeds : done[deed] \subseteq done'[deed],
         \A deed \in did : asking[w].n \in done'[deed],
         UNCHANGED <<asked, mirror, settled, log, rated, answers, mishaps>>
  PROVE  CopilotInv'
<1> DEFINE claim == [outcome |-> outcome, did |-> did]
           q == [asking[w] EXCEPT !.pc = "mirroring", !.claim = claim]
<1>1. claim \in Claim
  BY DEF Claim
<1>2. q \in Asking
  BY <1>1, QuestionTyped DEF Asking
<1>3. q.pc = "mirroring" /\ q.n = asking[w].n /\ q.claim.did = did
  BY QuestionTyped DEF Asking
<1>4. Put(w, q)
  BY DEF Returns
<1>5. mishaps' \in 0..MaxFaults
  BY QuestionTyped
<1> HIDE DEF q
<1>6. QED
  BY <1>2, <1>3, <1>4, <1>5, GoesOn

\* The handler goes on without a claim.
LEMMA GoesKeeps ==
  ASSUME CopilotInv, NEW w \in Askers, NEW pc \in {"opening", "sending", "inserting", "logging"},
         Goes(w, pc), asking[w].pc # "idle",
         done' \in [Deeds -> SUBSET Questions], \A deed \in Deeds : done[deed] \subseteq done'[deed],
         pc = "sending" => asking[w].n \in done'["class"], pc = "logging" => mirror,
         UNCHANGED <<asked, mirror, settled, log, rated, answers, mishaps>>
  PROVE  CopilotInv'
<1> DEFINE q == [asking[w] EXCEPT !.pc = pc]
<1>1. q \in Asking /\ q.pc = pc /\ q.n = asking[w].n /\ q.claim = asking[w].claim
  BY QuestionTyped DEF Asking
<1>2. Put(w, q)
  BY DEF Goes
<1>3. \A deed \in q.claim.did : q.n \in done'[deed]
  BY <1>1, QuestionTyped
<1>4. mishaps' \in 0..MaxFaults
  BY QuestionTyped
<1> HIDE DEF q
<1>5. QED
  BY <1>1, <1>2, <1>3, <1>4, GoesOn

\* A commit adds its deed.
LEMMA DidAdds ==
  ASSUME CopilotInv, NEW w \in Askers, asking[w].pc # "idle", NEW deed \in Deeds, Did(deed, asking[w].n)
  PROVE  /\ done' \in [Deeds -> SUBSET Questions]
         /\ \A x \in Deeds : done[x] \subseteq done'[x]
         /\ asking[w].n \in done'[deed]
  BY QuestionTyped DEF Did

\* An answer without an audit row.
LEMMA UnloggedKeeps ==
  ASSUME CopilotInv, NEW w \in Askers, AnswerUnlogged(w), asking[w].pc # "idle",
         mishaps' \in 0..MaxFaults, UNCHANGED <<asked, settled, rated>>
  PROVE  CopilotInv'
<1>1. GiveAnswer(w, FALSE) /\ UNCHANGED <<mirror, done, log>>
  BY DEF AnswerUnlogged
<1>2. done' \in [Deeds -> SUBSET Questions] /\ \A deed \in Deeds : done[deed] \subseteq done'[deed]
  BY <1>1, QuestionTyped
<1>3. mirror \in BOOLEAN
  BY DEF CopilotInv, CopilotTypeOK
<1>4. mirror' \in BOOLEAN /\ (mirror => mirror')
  BY <1>1, <1>3
<1>5. QED
  BY <1>1, <1>2, <1>4, Ends

LEMMA HandlerKeeps ==
  ASSUME CopilotInv, NEW w \in Askers,
         Decline(w) \/ Review(w) \/ OpenCase(w) \/ Schedule(w) \/ SendRemedialCode(w) \/ Fails(w)
  PROVE  CopilotInv'
<1>1. /\ {} \in SUBSET Deeds /\ {"case"} \in SUBSET Deeds /\ {"class"} \in SUBSET Deeds
      /\ {"class", "codes"} \in SUBSET Deeds
      /\ \A outcome \in {"completed", "blocked", "denied", "failed"} : outcome \in Outcomes
      /\ "case" \in Deeds /\ "class" \in Deeds /\ "codes" \in Deeds
  BY DEF Deeds, Outcomes
<1>2. \A deed \in Deeds : done[deed] \subseteq done[deed]
  OBVIOUS
<1>3. done \in [Deeds -> SUBSET Questions]
  BY QuestionTyped
<1>4. CASE Decline(w)
  BY <1>1, <1>2, <1>3, <1>4, ReturnsKeeps DEF Decline
<1>5. CASE Review(w)
  BY <1>1, <1>2, <1>3, <1>5, ReturnsKeeps, GoesKeeps DEF Review
<1>6. CASE OpenCase(w)
  <2>1. asking[w].pc = "opening" /\ Did("case", asking[w].n) /\ Returns(w, "completed", {"case"})
    BY <1>6 DEF OpenCase
  <2>2. QED
    BY <1>1, <1>6, <2>1, DidAdds, ReturnsKeeps DEF OpenCase
<1>7. CASE Schedule(w)
  <2>1. CASE Did("class", asking[w].n) /\ Goes(w, "sending")
    BY <1>1, <1>7, <2>1, DidAdds, GoesKeeps DEF Schedule
  <2>2. CASE Returns(w, "blocked", {}) /\ UNCHANGED done
    BY <1>1, <1>2, <1>3, <1>7, <2>2, ReturnsKeeps DEF Schedule
  <2>3. QED
    BY <1>7, <2>1, <2>2 DEF Schedule
<1>8. CASE SendRemedialCode(w)
  <2>1. asking[w].pc = "sending" /\ asking[w].n \in done["class"]
    BY <1>8 DEF SendRemedialCode, CopilotInv, MirrorsAhead
  <2>2. CASE Did("codes", asking[w].n) /\ Returns(w, "completed", {"class", "codes"})
    <3>1. /\ done' \in [Deeds -> SUBSET Questions]
          /\ \A deed \in Deeds : done[deed] \subseteq done'[deed]
          /\ asking[w].n \in done'["codes"]
      BY <1>1, <2>1, <2>2, DidAdds
    <3>2. asking[w].n \in done'["class"]
      BY <1>1, <2>1, <3>1
    <3>3. QED
      BY <1>1, <1>8, <2>1, <2>2, <3>1, <3>2, ReturnsKeeps DEF SendRemedialCode
  <2>3. CASE Returns(w, "completed", {"class"}) /\ UNCHANGED done
    BY <1>1, <1>2, <1>3, <1>8, <2>1, <2>3, ReturnsKeeps DEF SendRemedialCode
  <2>4. QED
    BY <1>8, <2>2, <2>3 DEF SendRemedialCode
<1>9. CASE Fails(w)
  <2>1. PICK broken \in BOOLEAN : Put(w, [asking[w] EXCEPT !.pc = "mirroring", !.broken = broken,
                                                 !.claim = [outcome |-> "failed", did |-> {}]])
    BY <1>9 DEF Fails
  <2> DEFINE claim == [outcome |-> "failed", did |-> {}]
             q == [asking[w] EXCEPT !.pc = "mirroring", !.broken = broken, !.claim = claim]
  <2>2. claim \in Claim
    BY <1>1 DEF Claim
  <2>3. q \in Asking
    BY <2>2, QuestionTyped DEF Asking
  <2>4. q.pc = "mirroring" /\ q.n = asking[w].n /\ q.claim.did = {}
    BY QuestionTyped DEF Asking
  <2>5. mishaps' \in 0..MaxFaults /\ asking[w].pc # "idle"
        /\ UNCHANGED <<asked, mirror, done, settled, log, rated, answers>>
    BY <1>9, QuestionTyped DEF Fails
  <2> HIDE DEF q
  <2>6. QED
    BY <1>2, <1>3, <2>1, <2>3, <2>4, <2>5, GoesOn DEF q
<1>10. QED
  BY <1>4, <1>5, <1>6, <1>7, <1>8, <1>9

LEMMA LookForMirrorKeeps == ASSUME CopilotInv, NEW w \in Askers, LookForMirror(w) PROVE CopilotInv'
<1>1. asking[w].pc # "idle" /\ UNCHANGED <<asked, settled, rated, mishaps>> /\ mishaps' \in 0..MaxFaults
  BY QuestionTyped DEF LookForMirror
<1>2. CASE AnswerUnlogged(w)
  BY <1>1, <1>2, UnloggedKeeps
<1>3. CASE /\ Goes(w, IF mirror THEN "logging" ELSE "inserting")
           /\ UNCHANGED <<mirror, done, log, answers>>
  <2>1. done \in [Deeds -> SUBSET Questions]
    BY QuestionTyped
  <2>2. CASE mirror
    BY <1>1, <1>3, <2>1, <2>2, GoesKeeps
  <2>3. CASE ~mirror
    BY <1>1, <1>3, <2>1, <2>3, GoesKeeps
  <2>4. QED
    BY <2>2, <2>3
<1>4. QED
  BY <1>2, <1>3 DEF LookForMirror

LEMMA InsertMirrorKeeps == ASSUME CopilotInv, NEW w \in Askers, InsertMirror(w) PROVE CopilotInv'
<1>1. asking[w].pc # "idle" /\ UNCHANGED <<asked, settled, rated, mishaps>> /\ mishaps' \in 0..MaxFaults
  BY QuestionTyped DEF InsertMirror
<1>2. CASE AnswerUnlogged(w)
  BY <1>1, <1>2, UnloggedKeeps
<1>3. CASE /\ Put(w, [asking[w] EXCEPT !.pc = "logging", !.unsaved = @ \cup {"mirror"}])
           /\ UNCHANGED <<mirror, done, log, answers>>
  <2> DEFINE q == [asking[w] EXCEPT !.pc = "logging", !.unsaved = @ \cup {"mirror"}]
  <2>1. q \in Asking /\ q.pc = "logging" /\ q.n = asking[w].n /\ q.claim = asking[w].claim
        /\ "mirror" \in q.unsaved
    BY QuestionTyped DEF Asking
  <2>2. \A deed \in q.claim.did : q.n \in done'[deed]
    BY <1>3, <2>1, QuestionTyped
  <2>3. done' \in [Deeds -> SUBSET Questions] /\ \A deed \in Deeds : done[deed] \subseteq done'[deed]
    BY <1>3, QuestionTyped
  <2>4. Put(w, q)
    BY <1>3
  <2> HIDE DEF q
  <2>5. QED
    BY <1>1, <1>3, <2>1, <2>2, <2>3, <2>4, GoesOn
<1>4. QED
  BY <1>2, <1>3 DEF InsertMirror

LEMMA LogAnswerKeeps == ASSUME CopilotInv, NEW w \in Askers, LogAnswer(w) PROVE CopilotInv'
<1>1. /\ asking[w].pc = "logging" /\ mirror' = (mirror \/ "mirror" \in asking[w].unsaved)
      /\ log' = [log EXCEPT ![asking[w].n] = asking[w].claim]
      /\ UNCHANGED <<asked, settled, rated>>
  BY DEF LogAnswer
<1>2. mirror' \in BOOLEAN /\ (mirror => mirror') /\ mirror'
  BY <1>1, Zenon DEF CopilotInv, MirrorsAhead
<1>3. done' \in [Deeds -> SUBSET Questions] /\ \A deed \in Deeds : done[deed] \subseteq done'[deed]
  <2>1. done' = [x \in Deeds |-> IF x \in asking[w].unsaved THEN done[x] \cup {asking[w].n} ELSE done[x]]
    BY DEF LogAnswer
  <2>2. QED
    BY <1>1, <2>1, QuestionTyped
<1>4. mishaps' \in 0..MaxFaults /\ \E row \in BOOLEAN : GiveAnswer(w, row)
  BY QuestionTyped DEF LogAnswer
<1>5. QED
  BY <1>1, <1>2, <1>3, <1>4, Ends

LEMMA AuditFailsKeeps == ASSUME CopilotInv, NEW w \in Askers, AuditFails(w) PROVE CopilotInv'
<1>1. /\ asking[w].pc # "idle" /\ AnswerUnlogged(w) /\ mishaps' \in 0..MaxFaults
      /\ UNCHANGED <<asked, settled, rated>>
  BY QuestionTyped DEF AuditFails
<1>2. QED
  BY <1>1, UnloggedKeeps

LEMMA InitKeeps == CopilotInit => CopilotInv
<1> SUFFICES ASSUME CopilotInit PROVE CopilotInv
  OBVIOUS
<1>1. NoQuestion \in Asking /\ NoQuestion.pc = "idle" /\ NoQuestion.claim.did = {}
  BY Constants DEF NoQuestion, Question, NoClaim, Asking
<1>2. NoClaim.did = {} /\ [claim |-> NoClaim, row |-> FALSE] \in [claim : Claim \cup {NoClaim}, row : BOOLEAN]
  BY DEF NoClaim
<1>3. asked \in 0..MaxQuestions /\ mishaps \in 0..MaxFaults
  BY Constants DEF CopilotInit
<1>4. CopilotTypeOK
  BY <1>1, <1>2, <1>3 DEF CopilotInit, CopilotTypeOK
<1>5. QED
  BY <1>1, <1>2, <1>4 DEF CopilotInit, CopilotInv, ClaimsHold, MirrorsAhead, AnswersMatch

LEMMA CopilotInvStep == CopilotInv /\ [CopilotNext]_copilotVars => CopilotInv'
<1> SUFFICES ASSUME CopilotInv, [CopilotNext]_copilotVars PROVE CopilotInv'
  OBVIOUS
<1>1. ASSUME NEW n \in Questions, Rate(n) PROVE CopilotInv'
  BY <1>1 DEF Rate, CopilotInv, CopilotTypeOK, ClaimsHold, MirrorsAhead, AnswersMatch
<1>2. ASSUME CloseCase PROVE CopilotInv'
  <2>1. PICK n \in done["case"] : settled' = settled \cup {n}
    BY <1>2 DEF CloseCase
  <2>2. n \in Questions
    BY <2>1 DEF CopilotInv, CopilotTypeOK, Deeds
  <2>3. QED
    BY <1>2, <2>1, <2>2 DEF CloseCase, CopilotInv, CopilotTypeOK, ClaimsHold, MirrorsAhead, AnswersMatch
<1>3. ASSUME UNCHANGED copilotVars PROVE CopilotInv'
  BY <1>3 DEF copilotVars, CopilotInv, CopilotTypeOK, ClaimsHold, MirrorsAhead, AnswersMatch
<1>4. QED
  BY <1>1, <1>2, <1>3, AskKeeps, HandlerKeeps, LookForMirrorKeeps, InsertMirrorKeeps,
     LogAnswerKeeps, AuditFailsKeeps DEF CopilotNext

LEMMA ClaimsAreKept == CopilotInv => AnswerIsKept
  BY DEF CopilotInv, ClaimsHold, MirrorsAhead, AnswersMatch, AnswerIsKept

\* What is claimed was done, in every behaviour.
THEOREM AnswerIsKeptAlways == CopilotSpec => []AnswerIsKept
  BY InitKeeps, CopilotInvStep, ClaimsAreKept, PTL DEF CopilotSpec

(***************************************************************************)
(* Saarthi                                                                 *)
(***************************************************************************)

\* Only one request holds the Sunday's record at a time, so what it found of the ledger is
\* still so when it commits; a request that credits the session holds the event with it.

SaarthiSpec == SaarthiInit /\ [][SaarthiNext]_saarthiVars

\* The record of the Sunday is its latest event.
LedgerKept ==
  /\ ledger \in Seq(AttendanceEvents)
  /\ record = IF ledger = <<>> THEN "none" ELSE Last(ledger)

\* A request under way, against the ledger and the session as they are now.
RequestFits(req) ==
  /\ req.at \in {"look", "write"} \/ "record" \in req.holds => req.event \in OwnEvents
  /\ req.at \in {"session", "join"} => "session" \notin req.holds
  /\ req.at # "look" /\ req.known => req.event \in ToSet(ledger)
  /\ "record" \in req.holds /\ req.at \notin {"look", "write"} /\ ~req.known =>
       req.event \notin ToSet(ledger)
  /\ req.event = "present" => session = "credited" \/ ("session" \in req.holds /\ Awards(req))
  /\ "session" \in req.holds /\ Awards(req) =>
       /\ req.event = "present"
       /\ req.at \in {"reply", "end"} => "record" \in req.holds
  /\ req.event = "absent" => req.day = "after" /\ ~req.credited
  /\ "record" \in req.holds /\ req.event = "absent" /\ session = "credited" => late

RequestsFit ==
  /\ request \in [SaarthiRequests -> SaarthiRequest]
  /\ \A q \in SaarthiRequests : RequestFits(request[q])
  /\ \A p, q \in SaarthiRequests :
       "record" \in request[p].holds /\ "record" \in request[q].holds => p = q

SaarthiInv ==
  /\ session \in {"none", "open", "credited"} /\ late \in BOOLEAN /\ day \in Days
  /\ LedgerKept /\ RequestsFit /\ CreditHolds

LEMMA Appending ==
  ASSUME NEW S, NEW s \in Seq(S), NEW x \in S
  PROVE  /\ Append(s, x) \in Seq(S) /\ Append(s, x) # <<>> /\ Last(Append(s, x)) = x
         /\ ToSet(Append(s, x)) = ToSet(s) \cup {x}
         /\ DOMAIN s = 1..Len(s) /\ DOMAIN Append(s, x) = 1..(Len(s) + 1) /\ Len(s) \in Nat
         /\ \A i \in 1..Len(s) : Append(s, x)[i] = s[i]
         /\ Append(s, x)[Len(s) + 1] = x
<1>1. /\ Append(s, x) \in Seq(S) /\ Len(Append(s, x)) = Len(s) + 1
      /\ \A i \in 1..Len(s) : Append(s, x)[i] = s[i]
      /\ Append(s, x)[Len(s) + 1] = x /\ Append(s, x) # <<>>
  BY AppendProperties
<1>2. DOMAIN s = 1..Len(s) /\ DOMAIN Append(s, x) = 1..(Len(s) + 1) /\ Len(s) \in Nat
  BY <1>1, LenProperties
<1>3. ToSet(Append(s, x)) = ToSet(s) \cup {x}
  BY <1>1, <1>2 DEF ToSet
<1>4. Last(Append(s, x)) = x
  BY <1>1 DEF Last
<1>5. QED
  BY <1>1, <1>2, <1>3, <1>4

LEMMA LastTyped ==
  ASSUME NEW S, NEW s \in Seq(S), s # <<>>
  PROVE  Last(s) \in S /\ Last(s) \in ToSet(s)
<1>1. DOMAIN s = 1..Len(s) /\ Len(s) \in Nat /\ Len(s) >= 1
  BY LenProperties, EmptySeq
<1>2. QED
  BY <1>1 DEF Last, ToSet

LEMMA AtRestFits == AtRest \in SaarthiRequest /\ RequestFits(AtRest) /\ AtRest.holds = {}
<1>1. AtRest \in SaarthiRequest
  BY DEF AtRest, SaarthiRequest, Days, SaidWords, OwnEvents, Rows
<1>2. QED
  BY <1>1 DEF AtRest, RequestFits, Awards

LEMMA SaarthiInvInit == SaarthiInit => SaarthiInv
<1> SUFFICES ASSUME SaarthiInit PROVE SaarthiInv
  OBVIOUS
<1>1. ledger = <<>> /\ record = "none" /\ ToSet(ledger) = {} /\ DOMAIN ledger = {}
  BY DEF SaarthiInit, ToSet
<1>2. LedgerKept /\ CreditHolds
  BY <1>1 DEF SaarthiInit, LedgerKept, CreditHolds
<1>3. RequestsFit
  BY AtRestFits DEF SaarthiInit, RequestsFit
<1>4. QED
  BY <1>2, <1>3 DEF SaarthiInit, SaarthiInv, Days

\* One request moves on and nothing is committed.
LEMMA MovesOn ==
  ASSUME SaarthiInv, NEW r \in SaarthiRequests, NEW next \in SaarthiRequest, Step(r, next),
         UNCHANGED <<day, session, ledger, record, late>>, RequestFits(next),
         "record" \in next.holds =>
           \A q \in SaarthiRequests \ {r} : "record" \notin request[q].holds
  PROVE  SaarthiInv'
<1>1. request' = [request EXCEPT ![r] = next] /\ RequestsFit
  BY DEF Step, SaarthiInv
<1>2. /\ request' \in [SaarthiRequests -> SaarthiRequest]
      /\ request'[r] = next /\ \A q \in SaarthiRequests \ {r} : request'[q] = request[q]
  BY <1>1 DEF RequestsFit
<1>3. ASSUME NEW q \in SaarthiRequests PROVE RequestFits(request[q])'
  <2>1. PICK e : e = request'[q]
    OBVIOUS
  <2>2. RequestFits(e)
    BY <1>1, <1>2, <2>1 DEF RequestsFit
  <2>3. QED
    BY <2>1, <2>2 DEF RequestFits, Awards
<1>4. \A p, q \in SaarthiRequests :
        "record" \in request'[p].holds /\ "record" \in request'[q].holds => p = q
  BY <1>1, <1>2 DEF RequestsFit
<1>5. QED
  BY <1>2, <1>3, <1>4 DEF SaarthiInv, RequestsFit, LedgerKept, CreditHolds

\* What a request is asked to write is what is missing.
LEMMA BeginFits ==
  ASSUME SaarthiInv, NEW r \in SaarthiRequests, NEW kind \in {"page", "status", "reset", "turn"},
         NEW words \in SaidWords, Begin(r, kind, words)
  PROVE  SaarthiInv'
<1> DEFINE event == IF ShouldMaterialise(kind) THEN Desired(Through(kind)) ELSE "none"
           req == [AtRest EXCEPT !.kind = kind, !.day = day, !.words = words,
                              !.credited = (session = "credited"), !.event = event]
           after == IF event = "none" THEN AfterWrite(req) ELSE "look"
           next == [req EXCEPT !.at = after]
<1>1. /\ Step(r, next)
      /\ UNCHANGED <<day, session, ledger, record, late>>
  BY DEF Begin
<1>2. /\ event \in OwnEvents \cup {"none"}
      /\ event = "present" => session = "credited"
      /\ event = "absent" => session # "credited" /\ day = "after"
  BY DEF Desired, Through, OwnEvents
<1> HIDE DEF event
<1>3. req \in SaarthiRequest /\ req.kind = kind
  BY <1>2, AtRestFits DEF SaarthiInv, SaarthiRequest
<1>31. AfterWrite(req) \in {"session", "end"}
  BY DEF AfterWrite
<1>4. /\ req.at = "idle" /\ req.holds = {} /\ ~req.known /\ req.event = event /\ req.day = day
      /\ req.credited = (session = "credited")
  BY DEF AtRest
<1>5. after \in {"session", "end", "look"} /\ (after = "look" <=> event # "none")
  BY <1>31
<1> HIDE DEF req, after
<1>6. /\ next \in SaarthiRequest /\ next.holds = {} /\ ~next.known /\ next.event = event
      /\ next.day = day /\ next.credited = (session = "credited") /\ next.at = after
  BY <1>3, <1>4, <1>5 DEF SaarthiRequest
<1> HIDE DEF next
<1>7. RequestFits(next)
  BY <1>2, <1>5, <1>6 DEF RequestFits
<1>8. QED
  BY <1>1, <1>6, <1>7, MovesOn

LEMMA LookFits ==
  ASSUME SaarthiInv, NEW r \in SaarthiRequests, Look(r)
  PROVE  SaarthiInv'
<1> DEFINE req == request[r]
           found == record # "none"
           known == req.event \in ToSet(ledger)
           next == [req EXCEPT !.at = "write", !.record = found, !.known = known]
<1>1. Step(r, next) /\ UNCHANGED <<day, session, ledger, record, late>> /\ req.at = "look"
  BY DEF Look, OnlyRequest
<1>2. req \in SaarthiRequest /\ RequestFits(req) /\ found \in BOOLEAN /\ known \in BOOLEAN
  BY DEF SaarthiInv, RequestsFit
<1>3. "record" \in req.holds => \A q \in SaarthiRequests \ {r} : "record" \notin request[q].holds
  BY DEF SaarthiInv, RequestsFit
<1>4. known => req.event \in ToSet(ledger)
  OBVIOUS
<1> HIDE DEF req, found, known
<1>5. /\ next \in SaarthiRequest /\ next.at = "write" /\ next.known = known
      /\ next.holds = req.holds /\ next.event = req.event /\ next.day = req.day
      /\ next.credited = req.credited /\ Awards(next) = Awards(req)
  BY <1>2 DEF SaarthiRequest, Awards
<1> HIDE DEF next
<1>6. RequestFits(next)
  BY <1>1, <1>2, <1>4, <1>5 DEF RequestFits
<1>7. QED
  BY <1>1, <1>3, <1>5, <1>6, MovesOn

LEMMA WriteFits ==
  ASSUME SaarthiInv, NEW r \in SaarthiRequests, WriteEvent(r)
  PROVE  SaarthiInv'
<1> DEFINE req == request[r]
           after == IF "session" \in req.holds THEN "reply" ELSE AfterWrite(req)
           next == [req EXCEPT !.at = after, !.holds = req.holds \cup {"record"}]
<1>1. /\ UNCHANGED <<day, session, ledger, record>> /\ req.at = "write"
      /\ \A q \in SaarthiRequests \ {r} : "record" \notin request[q].holds
  BY DEF WriteEvent, OnlyRequest, Held
<1>2. req \in SaarthiRequest /\ RequestFits(req)
  BY DEF SaarthiInv, RequestsFit
<1>3. CASE Collides(req)
  <2>1. Step(r, AtRest) /\ UNCHANGED late
    BY <1>3 DEF WriteEvent
  <2>2. QED
    BY <1>1, <2>1, AtRestFits, MovesOn
<1>4. CASE ~Collides(req)
  <2>1. /\ Step(r, next)
        /\ late' = (late \/ (req.event = "absent" /\ ~req.credited /\ session = "credited"))
    BY <1>4 DEF WriteEvent
  <2>2. ~req.known => req.event \notin ToSet(ledger)
    BY <1>4 DEF Collides
  <2>3. after \in {"reply", "session", "end"} /\ (after = "session" => "session" \notin req.holds)
        /\ ("session" \in req.holds => after = "reply")
    BY DEF AfterWrite
  <2> HIDE DEF req, after
  <2>4. /\ next \in SaarthiRequest /\ next.at = after /\ next.known = req.known
        /\ next.holds = req.holds \cup {"record"} /\ next.event = req.event /\ next.day = req.day
        /\ next.credited = req.credited /\ Awards(next) = Awards(req)
    BY <1>2, <2>3 DEF SaarthiRequest, Awards
  <2> HIDE DEF next
  <2>5. /\ request' = [request EXCEPT ![r] = next] /\ RequestsFit
        /\ late \in BOOLEAN /\ late' \in BOOLEAN /\ (late => late')
        /\ (req.event = "absent" /\ session = "credited" => late')
    BY <1>2, <2>1 DEF Step, SaarthiInv, RequestFits
  <2>6. /\ request' \in [SaarthiRequests -> SaarthiRequest]
        /\ request'[r] = next /\ \A q \in SaarthiRequests \ {r} : request'[q] = request[q]
    BY <2>4, <2>5 DEF RequestsFit
  <2>7. ASSUME NEW n, n = next PROVE RequestFits(n)'
    BY <1>1, <1>2, <2>2, <2>3, <2>4, <2>5, <2>7 DEF RequestFits, Awards
  <2>8. ASSUME NEW q \in SaarthiRequests PROVE RequestFits(request[q])'
    <3>1. CASE q = r
      <4>1. PICK e : e = request'[q] /\ e = next
        BY <2>6, <3>1
      <4>2. RequestFits(e)'
        BY <2>7, <4>1
      <4>3. QED
        BY <4>1, <4>2 DEF RequestFits, Awards
    <3>2. CASE q # r
      <4>1. PICK e : e = request'[q] /\ e = request[q]
        BY <2>6, <3>2
      <4>2. RequestFits(e)
        BY <2>5, <4>1 DEF RequestsFit
      <4>3. QED
        BY <1>1, <2>5, <4>1, <4>2 DEF RequestFits, Awards
    <3>3. QED
      BY <3>1, <3>2
  <2>9. \A p, q \in SaarthiRequests :
          "record" \in request'[p].holds /\ "record" \in request'[q].holds => p = q
    BY <1>1, <2>5, <2>6 DEF RequestsFit
  <2>10. LedgerKept' /\ CreditHolds'
    BY <1>1, <2>5 DEF SaarthiInv, LedgerKept, CreditHolds
  <2>11. QED
    BY <1>1, <2>5, <2>6, <2>8, <2>9, <2>10 DEF SaarthiInv, RequestsFit
<1>5. QED
  BY <1>3, <1>4

LEMMA FindFits ==
  ASSUME SaarthiInv, NEW r \in SaarthiRequests, FindSession(r)
  PROVE  SaarthiInv'
<1> DEFINE req == request[r]
           next == [req EXCEPT !.at = "join", !.found = session]
<1>1. Step(r, next) /\ UNCHANGED <<day, session, ledger, record, late>> /\ req.at = "session"
  BY DEF FindSession, OnlyRequest
<1>2. req \in SaarthiRequest /\ RequestFits(req)
  BY DEF SaarthiInv, RequestsFit
<1>3. "record" \in req.holds => \A q \in SaarthiRequests \ {r} : "record" \notin request[q].holds
  BY DEF SaarthiInv, RequestsFit
<1> HIDE DEF req
<1>4. /\ next \in SaarthiRequest /\ next.at = "join" /\ next.known = req.known
      /\ next.holds = req.holds /\ next.event = req.event /\ next.day = req.day
      /\ next.credited = req.credited
  BY <1>2 DEF SaarthiRequest, SaarthiInv
<1> HIDE DEF next
<1>5. RequestFits(next)
  BY <1>1, <1>2, <1>4 DEF RequestFits
<1>6. QED
  BY <1>1, <1>3, <1>4, <1>5, MovesOn

LEMMA JoinFits ==
  ASSUME SaarthiInv, NEW r \in SaarthiRequests, Join(r)
  PROVE  SaarthiInv'
<1> DEFINE req == request[r]
           joined == [req EXCEPT !.holds = req.holds \cup {"session"}]
           later == [req EXCEPT !.at = "reply"]
           awarded == [joined EXCEPT !.at = "look", !.event = "present"]
           talking == [joined EXCEPT !.at = "reply"]
<1>1. UNCHANGED <<day, session, ledger, record, late>> /\ req.at = "join"
  BY DEF Join, OnlyRequest
<1>2. req \in SaarthiRequest /\ RequestFits(req)
  BY DEF SaarthiInv, RequestsFit
<1>3. "record" \in req.holds => \A q \in SaarthiRequests \ {r} : "record" \notin request[q].holds
  BY DEF SaarthiInv, RequestsFit
<1>4. \/ req.day = "after" /\ Step(r, later)
      \/ Step(r, AtRest)
      \/ Awards(req) /\ Step(r, awarded)
      \/ ~Awards(req) /\ Step(r, talking)
  BY DEF Join
<1> HIDE DEF req
<1>5. /\ joined \in SaarthiRequest /\ joined.known = req.known
      /\ joined.holds = req.holds \cup {"session"} /\ joined.event = req.event
      /\ joined.day = req.day /\ joined.credited = req.credited
      /\ joined.kind = req.kind /\ joined.found = req.found
  BY <1>2 DEF SaarthiRequest
<1> HIDE DEF joined
<1>6. CASE req.day = "after" /\ Step(r, later)
  <2>1. /\ later \in SaarthiRequest /\ later.at = "reply" /\ later.known = req.known
        /\ later.holds = req.holds /\ later.event = req.event /\ later.day = req.day
        /\ later.credited = req.credited
    BY <1>2 DEF SaarthiRequest
  <2> HIDE DEF later
  <2>2. RequestFits(later)
    BY <1>1, <1>2, <2>1 DEF RequestFits
  <2>3. QED
    BY <1>1, <1>3, <1>6, <2>1, <2>2, MovesOn
<1>7. CASE Step(r, AtRest)
  BY <1>1, <1>7, AtRestFits, MovesOn
<1>8. CASE Awards(req) /\ Step(r, awarded)
  <2>1. /\ awarded \in SaarthiRequest /\ awarded.at = "look"
        /\ awarded.holds = req.holds \cup {"session"} /\ awarded.event = "present"
        /\ awarded.kind = req.kind /\ awarded.found = req.found /\ awarded.day = req.day
    BY <1>5 DEF SaarthiRequest, OwnEvents
  <2> HIDE DEF awarded
  <2>2. RequestFits(awarded)
    BY <1>8, <2>1 DEF RequestFits, Awards, OwnEvents
  <2>3. QED
    BY <1>1, <1>3, <1>8, <2>1, <2>2, MovesOn
<1>9. CASE ~Awards(req) /\ Step(r, talking)
  <2>1. /\ talking \in SaarthiRequest /\ talking.at = "reply" /\ talking.known = req.known
        /\ talking.holds = req.holds \cup {"session"} /\ talking.event = req.event
        /\ talking.kind = req.kind /\ talking.found = req.found /\ talking.day = req.day
        /\ talking.credited = req.credited
    BY <1>5 DEF SaarthiRequest
  <2> HIDE DEF talking
  <2>2. RequestFits(talking)
    BY <1>1, <1>2, <1>9, <2>1 DEF RequestFits, Awards
  <2>3. QED
    BY <1>1, <1>3, <1>9, <2>1, <2>2, MovesOn
<1>10. QED
  BY <1>4, <1>6, <1>7, <1>8, <1>9

LEMMA ReplyFits ==
  ASSUME SaarthiInv, NEW r \in SaarthiRequests, Reply(r)
  PROVE  SaarthiInv'
<1> DEFINE req == request[r]
           next(said) == [req EXCEPT !.at = "end", !.reply = said]
<1>1. UNCHANGED <<day, session, ledger, record, late>> /\ req.at = "reply"
  BY DEF Reply, OnlyRequest
<1>2. req \in SaarthiRequest /\ RequestFits(req)
  BY DEF SaarthiInv, RequestsFit
<1>3. "record" \in req.holds => \A q \in SaarthiRequests \ {r} : "record" \notin request[q].holds
  BY DEF SaarthiInv, RequestsFit
<1>4. \/ Step(r, AtRest)
      \/ \E said \in Rows : Step(r, next(said))
  <2>1. \A prior, words : CrisisReplies(prior, words) \subseteq Rows
    BY DEF CrisisReplies, Rows
  <2>2. req.reply \in Rows /\ next(req.reply) = [req EXCEPT !.at = "end"]
    BY <1>2 DEF SaarthiRequest
  <2>3. QED
    BY <2>1, <2>2 DEF Reply
<1> HIDE DEF req
<1>5. ASSUME NEW said \in Rows, Step(r, next(said)) PROVE SaarthiInv'
  <2> DEFINE n == next(said)
  <2>1. /\ n \in SaarthiRequest /\ n.at = "end" /\ n.known = req.known
        /\ n.holds = req.holds /\ n.event = req.event /\ n.kind = req.kind /\ n.found = req.found
        /\ n.day = req.day /\ n.credited = req.credited
    BY <1>2 DEF SaarthiRequest
  <2> HIDE DEF n
  <2>2. RequestFits(n)
    BY <1>1, <1>2, <2>1 DEF RequestFits, Awards
  <2>3. Step(r, n)
    BY <1>5 DEF n
  <2>4. QED
    BY <1>1, <1>3, <2>1, <2>2, <2>3, MovesOn
<1>6. QED
  BY <1>1, <1>4, <1>5, AtRestFits, MovesOn

\* The event is appended unless it is there already, and is the latest one then.
LEMMA Recorded ==
  ASSUME SaarthiInv, NEW event \in AttendanceEvents, NEW known \in BOOLEAN,
         known => event \in ToSet(ledger),
         ~known /\ event = "present" => event \notin ToSet(ledger),
         ledger' = IF known THEN ledger ELSE Append(ledger, event),
         record' = Last(ledger')
  PROVE  /\ LedgerKept' /\ ToSet(ledger') = ToSet(ledger) \cup {event}
         /\ known => record' = record
         /\ ~known => record' = event
         /\ \A i, j \in DOMAIN ledger' : ledger'[i] = "present" /\ ledger'[j] = "present" => i = j
<1>1. /\ LedgerKept /\ ledger \in Seq(AttendanceEvents)
      /\ \A i, j \in DOMAIN ledger : ledger[i] = "present" /\ ledger[j] = "present" => i = j
  BY DEF SaarthiInv, LedgerKept, CreditHolds
<1>2. CASE known
  <2>1. ledger # <<>>
    BY <1>2 DEF ToSet
  <2>2. QED
    BY <1>1, <1>2, <2>1 DEF LedgerKept
<1>3. CASE ~known
  <2>1. /\ ledger' \in Seq(AttendanceEvents) /\ ledger' # <<>> /\ Last(ledger') = event
        /\ ToSet(ledger') = ToSet(ledger) \cup {event}
        /\ DOMAIN ledger = 1..Len(ledger) /\ DOMAIN ledger' = 1..(Len(ledger) + 1)
        /\ Len(ledger) \in Nat
        /\ \A i \in 1..Len(ledger) : ledger'[i] = ledger[i]
        /\ ledger'[Len(ledger) + 1] = event
    BY <1>1, <1>3, Appending
  <2>2. \A i \in DOMAIN ledger : ledger[i] \in ToSet(ledger)
    BY DEF ToSet
  <2>3. ASSUME NEW i \in DOMAIN ledger', NEW j \in DOMAIN ledger',
               ledger'[i] = "present", ledger'[j] = "present"
        PROVE  i = j
    <3>1. CASE event = "present"
      <4>1. ASSUME NEW k \in 1..Len(ledger) PROVE ledger'[k] # "present"
        BY <1>3, <2>1, <2>2, <3>1
      <4>2. i = Len(ledger) + 1 /\ j = Len(ledger) + 1
        BY <2>1, <2>3, <4>1
      <4>3. QED
        BY <4>2
    <3>2. CASE event # "present"
      <4>1. i \in 1..Len(ledger) /\ j \in 1..Len(ledger)
        BY <2>1, <2>3, <3>2
      <4>2. QED
        BY <1>1, <2>1, <2>3, <4>1
    <3>3. QED
      BY <3>1, <3>2
  <2>4. QED
    BY <1>3, <2>1, <2>3 DEF LedgerKept
<1>4. QED
  BY <1>2, <1>3

LEMMA CommitFits ==
  ASSUME SaarthiInv, NEW r \in SaarthiRequests, Commit(r)
  PROVE  SaarthiInv'
<1> DEFINE req == request[r]
           writes == "record" \in req.holds
           awards == "session" \in req.holds /\ Awards(req)
<1>1. Step(r, AtRest) /\ UNCHANGED <<day, late>> /\ req.at = "end"
  BY DEF Commit
<1>2. RequestFits(req) /\ req \in SaarthiRequest /\ RequestsFit /\ CreditHolds /\ LedgerKept
  BY DEF SaarthiInv, RequestsFit
<1>3. /\ writes => /\ ledger' = IF req.known THEN ledger ELSE Append(ledger, req.event)
                   /\ record' = Last(ledger')
      /\ ~writes => ledger' = ledger /\ record' = record
  BY DEF Commit, Appended
<1>4. /\ session' \in {"none", "open", "credited"}
      /\ session = "credited" => session' = "credited"
      /\ session' = "credited" => session = "credited" \/ awards
      /\ awards => session' = "credited"
  BY DEF Commit, SaarthiInv
<1>5. /\ awards => writes /\ req.event = "present"
      /\ writes => req.event \in OwnEvents
      /\ req.known => req.event \in ToSet(ledger)
      /\ writes /\ ~req.known => req.event \notin ToSet(ledger)
      /\ req.event = "present" => session = "credited" \/ awards
      /\ writes /\ req.event = "absent" /\ session = "credited" => late
  BY <1>1, <1>2 DEF RequestFits
<1>6. /\ session = "credited" <=> "present" \in ToSet(ledger)
      /\ session = "credited" => late \/ record \in StaffEvents \cup {"present"}
      /\ \A i, j \in DOMAIN ledger : ledger[i] = "present" /\ ledger[j] = "present" => i = j
  BY <1>2 DEF CreditHolds
<1>7. /\ request' \in [SaarthiRequests -> SaarthiRequest]
      /\ request'[r] = AtRest /\ \A q \in SaarthiRequests \ {r} : request'[q] = request[q]
  BY <1>1, <1>2, AtRestFits DEF Step, RequestsFit
<1>8. writes => \A q \in SaarthiRequests \ {r} : "record" \notin request[q].holds
  BY <1>2 DEF RequestsFit
<1>9. req.known \in BOOLEAN
  BY <1>2 DEF SaarthiRequest
<1> HIDE DEF req, writes, awards
<1>10. /\ LedgerKept'
       /\ ToSet(ledger') = ToSet(ledger) \cup (IF writes THEN {req.event} ELSE {})
       /\ writes /\ req.known => record' = record
       /\ writes /\ ~req.known => record' = req.event
       /\ \A i, j \in DOMAIN ledger' : ledger'[i] = "present" /\ ledger'[j] = "present" => i = j
  <2>1. CASE writes
    <3>1. req.event \in AttendanceEvents
      BY <1>5, <2>1 DEF AttendanceEvents
    <3>2. QED
      BY <1>3, <1>5, <1>9, <2>1, <3>1, Recorded
  <2>2. CASE ~writes
    BY <1>2, <1>3, <1>6, <2>2 DEF LedgerKept
  <2>3. QED
    BY <2>1, <2>2
<1>11. session' = "credited" <=> "present" \in ToSet(ledger')
  BY <1>4, <1>5, <1>6, <1>10
<1>12. session' = "credited" => late' \/ record' \in StaffEvents \cup {"present"}
  BY <1>1, <1>3, <1>4, <1>5, <1>6, <1>10 DEF OwnEvents
<1>13. CreditHolds'
  BY <1>10, <1>11, <1>12 DEF CreditHolds
<1>14. ASSUME NEW q \in SaarthiRequests PROVE RequestFits(request[q])'
  <2>1. CASE q = r
    <3>1. PICK e : e = request'[q] /\ e = AtRest
      BY <1>7, <2>1
    <3>2. RequestFits(e)'
      BY <3>1 DEF RequestFits, AtRest, Awards
    <3>3. QED
      BY <3>1, <3>2 DEF RequestFits, Awards
  <2>2. CASE q # r
    <3>1. PICK e : e = request'[q] /\ e = request[q]
      BY <1>7, <2>2
    <3>2. RequestFits(e) /\ ("record" \in e.holds => ~writes)
      BY <1>2, <1>8, <2>2, <3>1 DEF RequestsFit
    <3>3. RequestFits(e)'
      BY <1>1, <1>3, <1>4, <1>5, <1>10, <3>2 DEF RequestFits, Awards
    <3>4. QED
      BY <3>1, <3>3 DEF RequestFits, Awards
  <2>3. QED
    BY <2>1, <2>2
<1>15. \A p, q \in SaarthiRequests :
         "record" \in request'[p].holds /\ "record" \in request'[q].holds => p = q
  BY <1>2, <1>7, AtRestFits DEF RequestsFit
<1>16. late' \in BOOLEAN /\ day' \in Days
  BY <1>1 DEF SaarthiInv
<1>17. QED
  BY <1>4, <1>7, <1>10, <1>13, <1>14, <1>15, <1>16 DEF SaarthiInv, RequestsFit

LEMMA FacultyFits ==
  ASSUME SaarthiInv, NEW event \in StaffEvents, FacultyMarks(event)
  PROVE  SaarthiInv'
<1>1. /\ UNCHANGED <<day, session, request, late>>
      /\ \A q \in SaarthiRequests : "record" \notin request[q].holds
      /\ ledger' = Append(ledger, event) /\ record' = event
  BY DEF FacultyMarks
<1>2. ledger \in Seq(AttendanceEvents) /\ event \in AttendanceEvents /\ event # "present"
  BY DEF SaarthiInv, LedgerKept, AttendanceEvents, StaffEvents
<1>3. Last(ledger') = event
  BY <1>1, <1>2, Appending
<1>4. /\ LedgerKept' /\ ToSet(ledger') = ToSet(ledger) \cup {event}
      /\ \A i, j \in DOMAIN ledger' : ledger'[i] = "present" /\ ledger'[j] = "present" => i = j
  BY <1>1, <1>2, <1>3, Recorded
<1>5. CreditHolds'
  BY <1>1, <1>2, <1>4 DEF SaarthiInv, CreditHolds
<1>6. ASSUME NEW q \in SaarthiRequests PROVE RequestFits(request[q])'
  <2>1. PICK e : e = request[q] /\ e = request'[q]
    BY <1>1
  <2>2. RequestFits(e) /\ "record" \notin e.holds
    BY <1>1, <2>1 DEF SaarthiInv, RequestsFit
  <2>3. RequestFits(e)'
    BY <1>1, <1>4, <2>2 DEF RequestFits, Awards
  <2>4. QED
    BY <2>1, <2>3 DEF RequestFits, Awards
<1>7. QED
  BY <1>1, <1>4, <1>5, <1>6 DEF SaarthiInv, RequestsFit

LEMMA SaarthiInvStep == SaarthiInv /\ [SaarthiNext]_saarthiVars => SaarthiInv'
<1> SUFFICES ASSUME SaarthiInv, [SaarthiNext]_saarthiVars PROVE SaarthiInv'
  OBVIOUS
<1>1. ASSUME UNCHANGED <<session, ledger, record, request, late>>, day' \in Days
      PROVE  SaarthiInv'
  <2>1. ASSUME NEW q \in SaarthiRequests PROVE RequestFits(request[q])'
    BY <1>1 DEF SaarthiInv, RequestsFit, RequestFits, Awards
  <2>2. QED
    BY <1>1, <2>1 DEF SaarthiInv, RequestsFit, LedgerKept, CreditHolds
<1>2. CASE NextDay
  BY <1>1, <1>2 DEF NextDay, Days
<1>3. CASE UNCHANGED saarthiVars
  BY <1>1, <1>3 DEF saarthiVars, SaarthiInv
<1>4. ASSUME NEW r \in SaarthiRequests, NEW kind \in {"page", "status", "reset"}, Begin(r, kind, "plain")
      PROVE  SaarthiInv'
  BY <1>4, BeginFits DEF SaidWords
<1>5. ASSUME NEW r \in SaarthiRequests, NEW words \in SaidWords, Begin(r, "turn", words)
      PROVE  SaarthiInv'
  BY <1>5, BeginFits
<1>6. ASSUME NEW r \in SaarthiRequests,
             Look(r) \/ WriteEvent(r) \/ FindSession(r) \/ Join(r) \/ Reply(r) \/ Commit(r)
      PROVE  SaarthiInv'
  BY <1>6, LookFits, WriteFits, FindFits, JoinFits, ReplyFits, CommitFits
<1>7. ASSUME NEW event \in StaffEvents, FacultyMarks(event) PROVE SaarthiInv'
  BY <1>7, FacultyFits
<1>8. QED
  BY <1>2, <1>3, <1>4, <1>5, <1>6, <1>7 DEF SaarthiNext

\* CreditHolds is an invariant: a Sunday is credited once and only with its event, and
\* stays recorded as present unless the faculty or a request that came too early says
\* otherwise, for any number of requests that overlap, fail or come late
\* (materialize_saarthi_attendance, create_saarthi_turn).
THEOREM CreditHoldsAlways == SaarthiSpec => []CreditHolds
<1>1. SaarthiSpec => []SaarthiInv
  BY SaarthiInvInit, SaarthiInvStep, PTL DEF SaarthiSpec
<1>2. SaarthiInv => CreditHolds
  BY DEF SaarthiInv
<1>3. QED
  BY <1>1, <1>2, PTL

\* What a student says and is told is kept up to the messages a reply looks back on.
TalkKept ==
  /\ inCourse \in BOOLEAN
  /\ chat \in Seq(Rows) /\ Len(chat) <= ChatRows
  /\ talks \in 0..MaxTalk /\ sundayMarks \in 0..MaxSundayMarks

SaarthiKept == SaarthiInv /\ TalkKept

LEMMA LatestRows ==
  ASSUME NEW S, NEW rows \in Seq(S), NEW n \in Nat \ {0}
  PROVE  Latest(rows, n) \in Seq(S) /\ Len(Latest(rows, n)) <= n
<1> DEFINE first == IF Len(rows) > n THEN Len(rows) - n + 1 ELSE 1
<1>1. Len(rows) \in Nat
  BY LenProperties
<1>2. first \in 1..(Len(rows) + 1) /\ first \in Nat /\ Len(rows) - first + 1 <= n
      /\ (first <= Len(rows) \/ Len(rows) = 0)
  BY <1>1
<1> HIDE DEF first
<1>3. Latest(rows, n) = SubSeq(rows, first, Len(rows))
  BY DEF Latest, first
<1>4. SubSeq(rows, first, Len(rows)) \in Seq(S)
      /\ Len(SubSeq(rows, first, Len(rows))) = IF first <= Len(rows) THEN Len(rows) - first + 1 ELSE 0
  BY <1>1, <1>2, SubSeqProperties
<1>5. QED
  BY <1>1, <1>2, <1>3, <1>4

LEMMA EmptyKept == ASSUME NEW S, NEW s, s = <<>> PROVE s \in Seq(S) /\ Len(s) = 0
  BY EmptySeq

LEMMA SaarthiKeptTyped == SaarthiKept => SaarthiTypeOK
<1> SUFFICES ASSUME SaarthiKept PROVE SaarthiTypeOK
  OBVIOUS
<1>1. /\ ledger \in Seq(AttendanceEvents) /\ ToSet(ledger) \subseteq AttendanceEvents
      /\ record = IF ledger = <<>> THEN "none" ELSE Last(ledger)
  BY LenProperties DEF SaarthiKept, SaarthiInv, LedgerKept, ToSet
<1>2. record \in AttendanceEvents \cup {"none"}
  BY <1>1, LastTyped
<1>3. ToSet(chat) \subseteq Rows /\ Len(chat) <= ChatRows
  BY LenProperties DEF SaarthiKept, TalkKept, ToSet
<1>4. QED
  BY <1>1, <1>2, <1>3 DEF SaarthiKept, TalkKept, SaarthiInv, RequestsFit, SaarthiTypeOK

LEMMA SaarthiKeptInit == SaarthiInit => SaarthiKept
<1> SUFFICES ASSUME SaarthiInit PROVE TalkKept
  BY SaarthiInvInit DEF SaarthiKept
<1>1. chat \in Seq(Rows) /\ Len(chat) = 0
  BY EmptyKept DEF SaarthiInit
<1>2. ChatRows \in Nat /\ MaxTalk \in Nat /\ MaxSundayMarks \in Nat
  BY SaarthiAssumption
<1>3. inCourse = FALSE /\ talks = 0 /\ sundayMarks = 0
  BY DEF SaarthiInit
<1>4. Len(chat) <= ChatRows
  BY <1>1, <1>2
<1>5. inCourse \in BOOLEAN
  BY <1>3
<1>6. talks \in 0..MaxTalk /\ sundayMarks \in 0..MaxSundayMarks
  BY <1>2, <1>3
<1>7. QED
  BY <1>1, <1>4, <1>5, <1>6 DEF TalkKept

LEMMA TalkStep ==
  ASSUME SaarthiInv, TalkKept, SaarthiNext
  PROVE  TalkKept'
<1>0. MaxTalk \in Nat /\ MaxSundayMarks \in Nat /\ ChatRows \in Nat \ {0}
  BY SaarthiAssumption
<1>1. ASSUME NEW r \in SaarthiRequests, NEW kind, NEW words, Begin(r, kind, words) PROVE TalkKept'
  <2>1. talks < MaxTalk /\ talks' = talks + 1 /\ inCourse' \in BOOLEAN
    BY <1>1 DEF Begin, TalkKept
  <2>2. UNCHANGED <<chat, sundayMarks>>
    BY <1>1 DEF Begin
  <2>3. QED
    BY <1>0, <2>1, <2>2 DEF TalkKept
<1>2. ASSUME NEW r \in SaarthiRequests,
             Look(r) \/ WriteEvent(r) \/ FindSession(r) \/ Join(r) \/ Reply(r)
      PROVE  TalkKept'
  <2>1. UNCHANGED <<OnlyRequest, inCourse>>
    BY <1>2 DEF Look, WriteEvent, FindSession, Join, Reply
  <2>2. QED
    BY <2>1 DEF OnlyRequest, TalkKept
<1>3. ASSUME NEW r \in SaarthiRequests, Commit(r) PROVE TalkKept'
  <2> DEFINE req == request[r]
  <2>1. UNCHANGED <<inCourse, talks, sundayMarks>>
    BY <1>3 DEF Commit
  <2>2. req \in SaarthiRequest
    BY DEF SaarthiInv, RequestsFit
  <2>3. req.words \in Rows /\ req.reply \in Rows
    BY <2>2 DEF SaarthiRequest, SaidWords, Rows
  <2>4. chat' = chat \/ chat' = <<>> \/ chat' = Latest(chat \o <<req.words, req.reply>>, ChatRows)
    BY <1>3 DEF Commit
  <2> HIDE DEF req
  <2>5. <<req.words, req.reply>> \in Seq(Rows)
    BY <2>3
  <2>6. chat \o <<req.words, req.reply>> \in Seq(Rows)
    BY <2>5, ConcatProperties DEF TalkKept
  <2>7. chat' \in Seq(Rows) /\ Len(chat') <= ChatRows
    <3>1. CASE chat' = <<>>
      <4>1. chat' \in Seq(Rows) /\ Len(chat') = 0
        BY <3>1, EmptyKept
      <4>2. QED
        BY <1>0, <4>1
    <3>2. /\ Latest(chat \o <<req.words, req.reply>>, ChatRows) \in Seq(Rows)
          /\ Len(Latest(chat \o <<req.words, req.reply>>, ChatRows)) <= ChatRows
      BY <1>0, <2>6, LatestRows
    <3>3. QED
      BY <1>0, <2>4, <3>1, <3>2 DEF TalkKept
  <2>8. QED
    BY <2>1, <2>7 DEF TalkKept
<1>4. ASSUME NEW event \in StaffEvents, FacultyMarks(event) PROVE TalkKept'
  <2>1. /\ sundayMarks < MaxSundayMarks /\ sundayMarks' = sundayMarks + 1
        /\ UNCHANGED <<inCourse, chat, talks>>
    BY <1>4 DEF FacultyMarks
  <2>2. QED
    BY <1>0, <2>1 DEF TalkKept
<1>5. CASE NextDay
  BY <1>5 DEF NextDay, TalkKept
<1>6. QED
  BY <1>1, <1>2, <1>3, <1>4, <1>5 DEF SaarthiNext

LEMMA SaarthiKeptStep == SaarthiKept /\ [SaarthiNext]_saarthiVars => SaarthiKept'
<1>1. ASSUME SaarthiKept, UNCHANGED saarthiVars PROVE TalkKept'
  BY <1>1 DEF SaarthiKept, TalkKept, saarthiVars
<1>2. QED
  BY <1>1, SaarthiInvStep, TalkStep DEF SaarthiKept

(***************************************************************************)
(* The timetable                                                           *)
(***************************************************************************)

TimetableSpec == TimetableInit /\ [][TimetableNext]_timetableVars

\* A class that stands on the timetable took an overridden slot, or nothing has its slot.
LEMMA EffectiveClass ==
  ASSUME NEW courses, NEW k \in Effective(courses)
  PROVE  /\ k \in ClassRows \cup Range(Moves) /\ CourseOf(k) \in courses
         /\ k \in Range(Moves) \/ SlotOf(k) \notin DOMAIN Moves
         /\ k \in Range(Moves) \/ k \in ClassRows
<1>1. Arriving(Moves) \subseteq Range(Moves)
  BY DEF Arriving, Range
<1>2. QED
  BY <1>1 DEF Effective, Overridden

\* A class of the timetable is on the copilot's list of the day, if both work the
\* overrides out alike.
LEMMA ListedToday ==
  ASSUME NEW k \in Effective(taken), Today(k), CopilotMoves = Moves
  PROVE  \E x \in CopilotList : x[1] = k
<1>1. CASE k \in Range(Moves)
  <2>1. PICK s \in DOMAIN Moves : k = Moves[s]
    BY <1>1 DEF Range
  <2>2. <<k, s>> \in CopilotList
    BY <2>1 DEF CopilotList
  <2>3. QED
    BY <2>2
<1>2. CASE k \notin Range(Moves)
  <2>1. <<k, SlotOf(k)>> \in CopilotList
    BY <1>2, EffectiveClass DEF CopilotList
  <2>2. QED
    BY <2>1
<1>3. QED
  BY <1>1, <1>2

\* The three agree on any rows, overrides and enrolments.
LEMMA ShownMayBeMarkedNow == ShownMayBeMarked
<1>1. ASSUME NEW k \in Effective(taken) PROVE MayMark(k)
  BY EffectiveClass DEF MayMark
<1>2. ASSUME NEW k \in Effective(taken), Today(k), OpenNow(k), CopilotMoves = Moves,
             \A x, y \in CopilotList :
               x # y /\ {CourseOf(x[1]), CourseOf(y[1])} = {CourseOf(k)} =>
                 ~(OpenNow(x[1]) /\ OpenNow(y[1]))
      PROVE  Ready({CourseOf(k)}) = {k}
  <2> DEFINE listed == {x \in CopilotList : CourseOf(x[1]) \in {CourseOf(k)}}
             openOnes == {x \in listed : OpenNow(x[1])}
  <2>1. PICK x \in CopilotList : x[1] = k
    BY <1>2, ListedToday
  <2>2. x \in openOnes
    BY <1>2, <2>1
  <2>3. ASSUME NEW y \in openOnes PROVE y = x
    BY <1>2, <2>1, <2>3
  <2>4. openOnes = {x}
    BY <2>2, <2>3
  <2>5. Cardinality(openOnes) = 1 /\ openOnes # {}
    BY <2>4, FS_Singleton
  <2>6. Picked({CourseOf(k)}) = {y[1] : y \in openOnes}
    BY <2>5 DEF Picked
  <2>7. Picked({CourseOf(k)}) = {k}
    BY <2>1, <2>4, <2>6
  <2>8. QED
    BY <1>1, <1>2, <2>7 DEF Ready
<1>3. QED
  BY <1>1, <1>2 DEF ShownMayBeMarked

\* A class the student's timetable shows may be marked, and while its hour is open and the
\* copilot works the overrides out as the timetable does, a request to mark its course picks
\* that class and no other, or finds two open at once and asks: the timetable, the marking
\* handler and the copilot (_effective_student_schedules, _resolve_student_schedule_context,
\* _student_today_regular_schedules) agree whatever rows, overrides and enrolments there
\* are, so no induction over the steps is needed.
THEOREM ShownMayBeMarkedAlways == TimetableSpec => []ShownMayBeMarked
  BY ShownMayBeMarkedNow, PTL

(***************************************************************************)
(* The pages of attendance                                                 *)
(***************************************************************************)

\* A set of numbers has a least one, and a bounded one a greatest.
LEMMA LeastOf ==
  ASSUME NEW T, T \subseteq Nat, T # {}
  PROVE  \E x \in T : \A y \in T : x <= y
<1>1. PICK x \in T : \A y \in T : <<y, x>> \notin OpToRel(<, Nat)
  BY NatLessThanWellFounded, WFMin
<1>2. ASSUME NEW y \in T, ~(x <= y) PROVE FALSE
  <2>1. y < x /\ x \in Nat /\ y \in Nat
    BY <1>2
  <2>2. <<y, x>> \in OpToRel(<, Nat)
    BY <2>1 DEF OpToRel
  <2>3. QED
    BY <1>1, <2>2
<1>3. QED
  BY <1>1, <1>2

LEMMA GreatestNumber ==
  ASSUME NEW n \in Nat, NEW T, T \subseteq 0..n, T # {}
  PROVE  \E x \in T : \A y \in T : y <= x
<1> DEFINE U == {n - x : x \in T}
<1>1. U \subseteq Nat /\ U # {}
  <2>1. ASSUME NEW x \in T PROVE n - x \in Nat
    BY <2>1
  <2>2. QED
    BY <2>1
<1>2. PICK u \in U : \A v \in U : u <= v
  BY <1>1, LeastOf
<1>3. PICK x \in T : u = n - x
  BY <1>2
<1>4. ASSUME NEW y \in T PROVE y <= x
  <2>1. n - x <= n - y
    BY <1>2, <1>3, <1>4
  <2>2. x \in 0..n /\ y \in 0..n
    BY <1>3, <1>4
  <2>3. QED
    BY <2>1, <2>2
<1>5. QED
  BY <1>3, <1>4

(***************************************************************************)
(* The weeks                                                               *)
(***************************************************************************)

LEMMA Division ==
  ASSUME NEW w \in Nat, w >= 1, NEW n \in Nat
  PROVE  /\ n % w \in 0..(w - 1) /\ n \div w \in Nat
         /\ n = w * (n \div w) + (n % w)
<1>1. n % w \in 0..(w - 1)
  BY SMT
<1>2. n \div w \in Nat
  BY SMT
<1>3. ASSUME NEW d \in Int, NEW m \in Int, d = n \div w, m = n % w
      PROVE  n = w * d + m
  BY <1>3, SMT
<1>4. n \div w \in Int /\ n % w \in Int
  BY <1>1, <1>2
<1>5. n = w * (n \div w) + (n % w)
  BY <1>3, <1>4, Zenon
<1>6. QED
  BY <1>1, <1>2, <1>5, Zenon

LEMMA Shared ==
  ASSUME NEW w \in Nat, NEW p \in Nat, NEW q \in Nat, NEW r \in Nat
  PROVE  w * (p + q) + r = (w * p + r) + q * w
<1>1. w * (p + q) = w * p + q * w
  OBVIOUS
<1>2. w * p \in Nat /\ q * w \in Nat
  OBVIOUS
<1> DEFINE a == w * p
           b == q * w
<1> HIDE DEF a, b
<1>3. w * (p + q) = a + b /\ a \in Nat /\ b \in Nat
  BY <1>1, <1>2 DEF a, b
<1>4. w * (p + q) + r = (a + r) + b
  BY <1>3
<1>5. QED
  BY <1>4 DEF a, b

LEMMA RemainderIsUnique ==
  ASSUME NEW w \in Nat, w >= 1, NEW p \in Nat, NEW q \in Nat,
         NEW r \in 0..(w - 1), NEW s \in 0..(w - 1), w * p + r = w * q + s
  PROVE  r = s
<1>1. CASE p = q
  BY <1>1
<1>2. CASE p < q
  <2>1. q >= p + 1 /\ w * q >= w * (p + 1)
    BY <1>2
  <2>2. w * (p + 1) = w * p + w
    OBVIOUS
  <2>3. QED
    BY <2>1, <2>2
<1>3. CASE q < p
  <2>1. p >= q + 1 /\ w * p >= w * (q + 1)
    BY <1>3
  <2>2. w * (q + 1) = w * q + w
    OBVIOUS
  <2>3. QED
    BY <2>1, <2>2
<1>4. QED
  BY <1>1, <1>2, <1>3

LEMMA WeeksLater ==
  ASSUME NEW w \in Nat, w >= 1, NEW n \in Nat, NEW q \in Nat
  PROVE  (n + q * w) % w = n % w /\ n + q * w \in Nat
<1> DEFINE m == n + q * w
<1>1. m \in Nat
  OBVIOUS
<1>2. n = w * (n \div w) + (n % w) /\ n % w \in 0..(w - 1) /\ n \div w \in Nat
  BY Division
<1>3. m = w * (m \div w) + (m % w) /\ m % w \in 0..(w - 1) /\ m \div w \in Nat
  BY <1>1, Division
<1>4. m = w * ((n \div w) + q) + (n % w)
  <2>1. n % w \in Nat
    BY <1>2
  <2>2. w * ((n \div w) + q) + (n % w) = (w * (n \div w) + (n % w)) + q * w
    BY <1>2, <2>1, Shared
  <2>3. QED
    BY <1>2, <2>2, Zenon
<1>5. (n \div w) + q \in Nat
  BY <1>2
<1> HIDE DEF m
<1>6. w * (m \div w) + (m % w) = w * ((n \div w) + q) + (n % w)
  BY <1>3, <1>4
<1>7. m % w = n % w
  <2>1. n % w \in 0..(w - 1) /\ m % w \in 0..(w - 1) /\ m \div w \in Nat
    BY <1>2, <1>3, Zenon
  <2>2. QED
    BY <1>5, <1>6, <2>1, RemainderIsUnique, Zenon
<1>8. QED
  BY <1>1, <1>7 DEF m

LEMMA TimetableConstants ==
  /\ WeekDays \in Nat /\ WeekDays >= 1 /\ LastDate \in Nat /\ LastDate >= 1
  /\ LastEnd \in Nat /\ LastEnd >= 1 /\ Starts \subseteq 1..(LastEnd - 1)
  BY TimetableAssumption

FirstDay(k) == Min({d \in 1..WeekDays : Weekday(d) = k[2]})

LEMMA FirstDayTyped ==
  ASSUME NEW k \in ClassKeys
  PROVE  FirstDay(k) \in 1..WeekDays /\ FirstDay(k) % WeekDays = k[2]
<1> DEFINE D == {d \in 1..WeekDays : Weekday(d) = k[2]}
<1>1. k[2] \in 0..(WeekDays - 1)
  BY DEF ClassKeys
<1>2. D # {}
  <2>1. CASE k[2] = 0
    <3>1. (0 + 1 * WeekDays) % WeekDays = 0 % WeekDays
      BY WeeksLater, TimetableConstants
    <3>2. 0 = WeekDays * (0 \div WeekDays) + (0 % WeekDays) /\ 0 % WeekDays \in 0..(WeekDays - 1)
          /\ 0 \div WeekDays \in Nat
      BY Division, TimetableConstants
    <3>3. 0 % WeekDays = 0
      <4>1. WeekDays * 0 + 0 = WeekDays * (0 \div WeekDays) + (0 % WeekDays)
        BY <3>2, TimetableConstants
      <4>2. QED
        BY <3>2, <4>1, RemainderIsUnique, TimetableConstants
    <3>4. WeekDays % WeekDays = 0
      BY <3>1, <3>3, TimetableConstants
    <3>5. WeekDays \in D
      BY <2>1, <3>4, TimetableConstants DEF Weekday
    <3>6. QED
      BY <3>5
  <2>2. CASE k[2] # 0
    <3>1. k[2] \in Nat /\ k[2] >= 1 /\ k[2] <= WeekDays - 1
      BY <1>1, <2>2, TimetableConstants
    <3>2. k[2] = WeekDays * (k[2] \div WeekDays) + (k[2] % WeekDays) /\ k[2] % WeekDays \in 0..(WeekDays - 1)
          /\ k[2] \div WeekDays \in Nat
      BY <3>1, Division, TimetableConstants
    <3>3. WeekDays * 0 + k[2] = WeekDays * (k[2] \div WeekDays) + (k[2] % WeekDays)
      BY <3>1, <3>2, TimetableConstants
    <3>4. k[2] % WeekDays = k[2]
      <4>1. 0 \in Nat /\ k[2] \div WeekDays \in Nat /\ k[2] % WeekDays \in 0..(WeekDays - 1)
        BY <3>2
      <4>2. QED
        BY <1>1, <3>3, <4>1, RemainderIsUnique, TimetableConstants, Zenon
    <3>5. k[2] \in D
      BY <3>1, <3>4, TimetableConstants DEF Weekday
    <3>6. QED
      BY <3>5
  <2>3. QED
    BY <2>1, <2>2
<1>3. \E x \in D : \A y \in D : x <= y
  <2>1. D \subseteq Nat
    BY TimetableConstants
  <2>2. QED
    BY <1>2, <2>1, LeastOf
<1>4. FirstDay(k) \in D
  BY <1>3 DEF FirstDay, Min
<1>5. QED
  BY <1>4 DEF Weekday

\* The day of the n-th class since the first week.
DayOf(k, n) == FirstDay(k) + (n - 1) * WeekDays

LEMMA DaysDiffer ==
  ASSUME NEW k \in ClassKeys, NEW m \in Nat, NEW n \in Nat, DayOf(k, m) = DayOf(k, n)
  PROVE  m = n
<1>1. FirstDay(k) \in Nat
  BY FirstDayTyped, TimetableConstants
<1>2. (m - 1) * WeekDays = (n - 1) * WeekDays
  BY <1>1, TimetableConstants DEF DayOf
<1>3. (m - n) * WeekDays = 0
  BY <1>2, TimetableConstants
<1>4. QED
  BY <1>3, TimetableConstants

\* A class is counted no more often than it was held.
LEMMA CountedWasHeld ==
  ASSUME NEW k \in ClassKeys, clock \in Dates \X (0..(LastEnd - 1))
  PROVE  /\ CountDelivered(k) \in Nat
         /\ \A n \in 1..CountDelivered(k) : DayOf(k, n) \in 1..clock[1] /\ HeldOn(k, DayOf(k, n))
<1> DEFINE first == FirstDay(k)
           weeks == ((clock[1] - first) \div WeekDays) + 1
<1>0. clock[1] \in Nat /\ clock[2] \in Nat /\ k[3] \in Nat
  <2>1. clock[1] \in 1..LastDate /\ clock[2] \in 0..(LastEnd - 1)
    BY DEF Dates
  <2>2. k[3] \in 1..(LastEnd - 1)
    BY TimetableConstants DEF ClassKeys
  <2>3. QED
    BY <2>1, <2>2, TimetableConstants
<1>1. first \in Nat /\ first >= 1 /\ first % WeekDays = k[2]
  BY FirstDayTyped, TimetableConstants
<1>2. CountDelivered(k) = IF first > clock[1] THEN 0
      ELSE IF Weekday(clock[1]) = k[2] /\ clock[2] < k[3] THEN weeks - 1 ELSE weeks
  BY DEF CountDelivered, FirstDay
<1> HIDE DEF first
<1>3. CASE first > clock[1]
  BY <1>2, <1>3
<1>4. CASE ~(first > clock[1])
  <2> DEFINE e == clock[1] - first
             q == e \div WeekDays
  <2>1. e \in Nat
    BY <1>0, <1>1, <1>4
  <2>2. e = WeekDays * q + (e % WeekDays) /\ e % WeekDays \in 0..(WeekDays - 1) /\ q \in Nat
    BY <2>1, Division, TimetableConstants
  <2>3. WeekDays * q <= e
    <3>1. e = (WeekDays * q) + (e % WeekDays) /\ e % WeekDays \in Nat /\ WeekDays * q \in Nat
      BY <2>2, TimetableConstants
    <3> HIDE DEF e
    <3>2. QED
      BY <2>1, <3>1
  <2>4. weeks = q + 1
    OBVIOUS
  <2>5. CountDelivered(k) \in Nat /\ CountDelivered(k) <= q + 1
        /\ (Weekday(clock[1]) = k[2] /\ clock[2] < k[3] => CountDelivered(k) <= q)
    BY <1>2, <1>4, <2>2, <2>4
  <2> HIDE DEF q
  <2>6. ASSUME NEW n \in 1..CountDelivered(k)
        PROVE  DayOf(k, n) \in 1..clock[1] /\ HeldOn(k, DayOf(k, n))
    <3> DEFINE p == n - 1
    <3>1. p \in Nat /\ p <= q /\ (Weekday(clock[1]) = k[2] /\ clock[2] < k[3] => p + 1 <= q)
      BY <2>2, <2>5
    <3>2. DayOf(k, n) = first + p * WeekDays
      BY DEF DayOf, first
    <3> HIDE DEF p
    <3>3. p * WeekDays \in Nat /\ p * WeekDays <= WeekDays * q
      BY <2>2, <3>1, TimetableConstants
    <3>4. DayOf(k, n) \in 1..clock[1]
      <4> DEFINE a == p * WeekDays
                 b == WeekDays * q
      <4>1. a \in Nat /\ a <= b /\ b <= clock[1] - first /\ DayOf(k, n) = first + a
        BY <2>3, <3>2, <3>3
      <4>2. b \in Nat
        BY <2>2, TimetableConstants
      <4> HIDE DEF a, b
      <4>3. QED
        BY <1>0, <1>1, <4>1, <4>2
    <3>5. Weekday(DayOf(k, n)) = k[2]
      <4>1. (first + p * WeekDays) % WeekDays = first % WeekDays
        BY <1>1, <3>1, WeeksLater, TimetableConstants
      <4>2. QED
        BY <1>1, <3>2, <4>1 DEF Weekday
    <3>0. DayOf(k, n) \in Nat
      BY <1>0, <3>4
    <3>6. CASE DayOf(k, n) = clock[1]
      <4>1. Weekday(clock[1]) = k[2]
        BY <3>5, <3>6
      <4>2. clock[2] >= k[3]
        <5>1. SUFFICES ASSUME clock[2] < k[3] PROVE FALSE
          BY <1>0
        <5>2. p + 1 <= q
          BY <3>1, <4>1, <5>1
        <5>3. (p + 1) * WeekDays <= WeekDays * q
          BY <2>2, <3>1, <5>2, TimetableConstants
        <5>4. (p + 1) * WeekDays = p * WeekDays + WeekDays
          BY <3>1, TimetableConstants
        <5>5. p * WeekDays + WeekDays <= e
          BY <2>1, <2>2, <2>3, <3>3, <5>3, <5>4, TimetableConstants
        <5>6. QED
          BY <1>0, <1>1, <3>2, <3>3, <3>6, <5>5, TimetableConstants
      <4>3. QED
        BY <1>0, <3>4, <3>5, <3>6, <4>2 DEF HeldOn, Started
    <3>7. CASE DayOf(k, n) < clock[1]
      BY <3>4, <3>5, <3>7 DEF HeldOn, Started
    <3>8. QED
      BY <1>0, <3>4, <3>6, <3>7
  <2>7. QED
    BY <2>5, <2>6
<1>5. QED
  BY <1>3, <1>4

\* Submissions are of classes that have a row, on a day of the class.
TimetableInv ==
  /\ TimetableTypeOK
  /\ submitted \in [DOMAIN submitted -> BOOLEAN] /\ recorded \in [DOMAIN recorded -> BOOLEAN]
  /\ \A x \in DOMAIN submitted : x[1] \in ClassRows /\ Weekday(x[2]) = x[1][2]

LEMMA TimetableInvInit == TimetableInit => TimetableInv
<1> SUFFICES ASSUME TimetableInit PROVE TimetableInv
  OBVIOUS
<1>1. endOf \in [ClassKeys -> 0..LastEnd] /\ roomOf \in [Courses -> Rooms \cup {NoRoom}]
      /\ taken \subseteq Courses /\ section \in Sections /\ dormant \subseteq ClassKeys
  BY TimetableAssumption DEF TimetableInit, ClassKeys, NoRoom
<1>2. clock \in Dates \X (0..(LastEnd - 1))
  BY TimetableConstants DEF TimetableInit, Dates
<1>3. overrides \in Seq(Override)
  BY DEF TimetableInit
<1>4. DOMAIN submitted = {} /\ DOMAIN recorded = {} /\ submitted = <<>> /\ recorded = <<>>
  BY DEF TimetableInit
<1>5. submitted \in [DOMAIN submitted -> BOOLEAN] /\ recorded \in [DOMAIN recorded -> BOOLEAN]
  BY <1>4
<1>6. QED
  BY <1>1, <1>2, <1>3, <1>4, <1>5 DEF TimetableInv, TimetableTypeOK

\* A row that exists and is active stays so.
LEMMA RowsStay ==
  ASSUME TimetableInv, NEW k \in ClassKeys, NEW end \in 1..LastEnd,
         endOf' = [endOf EXCEPT ![k] = end],
         dormant' \subseteq dormant \/ (dormant' \subseteq dormant \cup {k} /\ k \notin AllRows)
  PROVE  /\ ClassRows \subseteq ClassRows' /\ endOf' \in [ClassKeys -> 0..LastEnd]
         /\ dormant' \subseteq ClassKeys
<1>1. endOf \in [ClassKeys -> 0..LastEnd] /\ dormant \subseteq ClassKeys /\ end # 0 /\ end \in 0..LastEnd
  BY TimetableConstants DEF TimetableInv, TimetableTypeOK
<1>2. endOf' \in [ClassKeys -> 0..LastEnd] /\ \A l \in ClassKeys : endOf'[l] = IF l = k THEN end ELSE endOf[l]
  BY <1>1
<1>3. ASSUME NEW l \in ClassRows PROVE l \in ClassRows'
  <2>1. l \in ClassKeys /\ endOf[l] # 0 /\ l \notin dormant /\ l \in AllRows
    BY DEF ClassRows, AllRows
  <2>2. endOf'[l] # 0 /\ l \notin dormant'
    BY <1>1, <1>2, <2>1
  <2>3. QED
    BY <2>1, <2>2 DEF ClassRows, AllRows
<1>4. QED
  BY <1>1, <1>2, <1>3

LEMMA Placed ==
  ASSUME TimetableInv, NEW o \in Override
  PROVE  PlaceOf(o) \in 1..(Len(overrides) + 1)
<1> DEFINE same == {i \in DOMAIN overrides : overrides[i].scope = o.scope /\ overrides[i].source = o.source}
<1>1. overrides \in Seq(Override) /\ Len(overrides) \in Nat /\ DOMAIN overrides = 1..Len(overrides)
  BY DEF TimetableInv, TimetableTypeOK
<1>2. CASE same = {}
  BY <1>1, <1>2 DEF PlaceOf
<1>3. CASE same # {}
  <2>1. same \subseteq 0..Len(overrides)
    BY <1>1
  <2>2. \E x \in same : \A y \in same : y <= x
    BY <1>1, <1>3, <2>1, GreatestNumber
  <2>3. \E x \in same : \A y \in same : x >= y
    BY <1>1, <2>1, <2>2
  <2>4. Max(same) \in same
    BY <2>3 DEF Max
  <2>5. QED
    BY <1>1, <1>3, <2>4 DEF PlaceOf
<1>4. QED
  BY <1>2, <1>3

LEMMA SetTyped ==
  ASSUME NEW f, f \in [DOMAIN f -> BOOLEAN], NEW x, NEW v \in BOOLEAN
  PROVE  /\ DOMAIN Set(f, x, v) = DOMAIN f \cup {x}
         /\ Set(f, x, v) \in [DOMAIN Set(f, x, v) -> BOOLEAN]
  BY DEF Set

LEMMA TimetableInvStep == TimetableInv /\ [TimetableNext]_timetableVars => TimetableInv'
<1> SUFFICES ASSUME TimetableInv, [TimetableNext]_timetableVars PROVE TimetableInv'
  OBVIOUS
<1>0. /\ endOf \in [ClassKeys -> 0..LastEnd] /\ dormant \subseteq ClassKeys
      /\ overrides \in Seq(Override)
      /\ roomOf \in [Courses -> Rooms \cup {NoRoom}]
      /\ taken \subseteq Courses /\ section \in Sections
      /\ clock \in Dates \X (0..(LastEnd - 1))
      /\ DOMAIN submitted \subseteq ClassKeys \X Dates
      /\ DOMAIN recorded \subseteq Courses \X Dates
      /\ submitted \in [DOMAIN submitted -> BOOLEAN] /\ recorded \in [DOMAIN recorded -> BOOLEAN]
      /\ \A x \in DOMAIN submitted : x[1] \in ClassRows /\ Weekday(x[2]) = x[1][2]
  BY DEF TimetableInv, TimetableTypeOK
<1>1. ASSUME UNCHANGED timetableVars PROVE TimetableInv'
  BY <1>0, <1>1 DEF timetableVars, TimetableInv, TimetableTypeOK, ClassRows, AllRows
<1>2. ASSUME CreateSchedule PROVE TimetableInv'
  <2>1. PICK k \in ClassKeys \ AllRows, end \in 1..LastEnd, shown \in BOOLEAN :
          /\ endOf' = [endOf EXCEPT ![k] = end]
          /\ dormant' = IF shown THEN dormant ELSE dormant \cup {k}
          /\ UNCHANGED <<overrides, roomOf, taken, section, clock, submitted, recorded>>
    BY <1>2 DEF CreateSchedule
  <2>2. ClassRows \subseteq ClassRows' /\ endOf' \in [ClassKeys -> 0..LastEnd] /\ dormant' \subseteq ClassKeys
    BY <2>1, RowsStay
  <2>3. QED
    BY <1>0, <2>1, <2>2 DEF TimetableInv, TimetableTypeOK
<1>3. ASSUME UpsertOverride PROVE TimetableInv'
  <2>1. PICK o \in Override, end \in 1..LastEnd :
          /\ endOf' = [endOf EXCEPT ![o.target] = end]
          /\ dormant' = dormant \ {o.target}
          /\ overrides' = [i \in DOMAIN overrides \cup {PlaceOf(o)} |->
                             IF i = PlaceOf(o) THEN o ELSE overrides[i]]
          /\ UNCHANGED <<roomOf, taken, section, clock, submitted, recorded>>
    BY <1>3 DEF UpsertOverride
  <2>2. o.target \in ClassKeys
    BY DEF Override
  <2>3. ClassRows \subseteq ClassRows' /\ endOf' \in [ClassKeys -> 0..LastEnd] /\ dormant' \subseteq ClassKeys
    BY <2>1, <2>2, RowsStay
  <2>4. overrides' \in Seq(Override)
    <3>1. PlaceOf(o) \in 1..(Len(overrides) + 1) /\ Len(overrides) \in Nat
          /\ DOMAIN overrides = 1..Len(overrides) /\ \A i \in 1..Len(overrides) : overrides[i] \in Override
      BY <1>0, Placed
    <3>2. PICK n \in Nat : DOMAIN overrides \cup {PlaceOf(o)} = 1..n
      <4>1. CASE PlaceOf(o) \in DOMAIN overrides
        BY <3>1, <4>1
      <4>2. CASE PlaceOf(o) = Len(overrides) + 1
        <5>1. DOMAIN overrides \cup {PlaceOf(o)} = 1..(Len(overrides) + 1) /\ Len(overrides) + 1 \in Nat
          BY <3>1, <4>2
        <5>2. QED
          BY <5>1
      <4>3. QED
        BY <3>1, <4>1, <4>2
    <3>3. overrides' \in [1..n -> Override]
      BY <2>1, <3>1, <3>2
    <3>4. QED
      BY <3>2, <3>3
  <2>5. QED
    BY <1>0, <2>1, <2>3, <2>4 DEF TimetableInv, TimetableTypeOK
<1>4. ASSUME AssignCourseClassroom PROVE TimetableInv'
  BY <1>0, <1>4 DEF AssignCourseClassroom, TimetableInv, TimetableTypeOK, ClassRows, AllRows
<1>5. ASSUME EnrollStudent PROVE TimetableInv'
  BY <1>0, <1>5 DEF EnrollStudent, TimetableInv, TimetableTypeOK, ClassRows, AllRows
<1>6. ASSUME SectionChanges PROVE TimetableInv'
  BY <1>0, <1>6 DEF SectionChanges, TimetableInv, TimetableTypeOK, ClassRows, AllRows
<1>7. ASSUME MarkAttendance PROVE TimetableInv'
  <2>1. PICK k \in ClassRows, credited \in BOOLEAN :
          /\ Weekday(clock[1]) = k[2]
          /\ submitted' = Set(submitted, <<k, clock[1]>>, credited)
          /\ recorded' = IF credited THEN Set(recorded, <<CourseOf(k), clock[1]>>, TRUE) ELSE recorded
          /\ UNCHANGED <<endOf, dormant, overrides, roomOf, taken, section, clock>>
    BY <1>7 DEF MarkAttendance
  <2>2. k \in ClassKeys /\ CourseOf(k) \in Courses /\ clock[1] \in Dates
    BY <1>0 DEF ClassRows, AllRows, ClassKeys, CourseOf
  <2>3. DOMAIN submitted' = DOMAIN submitted \cup {<<k, clock[1]>>}
        /\ submitted' \in [DOMAIN submitted' -> BOOLEAN]
    BY <1>0, <2>1, SetTyped
  <2>4. DOMAIN recorded' \subseteq DOMAIN recorded \cup {<<CourseOf(k), clock[1]>>}
        /\ recorded' \in [DOMAIN recorded' -> BOOLEAN]
    BY <1>0, <2>1, SetTyped
  <2>5. DOMAIN submitted' \subseteq ClassKeys \X Dates /\ DOMAIN recorded' \subseteq Courses \X Dates
    BY <1>0, <2>2, <2>3, <2>4
  <2>6. ClassRows' = ClassRows
    BY <2>1 DEF ClassRows, AllRows
  <2>7. \A x \in DOMAIN submitted' : x[1] \in ClassRows /\ Weekday(x[2]) = x[1][2]
    BY <1>0, <2>1, <2>3
  <2>8. QED
    BY <1>0, <2>1, <2>3, <2>4, <2>5, <2>6, <2>7 DEF TimetableInv, TimetableTypeOK
<1>8. ASSUME FacultyMarksDay PROVE TimetableInv'
  <2>1. PICK c \in taken, d \in 1..clock[1], present \in BOOLEAN :
          /\ recorded' = Set(recorded, <<c, d>>, present)
          /\ UNCHANGED <<endOf, dormant, overrides, roomOf, taken, section, clock, submitted>>
    BY <1>8 DEF FacultyMarksDay
  <2>2. c \in Courses /\ d \in Dates
    <3>1. clock[1] \in 1..LastDate
      BY <1>0 DEF Dates
    <3>2. QED
      BY <1>0, <3>1, TimetableConstants DEF Dates
  <2>3. DOMAIN recorded' = DOMAIN recorded \cup {<<c, d>>} /\ recorded' \in [DOMAIN recorded' -> BOOLEAN]
    BY <1>0, <2>1, SetTyped
  <2>4. DOMAIN recorded' \subseteq Courses \X Dates
    BY <1>0, <2>2, <2>3
  <2>5. ClassRows' = ClassRows
    BY <2>1 DEF ClassRows, AllRows
  <2>6. QED
    BY <1>0, <2>1, <2>3, <2>4, <2>5 DEF TimetableInv, TimetableTypeOK
<1>9. ASSUME Hour PROVE TimetableInv'
  <2>1. UNCHANGED <<endOf, dormant, overrides, roomOf, taken, section, submitted, recorded>>
    BY <1>9 DEF Hour
  <2>2. clock' \in Dates \X (0..(LastEnd - 1))
    <3>1. clock[1] \in Dates /\ clock[2] \in 0..(LastEnd - 1)
      BY <1>0
    <3>2. CASE clock[2] < LastEnd - 1
      <4>1. clock' = <<clock[1], clock[2] + 1>>
        BY <1>9, <3>2 DEF Hour
      <4>2. clock[2] + 1 \in 0..(LastEnd - 1)
        BY <3>1, <3>2, TimetableConstants
      <4>3. QED
        BY <3>1, <4>1, <4>2
    <3>3. CASE ~(clock[2] < LastEnd - 1)
      <4>1. clock' \in {<<d, 0>> : d \in Dates \cap {clock[1] + 1}}
        BY <1>9, <3>3 DEF Hour
      <4>2. PICK d \in Dates : clock' = <<d, 0>>
        BY <4>1
      <4>3. 0 \in 0..(LastEnd - 1)
        BY TimetableConstants
      <4>4. QED
        BY <4>2, <4>3
    <3>4. QED
      BY <3>2, <3>3
  <2>3. ClassRows' = ClassRows
    BY <2>1 DEF ClassRows, AllRows
  <2>4. QED
    BY <1>0, <2>1, <2>2, <2>3 DEF TimetableInv, TimetableTypeOK
<1>10. QED
  BY <1>1, <1>2, <1>3, <1>4, <1>5, <1>6, <1>7, <1>8, <1>9 DEF TimetableNext

\* As many as are told apart by what they are about.
LEMMA Told ==
  ASSUME NEW S, NEW T, IsFiniteSet(T), NEW R,
         \A p \in S : \E i \in T : <<p, i>> \in R,
         \A p, q \in S : \A i \in T : <<p, i>> \in R /\ <<q, i>> \in R => p = q
  PROVE  /\ IsFiniteSet(S) /\ Cardinality(S) <= Cardinality(T)
         /\ Cardinality(S) \in Nat /\ Cardinality(T) \in Nat
<1> DEFINE f == [p \in S |-> CHOOSE i \in T : <<p, i>> \in R]
<1>1. \A p \in S : f[p] \in T /\ <<p, f[p]>> \in R
  OBVIOUS
<1>2. f \in [S -> T]
  BY <1>1
<1>3. \A p, q \in S : f[p] = f[q] => p = q
  BY <1>1
<1> HIDE DEF f
<1>4. f \in Injection(S, T)
  BY <1>2, <1>3 DEF Injection, IsInjective
<1>5. IsFiniteSet(S) /\ Cardinality(S) <= Cardinality(T)
  BY <1>4, FS_Injection
<1>6. QED
  BY <1>5, FS_CardinalityType

LEMMA ClassesFinite == IsFiniteSet(ClassKeys) /\ IsFiniteSet(Dates) /\ IsFiniteSet(Courses)
<1>1. IsFiniteSet(Courses) /\ IsFiniteSet(0..(WeekDays - 1)) /\ IsFiniteSet(Dates)
  BY TimetableAssumption, TimetableConstants, FS_Interval DEF Dates
<1>2. IsFiniteSet(Starts)
  <2>1. LastEnd - 1 \in Int /\ 1 \in Int
    BY TimetableConstants
  <2>2. IsFiniteSet(1..(LastEnd - 1))
    BY <2>1, FS_Interval
  <2>3. QED
    BY <2>2, TimetableConstants, FS_Subset
<1> DEFINE T == (Courses \X (0..(WeekDays - 1))) \X Starts
           R == {z \in ClassKeys \X T : z[2] = <<(<<z[1][1], z[1][2]>>), z[1][3]>>}
<1>3. IsFiniteSet(T)
  BY <1>1, <1>2, FS_Product
<1>4. ASSUME NEW k \in ClassKeys PROVE \E i \in T : <<k, i>> \in R
  <2>1. k[1] \in Courses /\ k[2] \in 0..(WeekDays - 1) /\ k[3] \in Starts
    BY DEF ClassKeys
  <2>2. <<(<<k[1], k[2]>>), k[3]>> \in T
    BY <2>1
  <2>3. QED
    BY <2>2
<1>5. ASSUME NEW k \in ClassKeys, NEW l \in ClassKeys, NEW i \in T, <<k, i>> \in R, <<l, i>> \in R
      PROVE  k = l
  <2>1. k[1] = l[1] /\ k[2] = l[2] /\ k[3] = l[3]
    BY <1>5
  <2>2. k = <<k[1], k[2], k[3]>> /\ l = <<l[1], l[2], l[3]>>
    BY DEF ClassKeys
  <2>3. QED
    BY <2>1, <2>2
<1> HIDE DEF T, R
<1>6. IsFiniteSet(ClassKeys)
  BY <1>3, <1>4, <1>5, Told
<1>7. QED
  BY <1>1, <1>6

LEMMA LatestTyped ==
  ASSUME TimetableInv, NEW slot \in DOMAIN Moves
  PROVE  LatestOf(slot) \in Sourced(slot) /\ Moves[slot] \in ClassKeys
<1>1. overrides \in Seq(Override) /\ Len(overrides) \in Nat /\ DOMAIN overrides = 1..Len(overrides)
  BY DEF TimetableInv, TimetableTypeOK
<1>2. Sourced(slot) # {} /\ Sourced(slot) \subseteq 1..Len(overrides)
  BY <1>1 DEF Moves, Sourced, Applicable
<1> DEFINE T == {Place(i) : i \in Sourced(slot)}
           n == Len(overrides) + Len(overrides)
<1>3. \A i \in Sourced(slot) : Place(i) \in 0..n
  BY <1>1, <1>2 DEF Place
<1>4. T # {} /\ T \subseteq 0..n /\ n \in Nat
  BY <1>1, <1>2, <1>3
<1>5. \E x \in T : \A y \in T : y <= x
  BY <1>4, GreatestNumber
<1>6. \E i \in Sourced(slot) : \A j \in Sourced(slot) : Place(j) <= Place(i)
  BY <1>5
<1>7. LatestOf(slot) \in Sourced(slot)
  BY <1>6 DEF LatestOf
<1>8. overrides[LatestOf(slot)] \in Override
  BY <1>1, <1>2, <1>7
<1>9. Moves[slot] = overrides[LatestOf(slot)].target
  BY DEF Moves
<1>10. QED
  BY <1>7, <1>8, <1>9 DEF Override

LEMMA EffectiveTyped ==
  ASSUME TimetableInv, NEW courses
  PROVE  Effective(courses) \subseteq ClassKeys /\ IsFiniteSet(Effective(courses))
<1>1. ClassRows \subseteq ClassKeys
  BY DEF ClassRows, AllRows
<1>2. ASSUME NEW k \in Arriving(Moves) PROVE k \in ClassKeys
  <2>1. PICK slot \in DOMAIN Moves : k = Moves[slot]
    BY DEF Arriving
  <2>2. QED
    BY <2>1, LatestTyped
<1>3. Effective(courses) \subseteq ClassRows \cup Arriving(Moves)
  BY DEF Effective
<1>4. Effective(courses) \subseteq ClassKeys
  BY <1>1, <1>2, <1>3
<1>5. QED
  BY <1>4, ClassesFinite, FS_Subset

LEMMA AttendanceTyped ==
  ASSUME TimetableInv
  PROVE  /\ clock[1] \in Nat /\ clock[1] \in Dates /\ IsFiniteSet(DOMAIN submitted) /\ IsFiniteSet(DOMAIN recorded)
         /\ \A x \in DOMAIN submitted : /\ x = <<x[1], x[2]>> /\ x[1] \in ClassKeys /\ x[1] \in ClassRows
                                        /\ x[2] \in Dates /\ CourseOf(x[1]) \in Courses
                                        /\ submitted[x] \in BOOLEAN /\ Weekday(x[2]) = x[1][2]
         /\ \A x \in DOMAIN recorded : /\ x = <<x[1], x[2]>> /\ x[1] \in Courses /\ x[2] \in Dates
                                       /\ recorded[x] \in BOOLEAN
<1>0. /\ clock \in Dates \X (0..(LastEnd - 1))
      /\ DOMAIN submitted \subseteq ClassKeys \X Dates
      /\ DOMAIN recorded \subseteq Courses \X Dates
      /\ submitted \in [DOMAIN submitted -> BOOLEAN] /\ recorded \in [DOMAIN recorded -> BOOLEAN]
      /\ \A x \in DOMAIN submitted : x[1] \in ClassRows /\ Weekday(x[2]) = x[1][2]
  BY DEF TimetableInv, TimetableTypeOK
<1>1. clock[1] \in Dates /\ clock[1] \in Nat
  BY <1>0 DEF Dates
<1>2. IsFiniteSet(ClassKeys \X Dates) /\ IsFiniteSet(Courses \X Dates)
  BY ClassesFinite, FS_Product
<1>3. IsFiniteSet(DOMAIN submitted) /\ IsFiniteSet(DOMAIN recorded)
  BY <1>0, <1>2, FS_Subset
<1>4. ASSUME NEW x \in DOMAIN submitted
      PROVE  /\ x = <<x[1], x[2]>> /\ x[1] \in ClassKeys /\ x[1] \in ClassRows
             /\ x[2] \in Dates /\ CourseOf(x[1]) \in Courses
             /\ submitted[x] \in BOOLEAN /\ Weekday(x[2]) = x[1][2]
  <2>1. x \in ClassKeys \X Dates
    BY <1>0
  <2>2. x = <<x[1], x[2]>> /\ x[1] \in ClassKeys /\ x[2] \in Dates
    BY <2>1
  <2>3. CourseOf(x[1]) \in Courses
    BY <2>2 DEF ClassKeys, CourseOf
  <2>4. QED
    BY <1>0, <2>2, <2>3
<1>5. ASSUME NEW x \in DOMAIN recorded
      PROVE  x = <<x[1], x[2]>> /\ x[1] \in Courses /\ x[2] \in Dates /\ recorded[x] \in BOOLEAN
  BY <1>0
<1>6. QED
  BY <1>1, <1>3, <1>4, <1>5

(***************************************************************************)
(* The entries of the history                                              *)
(***************************************************************************)

Listed(E) == FromSubmissions \cup UNION {FromRecord(x, E) : x \in Past(recorded)}
Missed(E) == {x \in E \X Dates : HeldOn(x[1], x[2])
                /\ <<(<<x[1]>>), x[2]>> \notin {<<i.class, i.date>> : i \in Listed(E)}}
Scheduled(x, E) == {k \in E : CourseOf(k) = x[1] /\ HeldOn(k, x[2])}
Sent(x) == {y \in Past(submitted) : CourseOf(y[1]) = x[1] /\ y[2] = x[2]}

LEMMA HistoryIs ==
  ASSUME NEW E
  PROVE  History(E) = Listed(E) \cup {Entry(<<x[1]>>, CourseOf(x[1]), x[2], FALSE) : x \in Missed(E)}
  BY DEF History, Listed, Missed

LEMMA FromRecordIs ==
  ASSUME NEW E, NEW x
  PROVE  FromRecord(x, E) =
           IF Cardinality(Scheduled(x, E)) = 1 /\ (Scheduled(x, E) \X {x[2]}) \cap Past(submitted) = {}
           THEN {Entry(<<k>>, x[1], x[2], recorded[x]) : k \in Scheduled(x, E)}
           ELSE IF Sent(x) = {} THEN {Entry(<<>>, x[1], x[2], recorded[x])} ELSE {}
  BY DEF FromRecord, Scheduled, Sent

LEMMA EntryOfSubmission ==
  ASSUME NEW E, NEW x \in Past(submitted)
  PROVE  Entry(<<x[1]>>, CourseOf(x[1]), x[2], submitted[x]) \in History(E)
  BY HistoryIs DEF Listed, FromSubmissions

LEMMA EntryOfRecord ==
  ASSUME TimetableInv, NEW E, E \subseteq ClassKeys, IsFiniteSet(E), NEW x \in Past(recorded)
  PROVE  \E i \in History(E) : i.course = x[1] /\ i.date = x[2]
<1>1. FromRecord(x, E) \subseteq History(E)
  BY HistoryIs DEF Listed
<1>2. CASE Cardinality(Scheduled(x, E)) = 1 /\ (Scheduled(x, E) \X {x[2]}) \cap Past(submitted) = {}
  <2>1. Scheduled(x, E) \subseteq E
    BY DEF Scheduled
  <2>2. IsFiniteSet(Scheduled(x, E))
    BY <2>1, FS_Subset
  <2>3. PICK k : k \in Scheduled(x, E)
    BY <1>2, <2>2, FS_Singleton
  <2>4. Entry(<<k>>, x[1], x[2], recorded[x]) \in History(E)
    BY <1>1, <1>2, <2>3, FromRecordIs
  <2>5. QED
    BY <2>4 DEF Entry
<1>3. CASE Sent(x) = {}
           /\ ~(Cardinality(Scheduled(x, E)) = 1 /\ (Scheduled(x, E) \X {x[2]}) \cap Past(submitted) = {})
  <2>1. Entry(<<>>, x[1], x[2], recorded[x]) \in History(E)
    BY <1>1, <1>3, FromRecordIs
  <2>2. QED
    BY <2>1 DEF Entry
<1>4. CASE Sent(x) # {}
  <2>1. PICK y \in Past(submitted) : CourseOf(y[1]) = x[1] /\ y[2] = x[2]
    BY <1>4 DEF Sent
  <2>2. Entry(<<y[1]>>, CourseOf(y[1]), y[2], submitted[y]) \in History(E)
    BY EntryOfSubmission
  <2>3. QED
    BY <2>1, <2>2 DEF Entry
<1>5. QED
  BY <1>2, <1>3, <1>4

\* What was held is listed.
LEMMA EntryOfClass ==
  ASSUME TimetableInv, NEW E, NEW k \in E, NEW d \in Dates, HeldOn(k, d)
  PROVE  \E i \in History(E) : i.class = <<k>> /\ i.course = CourseOf(k) /\ i.date = d
<1>1. CASE <<(<<k>>), d>> \in {<<i.class, i.date>> : i \in Listed(E)}
  <2>1. PICK i \in Listed(E) : i.class = <<k>> /\ i.date = d
    BY <1>1
  <2>2. i \in History(E)
    BY HistoryIs
  <2>3. CASE i \in FromSubmissions
    <3>1. PICK x \in Past(submitted) : i = Entry(<<x[1]>>, CourseOf(x[1]), x[2], submitted[x])
      BY <2>3 DEF FromSubmissions
    <3>2. i.class = <<x[1]>> /\ i.course = CourseOf(x[1])
      BY <3>1 DEF Entry
    <3>3. x[1] = k
      BY <2>1, <3>2
    <3>4. QED
      BY <2>1, <2>2, <3>2, <3>3
  <2>4. CASE i \notin FromSubmissions
    <3>1. PICK x \in Past(recorded) : i \in FromRecord(x, E)
      BY <2>1, <2>4 DEF Listed
    <3>2. CASE i \in {Entry(<<l>>, x[1], x[2], recorded[x]) : l \in Scheduled(x, E)}
      <4>1. PICK l \in Scheduled(x, E) : i = Entry(<<l>>, x[1], x[2], recorded[x])
        BY <3>2
      <4>2. i.class = <<l>> /\ i.course = x[1] /\ CourseOf(l) = x[1]
        BY <4>1 DEF Entry, Scheduled
      <4>3. l = k
        BY <2>1, <4>2
      <4>4. QED
        BY <2>1, <2>2, <4>2, <4>3
    <3>3. CASE i = Entry(<<>>, x[1], x[2], recorded[x])
      <4>1. i.class = <<>>
        BY <3>3 DEF Entry
      <4>2. <<>> # <<k>>
        OBVIOUS
      <4>3. QED
        BY <2>1, <4>1, <4>2
    <3>4. QED
      BY <3>1, <3>2, <3>3, FromRecordIs
  <2>5. QED
    BY <2>3, <2>4
<1>2. CASE <<(<<k>>), d>> \notin {<<i.class, i.date>> : i \in Listed(E)}
  <2>1. <<k, d>> \in Missed(E)
    BY <1>2 DEF Missed
  <2>2. \A x \in Missed(E) : Entry(<<x[1]>>, CourseOf(x[1]), x[2], FALSE) \in History(E)
    BY HistoryIs
  <2>0. Entry(<<k>>, CourseOf(k), d, FALSE) \in History(E)
    BY <2>1, <2>2
  <2>3. QED
    BY <2>0 DEF Entry
<1>3. QED
  BY <1>1, <1>2

\* Where a record stands for a class in the aggregate, the history has an entry for it that
\* is no submission's.
LEMMA EntryOfFallback ==
  ASSUME TimetableInv, NEW E, E \subseteq ClassKeys, IsFiniteSet(E), NEW x \in Past(recorded)
  PROVE  /\ Fallback(x, E) \in {0, 1}
         /\ Fallback(x, E) = 1 => \E i \in History(E) :
              /\ i.course = x[1] /\ i.date = x[2] /\ i.present = recorded[x]
              /\ \A k : i.class = <<k>> => <<k, x[2]>> \notin DOMAIN submitted
<1> DEFINE held == Scheduled(x, E)
           sent == {y[1] : y \in {z \in SubmittedIn(x[1]) : z[2] = x[2]}}
<1>0. IsFiniteSet(held)
  <2>1. held \subseteq E
    BY DEF Scheduled
  <2>2. QED
    BY <2>1, FS_Subset
<1>1. Fallback(x, E) = IF held = {} /\ sent = {} THEN 1
                       ELSE IF Cardinality(held) <= 1 THEN Cardinality(held \ sent) ELSE 0
  BY DEF Fallback, Scheduled
<1>2. FromRecord(x, E) \subseteq History(E)
  BY HistoryIs DEF Listed
<1>3. x[2] <= clock[1]
  BY DEF Past
<1>4. CASE held = {} /\ sent = {}
  <2>1. Cardinality(held) = 0
    BY <1>4, FS_EmptySet
  <2>2. Sent(x) = {}
    BY <1>4 DEF Sent, SubmittedIn
  <2>3. Entry(<<>>, x[1], x[2], recorded[x]) \in History(E)
    BY <1>2, <2>1, <2>2, FromRecordIs
  <2>4. \A k : <<>> # <<k>>
    OBVIOUS
  <2>5. QED
    BY <1>1, <1>4, <2>3, <2>4 DEF Entry
<1>5. CASE held = {} /\ sent # {}
  <2>1. held \ sent = {} /\ Cardinality(held) = 0
    BY <1>5, FS_EmptySet
  <2>2. Fallback(x, E) = 0
    BY <1>1, <1>5, <2>1, FS_EmptySet
  <2>3. QED
    BY <2>2
<1>6. CASE held # {} /\ ~(Cardinality(held) <= 1)
  BY <1>1, <1>6
<1>7. CASE held # {} /\ Cardinality(held) <= 1
  <2>1. Cardinality(held) = 1
    BY <1>0, <1>7, FS_EmptySet, FS_CardinalityType
  <2>2. PICK k : held = {k}
    BY <1>0, <2>1, FS_Singleton
  <2>3. CASE k \in sent
    <3>1. held \ sent = {}
      BY <2>2, <2>3
    <3>2. Fallback(x, E) = 0
      BY <1>1, <1>7, <3>1, FS_EmptySet
    <3>3. QED
      BY <3>2
  <2>4. CASE k \notin sent
    <3>1. held \ sent = {k}
      BY <2>2, <2>4
    <3>2. Fallback(x, E) = 1
      BY <1>1, <1>7, <3>1, FS_Singleton
    <3>3. CourseOf(k) = x[1]
      BY <2>2 DEF Scheduled
    <3>4. <<k, x[2]>> \notin DOMAIN submitted
      <4>1. SUFFICES ASSUME <<k, x[2]>> \in DOMAIN submitted PROVE FALSE
        OBVIOUS
      <4>2. <<k, x[2]>> \in SubmittedIn(x[1])
        BY <1>3, <3>3, <4>1 DEF SubmittedIn, Past
      <4>3. QED
        BY <2>4, <4>2
    <3>5. (Scheduled(x, E) \X {x[2]}) \cap Past(submitted) = {}
      BY <2>2, <3>4 DEF Past
    <3>6. Entry(<<k>>, x[1], x[2], recorded[x]) \in History(E)
      BY <1>2, <2>1, <2>2, <3>5, FromRecordIs
    <3>7. \A l : <<k>> = <<l>> => l = k
      OBVIOUS
    <3>8. QED
      BY <3>2, <3>4, <3>6, <3>7 DEF Entry
  <2>5. QED
    BY <2>3, <2>4
<1>8. QED
  BY <1>4, <1>5, <1>6, <1>7

\* An entry is about no class or one, and there are finitely many.
LEMMA HistoryFinite ==
  ASSUME TimetableInv, NEW E, E \subseteq ClassKeys, IsFiniteSet(E)
  PROVE  IsFiniteSet(History(E)) /\ \A i \in History(E) : i.present \in BOOLEAN
<1> DEFINE About == {<<>>} \cup {<<k>> : k \in ClassKeys}
           T == (About \X Courses) \X (Dates \X BOOLEAN)
           R == {z \in History(E) \X T : z[2] = <<(<<z[1].class, z[1].course>>), <<z[1].date, z[1].present>> >>}
           Entries == [class : About, course : Courses, date : Dates, present : BOOLEAN]
<1>1. IsFiniteSet({<<k>> : k \in ClassKeys})
  <2> DEFINE Q == {z \in {<<k>> : k \in ClassKeys} \X ClassKeys : z[1] = <<z[2]>>}
  <2>1. \A p \in {<<k>> : k \in ClassKeys} : \E k \in ClassKeys : <<p, k>> \in Q
    OBVIOUS
  <2>2. \A p, q \in {<<k>> : k \in ClassKeys} : \A k \in ClassKeys : <<p, k>> \in Q /\ <<q, k>> \in Q => p = q
    OBVIOUS
  <2> HIDE DEF Q
  <2>3. QED
    BY <2>1, <2>2, ClassesFinite, Told
<1>2. IsFiniteSet({<<>>}) /\ IsFiniteSet(BOOLEAN)
  <2>1. BOOLEAN = {FALSE} \cup {TRUE}
    OBVIOUS
  <2>2. IsFiniteSet({FALSE}) /\ IsFiniteSet({TRUE}) /\ IsFiniteSet({<<>>})
    BY FS_Singleton
  <2>3. IsFiniteSet({FALSE} \cup {TRUE})
    BY <2>2, FS_Union
  <2>4. QED
    BY <2>1, <2>2, <2>3, Zenon
<1>3. IsFiniteSet(About)
  BY <1>1, <1>2, FS_Union
<1>4. IsFiniteSet(T)
  <2>1. IsFiniteSet(About \X Courses) /\ IsFiniteSet(Dates \X BOOLEAN)
    BY <1>2, <1>3, ClassesFinite, FS_Product
  <2>2. QED
    BY <2>1, FS_Product
<1>5. ASSUME NEW i \in History(E) PROVE i \in Entries
  <2>1. ASSUME NEW x \in Past(submitted)
        PROVE  Entry(<<x[1]>>, CourseOf(x[1]), x[2], submitted[x]) \in Entries
    BY AttendanceTyped DEF Entry, Past
  <2>2. ASSUME NEW x \in Past(recorded), NEW a \in About
        PROVE  Entry(a, x[1], x[2], recorded[x]) \in Entries
    <3> HIDE DEF About
    <3>1. QED
      BY AttendanceTyped DEF Entry, Past
  <2>3. ASSUME NEW x \in Missed(E) PROVE Entry(<<x[1]>>, CourseOf(x[1]), x[2], FALSE) \in Entries
    <3>1. x[1] \in ClassKeys /\ x[2] \in Dates
      BY DEF Missed
    <3>2. CourseOf(x[1]) \in Courses /\ <<x[1]>> \in About
      BY <3>1 DEF ClassKeys, CourseOf
    <3> HIDE DEF About
    <3>3. QED
      BY <3>1, <3>2 DEF Entry
  <2>4. ASSUME NEW x \in Past(recorded), i \in FromRecord(x, E) PROVE i \in Entries
    <3>1. Scheduled(x, E) \subseteq ClassKeys
      BY DEF Scheduled
    <3>2. i \in {Entry(<<k>>, x[1], x[2], recorded[x]) : k \in Scheduled(x, E)}
            \/ i = Entry(<<>>, x[1], x[2], recorded[x])
      BY <2>4, FromRecordIs
    <3>3. \A k \in Scheduled(x, E) : <<k>> \in About
      BY <3>1
    <3>4. <<>> \in About
      OBVIOUS
    <3> HIDE DEF About, Entries
    <3>5. QED
      BY <2>2, <3>2, <3>3, <3>4
  <2>5. CASE i \in FromSubmissions
    BY <2>1, <2>5 DEF FromSubmissions
  <2>6. CASE i \notin Listed(E)
    BY <2>3, <2>6, HistoryIs
  <2>7. CASE i \in Listed(E) /\ i \notin FromSubmissions
    BY <2>4, <2>7 DEF Listed
  <2>8. QED
    BY <2>5, <2>6, <2>7
<1>6. ASSUME NEW i \in History(E) PROVE \E t \in T : <<i, t>> \in R
  <2>1. <<(<<i.class, i.course>>), <<i.date, i.present>> >> \in T
    <3>1. i.class \in About /\ i.course \in Courses /\ i.date \in Dates /\ i.present \in BOOLEAN
      BY <1>5
    <3> HIDE DEF About
    <3>2. QED
      BY <3>1
  <2> HIDE DEF T
  <2>2. QED
    BY <2>1
<1>7. ASSUME NEW i \in History(E), NEW j \in History(E), NEW t \in T, <<i, t>> \in R, <<j, t>> \in R
      PROVE  i = j
  <2>1. i.class = j.class /\ i.course = j.course /\ i.date = j.date /\ i.present = j.present
    <3> HIDE DEF T
    <3>1. QED
      BY <1>7
  <2>2. i \in Entries /\ j \in Entries
    BY <1>5
  <2> HIDE DEF About
  <2>3. QED
    BY <2>1, <2>2
<1>8. \A i \in History(E) : i.present \in BOOLEAN
  <2> HIDE DEF About
  <2>1. QED
    BY <1>5
<1> HIDE DEF T, R
<1>9. QED
  BY <1>4, <1>6, <1>7, <1>8, Told

\* The submissions, records and entries of a course whose student is marked as V has it.
SubmittedAs(c, V) == {x \in SubmittedIn(c) : submitted[x] \in V}
RecordedAs(c, V) == {x \in RecordedIn(c) : recorded[x] \in V}
EntriesAs(E, c, V) == {i \in History(E) : i.course = c /\ i.present \in V}

\* The submissions of a course and what records stand for beside them have an entry each.
LEMMA CountedApart ==
  ASSUME TimetableInv, NEW E, E \subseteq ClassKeys, IsFiniteSet(E), NEW c, NEW V \in SUBSET BOOLEAN
  PROVE  /\ Cardinality(SubmittedAs(c, V)) \in Nat /\ Fallbacks(RecordedAs(c, V), E) \in Nat
         /\ Cardinality(SubmittedAs(c, V)) + Fallbacks(RecordedAs(c, V), E)
              <= Cardinality(EntriesAs(E, c, V))
<1> DEFINE A == {x \in SubmittedIn(c) : submitted[x] \in V}
           R == {x \in RecordedIn(c) : recorded[x] \in V}
           F == UNION {{x} \X (1..Fallback(x, E)) : x \in R}
           T == {i \in History(E) : i.course = c /\ i.present \in V}
           Own == {i \in T : \E k \in ClassKeys : i.class = <<k>> /\ <<k, i.date>> \in DOMAIN submitted}
           QA == {z \in A \X Own : z[2].class = <<z[1][1]>> /\ z[2].date = z[1][2]}
           QF == {z \in F \X (T \ Own) : z[2].date = z[1][1][2]}
<1>1. IsFiniteSet(T) /\ IsFiniteSet(Own) /\ IsFiniteSet(T \ Own)
  <2>1. T \subseteq History(E) /\ Own \subseteq T
    OBVIOUS
  <2>2. QED
    BY <2>1, HistoryFinite, FS_Subset, FS_Difference
<1>2. ASSUME NEW x \in A PROVE \E i \in Own : <<x, i>> \in QA
  <2>1. x \in Past(submitted) /\ CourseOf(x[1]) = c /\ submitted[x] \in V /\ x \in DOMAIN submitted
    BY DEF SubmittedIn, Past
  <2>2. x[1] \in ClassKeys /\ x = <<x[1], x[2]>>
    BY <2>1, AttendanceTyped
  <2>3. PICK i \in History(E) : i = Entry(<<x[1]>>, CourseOf(x[1]), x[2], submitted[x])
    BY <2>1, EntryOfSubmission
  <2>4. i.class = <<x[1]>> /\ i.course = c /\ i.date = x[2] /\ i.present \in V
    BY <2>1, <2>3 DEF Entry
  <2>5. i \in Own
    BY <2>1, <2>2, <2>4
  <2>6. QED
    BY <2>4, <2>5
<1>3. ASSUME NEW x \in A, NEW y \in A, NEW i \in Own, <<x, i>> \in QA, <<y, i>> \in QA PROVE x = y
  <2>1. x \in DOMAIN submitted /\ y \in DOMAIN submitted
    BY DEF SubmittedIn, Past
  <2>2. x = <<x[1], x[2]>> /\ y = <<y[1], y[2]>>
    BY <2>1, AttendanceTyped
  <2>3. <<x[1]>> = <<y[1]>> /\ x[2] = y[2]
    BY <1>3
  <2>4. QED
    BY <2>2, <2>3
<1>4. ASSUME NEW p \in F PROVE /\ \E i \in T \ Own : <<p, i>> \in QF
                               /\ p = <<p[1], 1>> /\ p[1] \in R
  <2>1. PICK x \in R : p \in {x} \X (1..Fallback(x, E))
    OBVIOUS
  <2>2. x \in Past(recorded) /\ x[1] = c /\ recorded[x] \in V
    BY DEF RecordedIn
  <2>3. p[1] = x /\ p[2] \in 1..Fallback(x, E) /\ p = <<p[1], p[2]>>
    BY <2>1
  <2>4. Fallback(x, E) = 1 /\ p[2] = 1
    BY <2>2, <2>3, EntryOfFallback
  <2>5. PICK i \in History(E) :
              /\ i.course = x[1] /\ i.date = x[2] /\ i.present = recorded[x]
              /\ \A k : i.class = <<k>> => <<k, x[2]>> \notin DOMAIN submitted
    BY <2>2, <2>4, EntryOfFallback
  <2>6. i \in T /\ i \notin Own
    BY <2>2, <2>5
  <2>7. QED
    BY <2>3, <2>4, <2>5, <2>6
<1>5. ASSUME NEW p \in F, NEW q \in F, NEW i \in T \ Own, <<p, i>> \in QF, <<q, i>> \in QF PROVE p = q
  <2>1. p[1] \in R /\ q[1] \in R /\ p = <<p[1], 1>> /\ q = <<q[1], 1>>
    BY <1>4
  <2>2. p[1][2] = q[1][2]
    BY <1>5
  <2>3. p[1] \in DOMAIN recorded /\ q[1] \in DOMAIN recorded /\ p[1][1] = c /\ q[1][1] = c
    BY <2>1 DEF RecordedIn, Past
  <2>4. p[1] = <<c, p[1][2]>> /\ q[1] = <<c, q[1][2]>>
    BY <2>3, AttendanceTyped
  <2>5. QED
    BY <2>1, <2>2, <2>4
<1>6. IsFiniteSet(A) /\ Cardinality(A) <= Cardinality(Own) /\ Cardinality(A) \in Nat /\ Cardinality(Own) \in Nat
  <2> HIDE DEF A, Own, QA
  <2>1. QED
    BY <1>1, <1>2, <1>3, Told
<1>7. IsFiniteSet(F) /\ Cardinality(F) <= Cardinality(T \ Own) /\ Cardinality(F) \in Nat
      /\ Cardinality(T \ Own) \in Nat
  <2>1. \A p \in F : \E i \in T \ Own : <<p, i>> \in QF
    BY <1>4
  <2> HIDE DEF F, Own, QF, T
  <2>2. QED
    BY <1>1, <2>1, <1>5, Told
<1>8. Cardinality(T \ Own) = Cardinality(T) - Cardinality(Own) /\ Cardinality(T) \in Nat
  <2>1. T \cap Own = Own
    OBVIOUS
  <2> HIDE DEF T, Own
  <2>2. Cardinality(T \ Own) = Cardinality(T) - Cardinality(T \cap Own)
    BY <1>1, FS_Difference
  <2>3. QED
    BY <1>1, <2>1, <2>2, FS_CardinalityType
<1>9. Fallbacks(R, E) = Cardinality(F)
  BY DEF Fallbacks
<1> HIDE DEF A, R, F, T, Own
<1>10. Cardinality(A) \in Nat /\ Fallbacks(R, E) \in Nat /\ Cardinality(A) + Fallbacks(R, E) <= Cardinality(T)
  BY <1>6, <1>7, <1>8, <1>9
<1>11. QED
  BY <1>10 DEF A, R, T, SubmittedAs, RecordedAs, EntriesAs

\* Neither the classes held nor the records of a course are more than its entries.
LEMMA CountedSingly ==
  ASSUME TimetableInv, NEW E, E \subseteq ClassKeys, IsFiniteSet(E), NEW c
  PROVE  LET held == UNION {{k} \X (1..CountDelivered(k)) : k \in {l \in E : CourseOf(l) = c}}
             entries == {i \in History(E) : i.course = c}
         IN  /\ Cardinality(held) \in Nat /\ Cardinality(held) <= Cardinality(entries)
             /\ Cardinality(RecordedIn(c)) \in Nat /\ Cardinality(RecordedIn(c)) <= Cardinality(entries)
             /\ Cardinality(entries) \in Nat /\ IsFiniteSet(entries)
<1> DEFINE held == UNION {{k} \X (1..CountDelivered(k)) : k \in {l \in E : CourseOf(l) = c}}
           T == {i \in History(E) : i.course = c}
           QH == {z \in held \X T : z[2].class = <<z[1][1]>> /\ z[2].date = DayOf(z[1][1], z[1][2])}
           QR == {z \in RecordedIn(c) \X T : z[2].date = z[1][2]}
<1>1. IsFiniteSet(T)
  <2>1. T \subseteq History(E)
    OBVIOUS
  <2>2. QED
    BY <2>1, HistoryFinite, FS_Subset
<1>2. ASSUME NEW p \in held
      PROVE  /\ p = <<p[1], p[2]>> /\ p[1] \in ClassKeys /\ p[2] \in Nat
             /\ \E i \in T : <<p, i>> \in QH
  <2>1. PICK k \in E : CourseOf(k) = c /\ p \in {k} \X (1..CountDelivered(k))
    OBVIOUS
  <2>2. p[1] = k /\ p[2] \in 1..CountDelivered(k) /\ p = <<p[1], p[2]>> /\ k \in ClassKeys
    BY <2>1
  <2>3. clock \in Dates \X (0..(LastEnd - 1))
    BY DEF TimetableInv, TimetableTypeOK
  <2>4. CountDelivered(k) \in Nat /\ DayOf(k, p[2]) \in 1..clock[1] /\ HeldOn(k, DayOf(k, p[2]))
    BY <2>2, <2>3, CountedWasHeld
  <2>5. DayOf(k, p[2]) \in Dates
    <3>1. clock[1] \in 1..LastDate
      BY <2>3 DEF Dates
    <3>2. QED
      BY <2>4, <3>1, TimetableConstants DEF Dates
  <2>6. PICK i \in History(E) : i.class = <<k>> /\ i.course = CourseOf(k) /\ i.date = DayOf(k, p[2])
    BY <2>4, <2>5, EntryOfClass
  <2>7. i \in T /\ <<p, i>> \in QH
    BY <2>1, <2>2, <2>6
  <2>8. p[2] \in Nat
    BY <2>2, <2>4
  <2> HIDE DEF held, T, QH
  <2>9. QED
    BY <2>2, <2>7, <2>8
<1>3. ASSUME NEW p \in held, NEW q \in held, NEW i \in T, <<p, i>> \in QH, <<q, i>> \in QH PROVE p = q
  <2>1. /\ p = <<p[1], p[2]>> /\ q = <<q[1], q[2]>> /\ p[1] \in ClassKeys
        /\ p[2] \in Nat /\ q[2] \in Nat
    BY <1>2
  <2>2. <<p[1]>> = <<q[1]>> /\ DayOf(p[1], p[2]) = DayOf(q[1], q[2])
    <3> HIDE DEF held, T
    <3>1. QED
      BY <1>3
  <2>3. p[1] = q[1]
    BY <2>2
  <2>4. p[2] = q[2]
    BY <2>1, <2>2, <2>3, DaysDiffer
  <2>5. QED
    BY <2>1, <2>3, <2>4
<1>4. ASSUME NEW x \in RecordedIn(c) PROVE \E i \in T : <<x, i>> \in QR
  <2>1. x \in Past(recorded) /\ x[1] = c
    BY DEF RecordedIn
  <2>2. PICK i \in History(E) : i.course = x[1] /\ i.date = x[2]
    BY <2>1, EntryOfRecord
  <2>3. QED
    BY <2>1, <2>2
<1>5. ASSUME NEW x \in RecordedIn(c), NEW y \in RecordedIn(c), NEW i \in T, <<x, i>> \in QR, <<y, i>> \in QR
      PROVE  x = y
  <2>1. x \in DOMAIN recorded /\ y \in DOMAIN recorded /\ x[1] = c /\ y[1] = c
    BY DEF RecordedIn, Past
  <2>2. x[2] = y[2]
    BY <1>5
  <2>3. x = <<c, x[2]>> /\ y = <<c, y[2]>>
    BY <2>1, AttendanceTyped
  <2>4. QED
    BY <2>2, <2>3
<1>6. \A p \in held : \E i \in T : <<p, i>> \in QH
  BY <1>2
<1> HIDE DEF held, T, QH, QR
<1>7. Cardinality(held) \in Nat /\ Cardinality(held) <= Cardinality(T) /\ Cardinality(T) \in Nat
  BY <1>1, <1>3, <1>6, Told
<1>8. Cardinality(RecordedIn(c)) \in Nat /\ Cardinality(RecordedIn(c)) <= Cardinality(T)
  BY <1>1, <1>4, <1>5, Told
<1>9. QED
  BY <1>1, <1>7, <1>8 DEF held, T

LEMMA GreatestOfThree ==
  ASSUME NEW n \in Nat, NEW a \in 0..n, NEW b \in 0..n, NEW c \in 0..n
  PROVE  Max({a, b, c}) \in 0..n
<1>1. \E x \in {a, b, c} : \A y \in {a, b, c} : y <= x
  BY GreatestNumber
<1>2. \E x \in {a, b, c} : \A y \in {a, b, c} : x >= y
  BY <1>1
<1>3. Max({a, b, c}) \in {a, b, c}
  BY <1>2 DEF Max
<1>4. QED
  BY <1>3

LEMMA LeastOfTwo ==
  ASSUME NEW a \in Nat, NEW b \in Nat
  PROVE  Min({a, b}) <= a
<1>1. \E x \in {a, b} : \A y \in {a, b} : x <= y
  <2>1. {a, b} \subseteq Nat /\ {a, b} # {}
    OBVIOUS
  <2>2. QED
    BY <2>1, LeastOf
<1>2. Min({a, b}) \in {a, b} /\ \A y \in {a, b} : Min({a, b}) <= y
  BY <1>1 DEF Min
<1>3. QED
  BY <1>2

LEMMA AggregateMatches ==
  ASSUME TimetableInv, NEW E, E \subseteq ClassKeys, IsFiniteSet(E), NEW c
  PROVE  LET entries == {i \in History(E) : i.course = c}
         IN  /\ Delivered(c, E) <= Cardinality(entries)
             /\ Attended(c, E) <= Cardinality({i \in entries : i.present})
<1> DEFINE entries == {i \in History(E) : i.course = c}
           shown == {i \in entries : i.present}
           held == UNION {{k} \X (1..CountDelivered(k)) : k \in {l \in E : CourseOf(l) = c}}
           present == Cardinality({x \in SubmittedIn(c) : submitted[x]})
                        + Fallbacks({x \in RecordedIn(c) : recorded[x]}, E)
           noted == Cardinality(SubmittedIn(c)) + Fallbacks(RecordedIn(c), E)
<1>1. /\ Cardinality(held) \in Nat /\ Cardinality(held) <= Cardinality(entries)
      /\ Cardinality(RecordedIn(c)) \in Nat /\ Cardinality(RecordedIn(c)) <= Cardinality(entries)
      /\ Cardinality(entries) \in Nat /\ IsFiniteSet(entries)
  BY CountedSingly
<1>2. noted \in Nat /\ noted <= Cardinality(entries)
  <2>1. SubmittedAs(c, BOOLEAN) = SubmittedIn(c)
    BY AttendanceTyped DEF SubmittedAs, SubmittedIn, Past
  <2>2. RecordedAs(c, BOOLEAN) = RecordedIn(c)
    BY AttendanceTyped DEF RecordedAs, RecordedIn, Past
  <2>3. EntriesAs(E, c, BOOLEAN) = entries
    BY HistoryFinite DEF EntriesAs
  <2>4. /\ Cardinality(SubmittedAs(c, BOOLEAN)) \in Nat /\ Fallbacks(RecordedAs(c, BOOLEAN), E) \in Nat
        /\ Cardinality(SubmittedAs(c, BOOLEAN)) + Fallbacks(RecordedAs(c, BOOLEAN), E)
             <= Cardinality(EntriesAs(E, c, BOOLEAN))
    BY CountedApart
  <2> HIDE DEF entries
  <2>5. QED
    BY <2>1, <2>2, <2>3, <2>4
<1>3. present \in Nat /\ present <= Cardinality(shown)
  <2>1. SubmittedAs(c, {TRUE}) = {x \in SubmittedIn(c) : submitted[x]}
    BY AttendanceTyped DEF SubmittedAs, SubmittedIn, Past
  <2>2. RecordedAs(c, {TRUE}) = {x \in RecordedIn(c) : recorded[x]}
    BY AttendanceTyped DEF RecordedAs, RecordedIn, Past
  <2>3. EntriesAs(E, c, {TRUE}) = shown
    BY HistoryFinite DEF EntriesAs
  <2>4. {TRUE} \in SUBSET BOOLEAN
    OBVIOUS
  <2>5. /\ Cardinality(SubmittedAs(c, {TRUE})) \in Nat /\ Fallbacks(RecordedAs(c, {TRUE}), E) \in Nat
        /\ Cardinality(SubmittedAs(c, {TRUE})) + Fallbacks(RecordedAs(c, {TRUE}), E)
             <= Cardinality(EntriesAs(E, c, {TRUE}))
    BY <2>4, CountedApart
  <2> DEFINE sat == {x \in SubmittedIn(c) : submitted[x]}
             noted1 == {x \in RecordedIn(c) : recorded[x]}
  <2>6. SubmittedAs(c, {TRUE}) = sat /\ RecordedAs(c, {TRUE}) = noted1
        /\ present = Cardinality(sat) + Fallbacks(noted1, E)
    BY <2>1, <2>2, Zenon
  <2> HIDE DEF shown, present, sat, noted1
  <2>7. QED
    BY <2>3, <2>5, <2>6
<1>4. Delivered(c, E) = Max({Cardinality(held), Cardinality(RecordedIn(c)), noted})
  BY DEF Delivered
<1>5. Attended(c, E) = Min({present, Delivered(c, E)})
  BY DEF Attended
<1>6. shown \subseteq entries
  OBVIOUS
<1>7. Cardinality(shown) \in Nat
  BY <1>1, <1>6, FS_Subset, FS_CardinalityType
<1> HIDE DEF entries, shown, held, present, noted
<1>8. Delivered(c, E) \in 0..Cardinality(entries)
  BY <1>1, <1>2, <1>4, GreatestOfThree
<1>9. Delivered(c, E) <= Cardinality(entries) /\ Delivered(c, E) \in Nat
  BY <1>1, <1>8
<1>10. Min({present, Delivered(c, E)}) <= present
  BY <1>3, <1>9, LeastOfTwo
<1>11. Attended(c, E) <= Cardinality(shown)
  <2>1. Min({present, Delivered(c, E)}) \in {present, Delivered(c, E)}
    <3>1. {present, Delivered(c, E)} \subseteq Nat /\ {present, Delivered(c, E)} # {}
      BY <1>3, <1>9
    <3>2. \E x \in {present, Delivered(c, E)} : \A y \in {present, Delivered(c, E)} : x <= y
      BY <3>1, LeastOf
    <3>3. QED
      BY <3>2 DEF Min
  <2>2. Min({present, Delivered(c, E)}) \in Nat
    BY <1>3, <1>9, <2>1
  <2>3. QED
    BY <1>3, <1>5, <1>7, <1>10, <2>2
<1>12. QED
  BY <1>9, <1>11 DEF entries, shown

LEMMA ShownHasEntry ==
  ASSUME TimetableInv, NEW E, E \subseteq ClassKeys, IsFiniteSet(E),
         NEW k \in ClassKeys, NEW d \in 1..clock[1], Weekday(d) = k[2], NEW present \in Shown(k, d)
  PROVE  \E i \in History(E) : i.course = CourseOf(k) /\ i.date = d /\ i.present = present
<1>0. d <= clock[1]
  BY AttendanceTyped
<1>1. CASE <<k, d>> \in DOMAIN submitted
  <2>1. present = submitted[<<k, d>>]
    BY <1>1 DEF Shown
  <2>2. <<k, d>> \in Past(submitted)
    BY <1>0, <1>1 DEF Past
  <2>3. PICK x \in Past(submitted) : x = <<k, d>>
    BY <2>2
  <2>4. Entry(<<x[1]>>, CourseOf(x[1]), x[2], submitted[x]) \in History(E)
    BY EntryOfSubmission
  <2>5. x[1] = k /\ x[2] = d /\ submitted[x] = present
    BY <2>1, <2>3
  <2>6. QED
    BY <2>4, <2>5 DEF Entry
<1>2. CASE <<k, d>> \notin DOMAIN submitted
  <2> DEFINE c == CourseOf(k)
             same == {l \in ClassRows : CourseOf(l) = c /\ l[2] = k[2]}
  <2>1. <<c, d>> \in DOMAIN recorded /\ same = {k} /\ present = recorded[<<c, d>>]
    BY <1>2 DEF Shown
  <2>2. <<c, d>> \in Past(recorded)
    BY <1>0, <2>1 DEF Past
  <2>3. PICK x \in Past(recorded) : x = <<c, d>>
    BY <2>2
  <2>4. x[1] = c /\ x[2] = d /\ recorded[x] = present
    BY <2>1, <2>3
  <2>5. ASSUME NEW y \in Sent(x) PROVE FALSE
    <3>1. y \in DOMAIN submitted /\ CourseOf(y[1]) = c /\ y[2] = d
      BY <2>4 DEF Sent, Past
    <3>2. y = <<y[1], y[2]>> /\ y[1] \in ClassRows /\ y[1][2] = k[2]
      BY <3>1, AttendanceTyped
    <3>3. y[1] \in same
      BY <3>1, <3>2
    <3>4. y[1] = k
      BY <2>1, <3>3
    <3>5. QED
      BY <1>2, <3>1, <3>2, <3>4
  <2>6. FromRecord(x, E) \subseteq History(E)
    BY HistoryIs DEF Listed
  <2>7. CASE Cardinality(Scheduled(x, E)) = 1 /\ (Scheduled(x, E) \X {x[2]}) \cap Past(submitted) = {}
    <3>1. Scheduled(x, E) \subseteq E
      BY DEF Scheduled
    <3>2. IsFiniteSet(Scheduled(x, E))
      BY <3>1, FS_Subset
    <3>3. PICK l : l \in Scheduled(x, E)
      BY <2>7, <3>2, FS_Singleton
    <3>4. Entry(<<l>>, x[1], x[2], recorded[x]) \in History(E)
      BY <2>6, <2>7, <3>3, FromRecordIs
    <3>5. QED
      BY <2>4, <3>4 DEF Entry
  <2>8. CASE ~(Cardinality(Scheduled(x, E)) = 1 /\ (Scheduled(x, E) \X {x[2]}) \cap Past(submitted) = {})
    <3>1. Entry(<<>>, x[1], x[2], recorded[x]) \in History(E)
      BY <2>5, <2>6, <2>8, FromRecordIs
    <3>2. QED
      BY <2>4, <3>1 DEF Entry
  <2>9. QED
    BY <2>7, <2>8
<1>3. QED
  BY <1>1, <1>2

LEMMA PagesMatchNow == TimetableInv => PagesMatch
<1> SUFFICES ASSUME TimetableInv PROVE PagesMatch
  OBVIOUS
<1> DEFINE E == Effective(Involved)
<1>1. E \subseteq ClassKeys /\ IsFiniteSet(E)
  BY EffectiveTyped
<1> HIDE DEF E
<1>2. ASSUME NEW c
      PROVE  LET entries == {i \in History(E) : i.course = c}
             IN  /\ Delivered(c, E) <= Cardinality(entries)
                 /\ Attended(c, E) <= Cardinality({i \in entries : i.present})
  BY <1>1, AggregateMatches
<1>3. ASSUME NEW k \in Effective(taken), NEW d \in 1..clock[1], Weekday(d) = k[2], NEW present \in Shown(k, d)
      PROVE  \E i \in History(E) : i.course = CourseOf(k) /\ i.date = d /\ i.present = present
  <2>1. k \in ClassKeys
    BY EffectiveTyped
  <2>2. QED
    BY <1>1, <1>3, <2>1, ShownHasEntry
<1>4. QED
  BY <1>2, <1>3 DEF PagesMatch, E

\* PagesMatch is an invariant of the timetable, for any overrides, enrolments, records and
\* dates: the totals never count more classes of a course, delivered or attended, than the
\* history lists, and a status the timetable shows is that of a listed entry of its day
\* (get_student_attendance_history, get_student_attendance_aggregate).
THEOREM PagesMatchAlways == TimetableSpec => []PagesMatch
<1>1. TimetableSpec => []TimetableInv
  BY TimetableInvInit, TimetableInvStep, PTL DEF TimetableSpec
<1>2. QED
  BY <1>1, PagesMatchNow, PTL

(***************************************************************************)
(* The event hub                                                           *)
(***************************************************************************)

HubSpec == HubInit /\ [][HubNext]_hubVars

(***************************************************************************)
(* Sequences                                                               *)
(***************************************************************************)

LEMMA AppendKeeps ==
  ASSUME NEW S, NEW s \in Seq(S), NEW x \in S
  PROVE  Append(s, x) \in Seq(S) /\ ToSet(Append(s, x)) = ToSet(s) \cup {x}
<1>1. /\ Append(s, x) \in Seq(S) /\ Len(Append(s, x)) = Len(s) + 1
      /\ \A i \in 1..Len(s) : Append(s, x)[i] = s[i]
      /\ Append(s, x)[Len(s) + 1] = x
  BY AppendProperties
<1>2. DOMAIN s = 1..Len(s) /\ DOMAIN Append(s, x) = 1..(Len(s) + 1) /\ Len(s) \in Nat
  BY <1>1, LenProperties
<1>3. QED
  BY <1>1, <1>2 DEF ToSet

LEMMA TailKeeps ==
  ASSUME NEW S, NEW s \in Seq(S), s # <<>>
  PROVE  /\ Tail(s) \in Seq(S) /\ Head(s) \in S /\ Head(s) \in ToSet(s)
         /\ ToSet(s) = ToSet(Tail(s)) \cup {Head(s)}
<1>1. /\ Head(s) \in S /\ Head(s) = s[1] /\ Tail(s) \in Seq(S) /\ Len(Tail(s)) = Len(s) - 1
      /\ \A i \in 1..Len(Tail(s)) : Tail(s)[i] = s[i + 1]
  BY HeadTailProperties
<1>2. DOMAIN s = 1..Len(s) /\ DOMAIN Tail(s) = 1..Len(Tail(s)) /\ Len(s) \in Nat /\ Len(s) >= 1
  BY <1>1, LenProperties, EmptySeq
<1>3. ASSUME NEW y \in ToSet(s) PROVE y \in ToSet(Tail(s)) \cup {Head(s)}
  <2>1. PICK i \in 1..Len(s) : y = s[i]
    BY <1>2 DEF ToSet
  <2>2. CASE i = 1
    BY <1>1, <2>1, <2>2
  <2>3. CASE i # 1
    <3>1. i - 1 \in 1..Len(Tail(s)) /\ Tail(s)[i - 1] = s[i]
      BY <1>1, <1>2, <2>1, <2>3
    <3>2. QED
      BY <1>2, <2>1, <3>1 DEF ToSet
  <2>4. QED
    BY <2>2, <2>3
<1>4. ASSUME NEW y \in ToSet(Tail(s)) PROVE y \in ToSet(s)
  <2>1. PICK i \in 1..Len(Tail(s)) : y = Tail(s)[i]
    BY <1>2 DEF ToSet
  <2>2. i + 1 \in 1..Len(s) /\ y = s[i + 1]
    BY <1>1, <1>2, <2>1
  <2>3. QED
    BY <1>2, <2>2 DEF ToSet
<1>5. Head(s) \in ToSet(s)
  <2>1. 1 \in 1..Len(s)
    BY <1>2
  <2>2. QED
    BY <1>1, <1>2, <2>1 DEF ToSet
<1>6. QED
  BY <1>1, <1>3, <1>4, <1>5

LEMMA RemoveAtKeeps ==
  ASSUME NEW S, NEW s \in Seq(S), NEW k \in 1..Len(s)
  PROVE  /\ RemoveAt(s, k) \in Seq(S) /\ Len(RemoveAt(s, k)) = Len(s) - 1
         /\ ToSet(RemoveAt(s, k)) \subseteq ToSet(s)
         /\ ToSet(s) \subseteq ToSet(RemoveAt(s, k)) \cup {s[k]}
<1> DEFINE before == SubSeq(s, 1, k - 1)
           after  == SubSeq(s, k + 1, Len(s))
<1>1. Len(s) \in Nat /\ DOMAIN s = 1..Len(s) /\ k \in Nat
  BY LenProperties
<1>2. /\ before \in Seq(S) /\ Len(before) = k - 1
      /\ \A i \in 1..(k - 1) : before[i] = s[i]
  <2>1. \A i \in 1..(k - 1) : i \in 1..Len(s)
    BY <1>1
  <2>2. /\ before \in Seq(S)
        /\ Len(before) = (IF 1 <= k - 1 THEN (k - 1) - 1 + 1 ELSE 0)
        /\ \A i \in 1..((k - 1) - 1 + 1) : before[i] = s[1 + i - 1]
    BY <1>1, <2>1, SubSeqProperties
  <2> HIDE DEF before
  <2>3. Len(before) = k - 1
    BY <1>1, <2>2
  <2>4. ASSUME NEW i \in 1..(k - 1) PROVE before[i] = s[i]
    <3>1. i \in 1..((k - 1) - 1 + 1) /\ 1 + i - 1 = i
      BY <1>1
    <3>2. QED
      BY <2>2, <3>1
  <2>5. QED
    BY <2>2, <2>3, <2>4
<1>3. /\ after \in Seq(S) /\ Len(after) = Len(s) - k
      /\ \A i \in 1..(Len(s) - k) : after[i] = s[k + i]
  <2>1. \A i \in (k + 1)..Len(s) : i \in 1..Len(s)
    BY <1>1
  <2>2. /\ after \in Seq(S)
        /\ Len(after) = (IF k + 1 <= Len(s) THEN Len(s) - (k + 1) + 1 ELSE 0)
        /\ \A i \in 1..(Len(s) - (k + 1) + 1) : after[i] = s[(k + 1) + i - 1]
    BY <1>1, <2>1, SubSeqProperties
  <2> HIDE DEF after
  <2>3. Len(after) = Len(s) - k
    <3>1. Len(s) \in Nat /\ k \in Nat /\ k <= Len(s)
      BY <1>1
    <3>2. Len(after) = (IF k + 1 <= Len(s) THEN Len(s) - (k + 1) + 1 ELSE 0)
      BY <2>2
    <3>3. QED
      BY <3>1, <3>2
  <2>4. ASSUME NEW i \in 1..(Len(s) - k) PROVE after[i] = s[k + i]
    <3>1. i \in 1..(Len(s) - (k + 1) + 1) /\ (k + 1) + i - 1 = k + i
      BY <1>1
    <3>2. QED
      BY <2>2, <3>1
  <2>5. QED
    BY <2>2, <2>3, <2>4
<1>4. RemoveAt(s, k) = before \o after
  BY DEF RemoveAt
<1> HIDE DEF before, after
<1>5. /\ before \o after \in Seq(S) /\ Len(before \o after) = Len(s) - 1
      /\ \A i \in 1..(Len(s) - 1) : (before \o after)[i] = IF i <= k - 1 THEN before[i] ELSE after[i - (k - 1)]
  <2>1. /\ before \o after \in Seq(S) /\ Len(before \o after) = Len(before) + Len(after)
        /\ \A i \in 1..(Len(before) + Len(after)) :
             (before \o after)[i] = IF i <= Len(before) THEN before[i] ELSE after[i - Len(before)]
    BY <1>2, <1>3, ConcatProperties
  <2>2. Len(before) + Len(after) = Len(s) - 1 /\ Len(before) = k - 1
    BY <1>1, <1>2, <1>3
  <2>3. QED
    BY <2>1, <2>2
<1>6. DOMAIN (before \o after) = 1..(Len(s) - 1)
  BY <1>5, LenProperties
<1>7. ASSUME NEW y \in ToSet(before \o after) PROVE y \in ToSet(s)
  <2>1. PICK i \in 1..(Len(s) - 1) : y = (before \o after)[i]
    BY <1>6, <1>7 DEF ToSet
  <2>2. y = s[i] \/ y = s[i + 1]
    <3>1. CASE i <= k - 1
      BY <1>1, <1>2, <1>5, <2>1, <3>1
    <3>2. CASE ~(i <= k - 1)
      <4>1. i - (k - 1) \in 1..(Len(s) - k) /\ k + (i - (k - 1)) = i + 1
        BY <1>1, <2>1, <3>2
      <4>2. QED
        BY <1>3, <1>5, <2>1, <3>2, <4>1
    <3>3. QED
      BY <3>1, <3>2
  <2>3. i \in DOMAIN s /\ i + 1 \in DOMAIN s
    BY <1>1, <2>1
  <2>4. QED
    BY <2>2, <2>3 DEF ToSet
<1>8. ASSUME NEW y \in ToSet(s) PROVE y \in ToSet(before \o after) \cup {s[k]}
  <2>1. PICK i \in 1..Len(s) : y = s[i]
    BY <1>1, <1>8 DEF ToSet
  <2>2. CASE i < k
    <3>1. i \in 1..(Len(s) - 1) /\ i <= k - 1 /\ i \in 1..(k - 1)
      BY <1>1, <2>1, <2>2
    <3>2. (before \o after)[i] = s[i]
      BY <1>2, <1>5, <3>1
    <3>3. QED
      BY <1>6, <2>1, <3>1, <3>2 DEF ToSet
  <2>3. CASE i = k
    BY <2>1, <2>3
  <2>4. CASE i > k
    <3>1. /\ i - 1 \in 1..(Len(s) - 1) /\ ~(i - 1 <= k - 1) /\ (i - 1) - (k - 1) \in 1..(Len(s) - k)
          /\ k + ((i - 1) - (k - 1)) = i
      BY <1>1, <2>1, <2>4
    <3>2. (before \o after)[i - 1] = s[i]
      BY <1>3, <1>5, <3>1
    <3>3. QED
      BY <1>6, <2>1, <3>1, <3>2 DEF ToSet
  <2>5. QED
    BY <1>1, <2>1, <2>2, <2>3, <2>4
<1>9. QED
  BY <1>4, <1>5, <1>7, <1>8

LEMMA NothingInEmpty == ToSet(<<>>) = {} /\ \A S : <<>> \in Seq(S)
  BY EmptySeq DEF ToSet

(***************************************************************************)
(* The invariant                                                           *)
(***************************************************************************)

Counters == [HubProcesses -> [Events -> Nat]]

HubShape ==
  /\ origin \in [Events -> Instance \cup {<<>>}]
  /\ restarts \in [HubProcesses -> 0..MaxRestarts]
  /\ cache \in [HubProcesses -> Seq(Events)]
  /\ channel \in [Backend -> [HubProcesses -> Seq(Events)]]
  /\ queued \subseteq Events
  /\ delivered \in Counters
  /\ republished \in Counters
  /\ forgotten \in Counters

\* An event that was not published is nowhere.
NowhereYet == \A e \in Events : origin[e] = <<>> =>
  /\ e \notin queued
  /\ \A p \in HubProcesses : e \notin ToSet(cache[p])
  /\ \A b \in Backend, p \in HubProcesses : e \notin ToSet(channel[b][p])

\* A delivery that is neither of the outbox nor of an event forgotten since is of an
\* event the instance published or still remembers.
Remembers(p, e) == e \in ToSet(cache[p]) \/ origin[e] = Self(p)
Accounted == \A p \in HubProcesses, e \in Events :
  delivered[p][e] <= republished[p][e] + forgotten[p][e] + (IF Remembers(p, e) THEN 1 ELSE 0)

HubInv == HubShape /\ NowhereYet /\ Accounted

LEMMA HubConstants ==
  /\ CacheSize \in Nat /\ CacheSize >= 1 /\ MaxRestarts \in Nat /\ MaxEvents \in Nat
  BY HubAssumption

LEMMA CountedTyped ==
  ASSUME NEW f \in Counters, NEW p \in HubProcesses, NEW e \in Events
  PROVE  /\ Counted(f, p, e) \in Counters
         /\ \A q \in HubProcesses, d \in Events :
              Counted(f, p, e)[q][d] = IF q = p /\ d = e THEN f[q][d] + 1 ELSE f[q][d]
<1> DEFINE row1 == [f[p] EXCEPT ![e] = f[p][e] + 1]
<1> USE DEF Counters
<1>1. Counted(f, p, e) = [f EXCEPT ![p] = row1]
  BY DEF Counted
<1>2. row1 \in [Events -> Nat] /\ \A d \in Events : row1[d] = IF d = e THEN f[p][d] + 1 ELSE f[p][d]
  <2>1. f[p] \in [Events -> Nat] /\ f[p][e] + 1 \in Nat
    OBVIOUS
  <2>2. QED
    BY <2>1
<1> HIDE DEF row1
<1>3. QED
  BY <1>1, <1>2

\* The cache of the process that hears of an event gains it, and whatever it loses is
\* counted as forgotten.
LEMMA TrackKeeps ==
  ASSUME HubShape, NEW p \in HubProcesses, NEW e \in Events, Track(p, e)
  PROVE  /\ cache' \in [HubProcesses -> Seq(Events)]
         /\ forgotten' \in Counters
         /\ \A q \in HubProcesses \ {p} : cache'[q] = cache[q] /\ forgotten'[q] = forgotten[q]
         /\ ToSet(cache'[p]) \subseteq ToSet(cache[p]) \cup {e}
         /\ \A d \in Events : forgotten'[p][d] >= forgotten[p][d]
         /\ \A d \in ToSet(cache[p]) \cup {e} :
              d \in ToSet(cache'[p]) \/ forgotten'[p][d] >= forgotten[p][d] + 1
<1> DEFINE s == cache[p]
           k == CHOOSE i \in DOMAIN s : s[i] = e
           r == IF e \in ToSet(s) THEN RemoveAt(s, k) ELSE s
           t == Remembered(p, e)
<1>1. s \in Seq(Events) /\ cache \in [HubProcesses -> Seq(Events)]
      /\ forgotten \in Counters
  BY DEF HubShape
<1>2. t = Append(r, e)
  BY DEF Remembered
<1>3. r \in Seq(Events) /\ ToSet(r) \subseteq ToSet(s) /\ ToSet(s) \subseteq ToSet(r) \cup {e}
  <2>1. CASE e \in ToSet(s)
    <3>1. \E i \in DOMAIN s : s[i] = e
      BY <2>1 DEF ToSet
    <3>2. k \in DOMAIN s /\ s[k] = e
      BY <3>1
    <3> HIDE DEF s, k
    <3>3. k \in 1..Len(s)
      BY <1>1, <3>2, LenProperties
    <3>4. r = RemoveAt(s, k)
      BY <2>1
    <3>5. QED
      BY <1>1, <3>2, <3>3, <3>4, RemoveAtKeeps
  <2>2. CASE e \notin ToSet(s)
    BY <1>1, <2>2
  <2>3. QED
    BY <2>1, <2>2
<1> HIDE DEF s, k, r
<1>4. t \in Seq(Events) /\ ToSet(t) = ToSet(s) \cup {e} /\ t # <<>>
  <2>1. t \in Seq(Events) /\ ToSet(t) = ToSet(r) \cup {e}
    BY <1>2, <1>3, AppendKeeps
  <2>2. t # <<>>
    BY <2>1, NothingInEmpty
  <2>3. QED
    BY <1>3, <2>1, <2>2
<1> HIDE DEF t
<1>5. CASE Len(t) > CacheSize
  <2>1. cache' = [cache EXCEPT ![p] = Tail(t)] /\ forgotten' = Counted(forgotten, p, Head(t))
    BY <1>5 DEF Track, t
  <2>2. Tail(t) \in Seq(Events) /\ Head(t) \in Events /\ ToSet(t) = ToSet(Tail(t)) \cup {Head(t)}
    BY <1>4, TailKeeps
  <2>3. /\ cache' \in [HubProcesses -> Seq(Events)]
        /\ \A q \in HubProcesses \ {p} : cache'[q] = cache[q]
        /\ cache'[p] = Tail(t)
    BY <1>1, <2>1, <2>2
  <2>4. /\ forgotten' \in Counters
        /\ \A q \in HubProcesses, d \in Events :
             forgotten'[q][d] = IF q = p /\ d = Head(t) THEN forgotten[q][d] + 1 ELSE forgotten[q][d]
    <3> DEFINE h == Head(t)
    <3>1. h \in Events /\ forgotten' = Counted(forgotten, p, h)
      BY <2>1, <2>2
    <3> HIDE DEF h
    <3>2. /\ forgotten' \in Counters
          /\ \A q \in HubProcesses, d \in Events :
               forgotten'[q][d] = IF q = p /\ d = h THEN forgotten[q][d] + 1 ELSE forgotten[q][d]
      <4>1. forgotten \in Counters
        BY <1>1
      <4>2. /\ Counted(forgotten, p, h) \in Counters
            /\ \A q \in HubProcesses, d \in Events :
                 Counted(forgotten, p, h)[q][d] = IF q = p /\ d = h THEN forgotten[q][d] + 1 ELSE forgotten[q][d]
        BY <3>1, <4>1, CountedTyped
      <4>3. QED
        BY <3>1, <4>2
    <3>3. QED
      BY <3>2 DEF h
  <2>5. \A q \in HubProcesses \ {p} : forgotten'[q] = forgotten[q]
    BY <1>1, <2>1 DEF Counted
  <2>6. \A d \in Events : forgotten[p][d] \in Nat
    BY <1>1 DEF Counters
  <2>7. \A d \in Events : forgotten'[p][d] >= forgotten[p][d]
    BY <2>4, <2>6
  <2>8. forgotten'[p][Head(t)] >= forgotten[p][Head(t)] + 1
    BY <2>2, <2>4, <2>6
  <2>9. QED
    BY <1>4, <2>2, <2>3, <2>4, <2>5, <2>7, <2>8 DEF s
<1>6. CASE ~(Len(t) > CacheSize)
  <2>1. cache' = [cache EXCEPT ![p] = t] /\ forgotten' = forgotten
    BY <1>6 DEF Track, t
  <2>2. /\ cache' \in [HubProcesses -> Seq(Events)]
        /\ \A q \in HubProcesses \ {p} : cache'[q] = cache[q]
        /\ cache'[p] = t
    BY <1>1, <1>4, <2>1
  <2>3. \A d \in Events : forgotten[p][d] \in Nat
    BY <1>1 DEF Counters
  <2>4. \A d \in Events : forgotten'[p][d] >= forgotten[p][d]
    BY <2>1, <2>3
  <2>5. QED
    BY <1>1, <1>4, <2>1, <2>2, <2>4 DEF s
<1>7. QED
  BY <1>5, <1>6

\* Nothing but the event appears in the channels.
LEMMA SpreadKeeps ==
  ASSUME HubShape, NEW sent, NEW e \in Events, Spread(sent, e)
  PROVE  /\ channel' \in [Backend -> [HubProcesses -> Seq(Events)]]
         /\ \A b \in Backend, p \in HubProcesses :
              ToSet(channel'[b][p]) \subseteq ToSet(channel[b][p]) \cup {e}
<1>1. \A b \in Backend : channel[b] \in [HubProcesses -> Seq(Events)]
  BY DEF HubShape
<1>2. \A b \in Backend, p \in HubProcesses :
        /\ Append(channel[b][p], e) \in Seq(Events)
        /\ ToSet(Append(channel[b][p], e)) = ToSet(channel[b][p]) \cup {e}
  BY <1>1, AppendKeeps
<1>3. channel' = [b \in Backend |-> IF b \notin sent \/ (b = "mongo" /\ e \in stored) THEN channel[b]
                   ELSE [p \in HubProcesses |-> Append(channel[b][p], e)]]
  BY DEF Spread
<1>4. \A b \in Backend : channel'[b] = channel[b]
                           \/ channel'[b] = [p \in HubProcesses |-> Append(channel[b][p], e)]
  BY <1>3
<1>5. \A b \in Backend : channel'[b] \in [HubProcesses -> Seq(Events)]
  BY <1>1, <1>2, <1>4
<1>6. \A b \in Backend, p \in HubProcesses :
        channel'[b][p] = channel[b][p] \/ channel'[b][p] = Append(channel[b][p], e)
  BY <1>4
<1>7. QED
  BY <1>2, <1>3, <1>5, <1>6

LEMMA SelfTyped ==
  ASSUME HubShape, NEW p \in HubProcesses
  PROVE  Self(p) \in Instance /\ Self(p) # <<>>
<1>1. restarts[p] \in 0..MaxRestarts
  BY DEF HubShape
<1>2. Self(p) \in Instance
  BY <1>1 DEF Self, Instance
<1>3. Self(p) # <<>>
  BY DEF Self
<1>4. QED
  BY <1>2, <1>3

\* The count of deliveries against what accounts for them, before and after.
LEMMA Balance ==
  ASSUME NEW n \in Nat, NEW r \in Nat, NEW g \in Nat, NEW r2 \in Nat, NEW g2 \in Nat,
         NEW k \in {0, 1}, NEW k2 \in {0, 1},
         n <= r + g + k, r2 >= r, g2 >= g, k = 1 => k2 = 1 \/ g2 >= g + 1
  PROVE  /\ n <= r2 + g2 + k2
         /\ (k2 = 1 \/ g2 >= g + 1) /\ (r2 >= r + 1 \/ k = 0) => n + 1 <= r2 + g2 + k2
  OBVIOUS

\* A process that hears of an event and gives it to its clients accounts for it: it took
\* it from the outbox, or did not remember it.
LEMMA HearingAccounts ==
  ASSUME HubInv, NEW p \in HubProcesses, NEW e \in Events, Track(p, e), restarts' = restarts,
         republished' \in Counters,
         \A q \in HubProcesses, d \in Events : republished'[q][d] >= republished[q][d],
         \A d \in Events : origin[d] # <<>> => origin'[d] = origin[d],
         \/ delivered' = delivered
         \/ /\ delivered' = Counted(delivered, p, e)
            /\ republished'[p][e] >= republished[p][e] + 1 \/ ~Remembers(p, e)
  PROVE  Accounted' /\ delivered' \in Counters
<1>1. HubShape /\ Accounted
  BY DEF HubInv
<1>2. /\ delivered \in Counters
      /\ republished \in Counters
      /\ forgotten \in Counters
  BY <1>1 DEF HubShape
<1>3. /\ forgotten' \in Counters
      /\ \A q \in HubProcesses \ {p} : cache'[q] = cache[q] /\ forgotten'[q] = forgotten[q]
      /\ \A d \in Events : forgotten'[p][d] >= forgotten[p][d]
      /\ \A d \in ToSet(cache[p]) \cup {e} :
           d \in ToSet(cache'[p]) \/ forgotten'[p][d] >= forgotten[p][d] + 1
  BY <1>1, TrackKeeps
<1>4. /\ delivered' \in Counters
      /\ \A q \in HubProcesses, d \in Events :
           (q # p \/ d # e \/ delivered' = delivered) => delivered'[q][d] = delivered[q][d]
      /\ delivered' # delivered => delivered'[p][e] = delivered[p][e] + 1
  <2>1. /\ Counted(delivered, p, e) \in Counters
        /\ \A q \in HubProcesses, d \in Events :
             Counted(delivered, p, e)[q][d] = IF q = p /\ d = e THEN delivered[q][d] + 1 ELSE delivered[q][d]
    <3>1. delivered \in Counters
      BY <1>2
    <3>2. QED
      BY <3>1, CountedTyped
  <2>2. CASE delivered' = delivered
    BY <1>2, <2>2
  <2>3. CASE delivered' = Counted(delivered, p, e)
    BY <2>1, <2>3
  <2>4. QED
    BY <2>2, <2>3
<1>5. ASSUME NEW q \in HubProcesses, NEW d \in Events
      PROVE  delivered'[q][d] <= republished'[q][d] + forgotten'[q][d] + (IF Remembers(q, d)' THEN 1 ELSE 0)
  <2>1. Self(q)' = Self(q) /\ (origin[d] = Self(q) => origin'[d] = Self(q)')
    BY <1>1, SelfTyped DEF Self
  <2>2. /\ delivered[q][d] \in Nat /\ republished[q][d] \in Nat /\ forgotten[q][d] \in Nat
        /\ delivered'[q][d] \in Nat /\ republished'[q][d] \in Nat /\ forgotten'[q][d] \in Nat
        /\ republished'[q][d] >= republished[q][d]
    BY <1>2, <1>3, <1>4 DEF Counters
  <2>3. delivered[q][d] <= republished[q][d] + forgotten[q][d] + (IF Remembers(q, d) THEN 1 ELSE 0)
    BY <1>1 DEF Accounted
  <2> DEFINE once == IF Remembers(q, d) THEN 1 ELSE 0
             once2 == IF Remembers(q, d)' THEN 1 ELSE 0
  <2>4. forgotten'[q][d] >= forgotten[q][d]
    <3>1. CASE q = p
      BY <1>3, <3>1
    <3>2. CASE q # p
      BY <1>3, <2>2, <3>2
    <3>3. QED
      BY <3>1, <3>2
  <2>5. Remembers(q, d) => Remembers(q, d)' \/ forgotten'[q][d] >= forgotten[q][d] + 1
    BY <1>3, <2>1 DEF Remembers
  <2>51. once \in {0, 1} /\ once2 \in {0, 1} /\ delivered[q][d] <= republished[q][d] + forgotten[q][d] + once
    BY <2>3
  <2>52. once = 1 => once2 = 1 \/ forgotten'[q][d] >= forgotten[q][d] + 1
    BY <2>5
  <2>53. (~Remembers(q, d) => once = 0) /\ (Remembers(q, d)' => once2 = 1)
    OBVIOUS
  <2> HIDE DEF once, once2
  <2>6. CASE delivered'[q][d] = delivered[q][d]
    <3>1. delivered'[q][d] <= republished'[q][d] + forgotten'[q][d] + once2
      BY <2>2, <2>4, <2>51, <2>52, <2>6, Balance
    <3>2. QED
      BY <3>1 DEF once2
  <2>7. CASE delivered'[q][d] # delivered[q][d]
    <3>1. q = p /\ d = e /\ delivered' # delivered
      BY <1>4, <2>7
    <3>2. delivered'[q][d] = delivered[q][d] + 1
      BY <1>4, <3>1
    <3>3. Remembers(q, d)' \/ forgotten'[q][d] >= forgotten[q][d] + 1
      BY <1>3, <3>1 DEF Remembers
    <3>4. republished'[q][d] >= republished[q][d] + 1 \/ ~Remembers(q, d)
      BY <3>1
    <3>5. once2 = 1 \/ forgotten'[q][d] >= forgotten[q][d] + 1
      BY <2>53, <3>3
    <3>6. republished'[q][d] >= republished[q][d] + 1 \/ once = 0
      BY <2>53, <3>4
    <3>7. delivered'[q][d] <= republished'[q][d] + forgotten'[q][d] + once2
      <4>1. (once2 = 1 \/ forgotten'[q][d] >= forgotten[q][d] + 1)
              /\ (republished'[q][d] >= republished[q][d] + 1 \/ once = 0)
            => delivered[q][d] + 1 <= republished'[q][d] + forgotten'[q][d] + once2
        BY <2>2, <2>4, <2>51, <2>52, Balance
      <4>2. QED
        BY <3>2, <3>5, <3>6, <4>1
    <3>8. QED
      BY <3>7 DEF once2
  <2>8. QED
    BY <2>6, <2>7
<1>6. QED
  BY <1>4, <1>5 DEF Accounted

LEMMA PublishStep ==
  ASSUME HubInv, NEW p \in HubProcesses, NEW e \in Events, NEW s \in Scopes, Publish(p, e, s)
  PROVE  HubInv'
<1>1. HubShape /\ NowhereYet
  BY DEF HubInv
<1>2. /\ origin[e] = <<>> /\ origin' = [origin EXCEPT ![e] = Self(p)] /\ Track(p, e)
      /\ delivered' = Counted(delivered, p, e) /\ republished' = republished /\ restarts' = restarts
  BY DEF Publish, PublishLocal
<1>3. PICK sent : Spread(sent, e)
  BY DEF Publish, PublishBackend
<1>4. queued' \subseteq queued \cup {e} /\ queued \subseteq Events
  BY <1>1 DEF Publish, Enqueue, HubShape
<1>5. /\ origin' \in [Events -> Instance \cup {<<>>}] /\ origin'[e] # <<>>
      /\ \A d \in Events : origin'[d] = <<>> => origin[d] = <<>> /\ d # e
      /\ \A d \in Events : origin[d] # <<>> => origin'[d] = origin[d]
  BY <1>1, <1>2, SelfTyped DEF HubShape
<1>6. ~Remembers(p, e)
  BY <1>1, <1>2, SelfTyped DEF NowhereYet, Remembers
<1>7. Accounted' /\ delivered' \in Counters
  <2>1. \A q \in HubProcesses, d \in Events : republished'[q][d] >= republished[q][d]
    BY <1>1, <1>2 DEF HubShape, Counters
  <2>2. republished' \in Counters
    BY <1>1, <1>2 DEF HubShape
  <2>3. QED
    BY <1>2, <1>5, <1>6, <2>1, <2>2, HearingAccounts
<1>8. HubShape'
  BY <1>1, <1>2, <1>3, <1>4, <1>5, <1>7, TrackKeeps, SpreadKeeps DEF HubShape
<1>9. NowhereYet'
  <2>1. /\ \A b \in Backend, q \in HubProcesses : ToSet(channel'[b][q]) \subseteq ToSet(channel[b][q]) \cup {e}
        /\ \A q \in HubProcesses : ToSet(cache'[q]) \subseteq ToSet(cache[q]) \cup {e}
    BY <1>1, <1>2, <1>3, TrackKeeps, SpreadKeeps
  <2>2. ASSUME NEW d \in Events, origin'[d] = <<>>
        PROVE  /\ d \notin queued'
               /\ \A q \in HubProcesses : d \notin ToSet(cache'[q])
               /\ \A b \in Backend, q \in HubProcesses : d \notin ToSet(channel'[b][q])
    <3>1. origin[d] = <<>> /\ d # e
      BY <1>5, <2>2
    <3>2. QED
      BY <1>1, <1>4, <2>1, <3>1 DEF NowhereYet
  <2>3. QED
    BY <2>2 DEF NowhereYet
<1>10. QED
  BY <1>7, <1>8, <1>9 DEF HubInv

LEMMA PublishPrebuiltStep ==
  ASSUME HubInv, NEW p \in HubProcesses, NEW e \in Events, PublishPrebuilt(p, e)
  PROVE  HubInv'
<1>1. HubShape /\ NowhereYet
  BY DEF HubInv
<1>2. /\ e \in queued /\ origin' = origin /\ Track(p, e) /\ restarts' = restarts
      /\ delivered' = Counted(delivered, p, e) /\ republished' = Counted(republished, p, e)
  BY DEF PublishPrebuilt, PublishLocal
<1>3. PICK sent : Spread(sent, e)
  BY DEF PublishPrebuilt, PublishBackend
<1>4. queued' \subseteq queued /\ queued \subseteq Events
  BY <1>1 DEF PublishPrebuilt, HubShape
<1>5. origin[e] # <<>>
  BY <1>1, <1>2 DEF NowhereYet
<1>6. /\ republished' \in Counters
      /\ \A q \in HubProcesses, d \in Events : republished'[q][d] >= republished[q][d]
      /\ republished'[p][e] >= republished[p][e] + 1
  <2>1. republished \in Counters
    BY <1>1 DEF HubShape
  <2>2. /\ republished' \in Counters
        /\ \A q \in HubProcesses, d \in Events :
             republished'[q][d] = IF q = p /\ d = e THEN republished[q][d] + 1 ELSE republished[q][d]
    BY <1>2, <2>1, CountedTyped
  <2>3. \A q \in HubProcesses, d \in Events : republished[q][d] \in Nat
    BY <2>1 DEF Counters
  <2>4. QED
    BY <2>2, <2>3
<1>7. Accounted' /\ delivered' \in Counters
  BY <1>2, <1>6, HearingAccounts
<1>8. HubShape'
  BY <1>1, <1>2, <1>3, <1>4, <1>6, <1>7, TrackKeeps, SpreadKeeps DEF HubShape
<1>9. NowhereYet'
  <2>1. /\ \A b \in Backend, q \in HubProcesses : ToSet(channel'[b][q]) \subseteq ToSet(channel[b][q]) \cup {e}
        /\ \A q \in HubProcesses : ToSet(cache'[q]) \subseteq ToSet(cache[q]) \cup {e}
    BY <1>1, <1>2, <1>3, TrackKeeps, SpreadKeeps
  <2>2. QED
    BY <1>1, <1>2, <1>4, <1>5, <2>1 DEF NowhereYet
<1>10. QED
  BY <1>7, <1>8, <1>9 DEF HubInv

\* A channel without its first event, or empty.
LEMMA OnBackendMessageStep ==
  ASSUME HubInv, NEW b \in Backend, NEW p \in HubProcesses, OnBackendMessage(b, p)
  PROVE  HubInv'
<1> DEFINE e == Head(channel[b][p])
           u == Tail(channel[b][p])
<1>1. HubShape /\ NowhereYet /\ Accounted /\ channel \in [Backend -> [HubProcesses -> Seq(Events)]]
  BY DEF HubInv, HubShape
<1>2. /\ channel' = [channel EXCEPT ![b] = [channel[b] EXCEPT ![p] = u]] /\ channel[b][p] # <<>>
      /\ UNCHANGED <<origin, restarts, queued, republished>>
  BY DEF OnBackendMessage
<1>3. channel[b] \in [HubProcesses -> Seq(Events)] /\ channel[b][p] \in Seq(Events)
  BY <1>1
<1>4. u \in Seq(Events) /\ e \in Events /\ e \in ToSet(channel[b][p])
      /\ ToSet(u) \subseteq ToSet(channel[b][p])
  BY <1>2, <1>3, TailKeeps
<1>5. \/ UNCHANGED <<cache, forgotten, delivered>>
      \/ /\ origin[e] # Self(p) /\ Track(p, e)
         /\ delivered' = delivered \/ (e \notin ToSet(cache[p]) /\ delivered' = Counted(delivered, p, e))
  BY DEF OnBackendMessage, Take, PublishLocal
<1> HIDE DEF e, u
<1>6. /\ channel' \in [Backend -> [HubProcesses -> Seq(Events)]]
      /\ \A c \in Backend, q \in HubProcesses : ToSet(channel'[c][q]) \subseteq ToSet(channel[c][q])
  <2> DEFINE row1 == [channel[b] EXCEPT ![p] = u]
  <2>1. row1 \in [HubProcesses -> Seq(Events)]
        /\ \A q \in HubProcesses : ToSet(row1[q]) \subseteq ToSet(channel[b][q])
    BY <1>3, <1>4
  <2>2. channel' = [channel EXCEPT ![b] = row1]
    BY <1>2
  <2> HIDE DEF row1
  <2>3. QED
    BY <1>1, <2>1, <2>2
<1>7. CASE UNCHANGED <<cache, forgotten, delivered>>
  <2>1. HubShape'
    BY <1>1, <1>2, <1>6, <1>7 DEF HubShape
  <2>2. NowhereYet'
    BY <1>1, <1>2, <1>6, <1>7 DEF NowhereYet
  <2>3. Accounted'
    BY <1>1, <1>2, <1>7 DEF Accounted, Remembers, Self
  <2>4. QED
    BY <2>1, <2>2, <2>3 DEF HubInv
<1>8. CASE /\ origin[e] # Self(p) /\ Track(p, e)
           /\ delivered' = delivered \/ (e \notin ToSet(cache[p]) /\ delivered' = Counted(delivered, p, e))
  <2>1. origin[e] # <<>>
    BY <1>1, <1>4 DEF NowhereYet
  <2>2. /\ republished' \in Counters
        /\ \A q \in HubProcesses, d \in Events : republished'[q][d] >= republished[q][d]
    <3>1. republished \in Counters /\ republished' = republished
      BY <1>1, <1>2 DEF HubShape
    <3>2. \A q \in HubProcesses, d \in Events : republished[q][d] >= republished[q][d]
      BY <3>1 DEF Counters
    <3>3. QED
      BY <3>1, <3>2
  <2>3. Accounted' /\ delivered' \in Counters
    <3>1. delivered' = delivered \/ (delivered' = Counted(delivered, p, e) /\ ~Remembers(p, e))
      BY <1>8 DEF Remembers
    <3>2. \A d \in Events : origin[d] # <<>> => origin'[d] = origin[d]
      BY <1>2
    <3>3. QED
      BY <1>2, <1>4, <1>8, <2>2, <3>1, <3>2, HearingAccounts
  <2>4. /\ cache' \in [HubProcesses -> Seq(Events)] /\ forgotten' \in Counters
        /\ \A q \in HubProcesses : ToSet(cache'[q]) \subseteq ToSet(cache[q]) \cup {e}
    BY <1>1, <1>4, <1>8, TrackKeeps
  <2>5. HubShape'
    BY <1>1, <1>2, <1>6, <2>2, <2>3, <2>4 DEF HubShape
  <2>6. NowhereYet'
    <3>1. ASSUME NEW d \in Events, origin'[d] = <<>>
          PROVE  /\ d \notin queued'
                 /\ \A q \in HubProcesses : d \notin ToSet(cache'[q])
                 /\ \A c \in Backend, q \in HubProcesses : d \notin ToSet(channel'[c][q])
      <4>1. origin[d] = <<>> /\ d # e
        BY <1>2, <2>1, <3>1
      <4>2. QED
        <5>1. /\ d \notin queued
              /\ \A q \in HubProcesses : d \notin ToSet(cache[q])
              /\ \A c \in Backend, q \in HubProcesses : d \notin ToSet(channel[c][q])
          BY <1>1, <4>1 DEF NowhereYet
        <5>2. \A c \in Backend, q \in HubProcesses : d \notin ToSet(channel'[c][q])
          BY <1>6, <5>1
        <5>3. QED
          BY <1>2, <2>4, <4>1, <5>1, <5>2
    <3>2. QED
      BY <3>1 DEF NowhereYet
  <2>7. QED
    BY <2>3, <2>5, <2>6 DEF HubInv
<1>9. QED
  BY <1>5, <1>7, <1>8

LEMMA LoseConnectionStep ==
  ASSUME HubInv, NEW b \in Backend, NEW p \in HubProcesses, LoseConnection(b, p)
  PROVE  HubInv'
<1>1. HubShape /\ NowhereYet /\ Accounted /\ channel \in [Backend -> [HubProcesses -> Seq(Events)]]
  BY DEF HubInv, HubShape
<1>2. /\ channel' = [channel EXCEPT ![b] = [channel[b] EXCEPT ![p] = <<>>]]
      /\ UNCHANGED <<origin, restarts, cache, queued, delivered, republished, forgotten>>
  BY DEF LoseConnection
<1>3. /\ channel' \in [Backend -> [HubProcesses -> Seq(Events)]]
      /\ \A c \in Backend, q \in HubProcesses : ToSet(channel'[c][q]) \subseteq ToSet(channel[c][q])
  <2> DEFINE row1 == [channel[b] EXCEPT ![p] = <<>>]
  <2>1. row1 \in [HubProcesses -> Seq(Events)]
        /\ \A q \in HubProcesses : ToSet(row1[q]) \subseteq ToSet(channel[b][q])
    BY <1>1, NothingInEmpty
  <2>2. channel' = [channel EXCEPT ![b] = row1]
    BY <1>2
  <2> HIDE DEF row1
  <2>3. QED
    BY <1>1, <2>1, <2>2
<1>4. QED
  BY <1>1, <1>2, <1>3 DEF HubInv, HubShape, NowhereYet, Accounted, Remembers, Self

\* What lapses is counted as forgotten.
LEMMA LapseStep ==
  ASSUME HubInv, NEW p \in HubProcesses, Lapse(p)
  PROVE  HubInv'
<1> DEFINE h == Head(cache[p])
           u == Tail(cache[p])
<1>1. HubShape /\ NowhereYet /\ Accounted /\ cache \in [HubProcesses -> Seq(Events)]
      /\ forgotten \in Counters /\ republished \in Counters
      /\ delivered \in Counters
  BY DEF HubInv, HubShape
<1>2. /\ cache' = [cache EXCEPT ![p] = u] /\ forgotten' = Counted(forgotten, p, h) /\ cache[p] # <<>>
      /\ UNCHANGED <<origin, restarts, channel, queued, delivered, republished>>
  BY DEF Lapse
<1>3. u \in Seq(Events) /\ h \in Events /\ ToSet(cache[p]) = ToSet(u) \cup {h}
  BY <1>1, <1>2, TailKeeps
<1> HIDE DEF h, u
<1>4. cache' \in [HubProcesses -> Seq(Events)] /\ cache'[p] = u
      /\ \A q \in HubProcesses \ {p} : cache'[q] = cache[q]
  BY <1>1, <1>2, <1>3
<1>5. /\ forgotten' \in Counters
      /\ \A q \in HubProcesses, d \in Events :
           forgotten'[q][d] = IF q = p /\ d = h THEN forgotten[q][d] + 1 ELSE forgotten[q][d]
  <2>1. /\ Counted(forgotten, p, h) \in Counters
        /\ \A q \in HubProcesses, d \in Events :
             Counted(forgotten, p, h)[q][d] = IF q = p /\ d = h THEN forgotten[q][d] + 1 ELSE forgotten[q][d]
    <3>1. forgotten \in Counters
      BY <1>1
    <3>2. QED
      BY <1>3, <3>1, CountedTyped
  <2>2. QED
    BY <1>2, <2>1
<1>6. HubShape'
  BY <1>1, <1>2, <1>4, <1>5 DEF HubShape
<1>7. NowhereYet'
  BY <1>1, <1>2, <1>3, <1>4 DEF NowhereYet
<1>8. ASSUME NEW q \in HubProcesses, NEW d \in Events
      PROVE  delivered'[q][d] <= republished'[q][d] + forgotten'[q][d] + (IF Remembers(q, d)' THEN 1 ELSE 0)
  <2>1. /\ delivered[q][d] \in Nat /\ republished[q][d] \in Nat /\ forgotten[q][d] \in Nat
        /\ delivered'[q][d] = delivered[q][d] /\ republished'[q][d] = republished[q][d]
    BY <1>1, <1>2 DEF Counters
  <2>2. delivered[q][d] <= republished[q][d] + forgotten[q][d] + (IF Remembers(q, d) THEN 1 ELSE 0)
    BY <1>1 DEF Accounted
  <2>3. CASE q = p /\ d = h
    BY <1>5, <2>1, <2>2, <2>3
  <2>4. CASE ~(q = p /\ d = h)
    <3>1. Remembers(q, d) => Remembers(q, d)'
      BY <1>2, <1>3, <1>4, <2>4 DEF Remembers, Self
    <3>2. forgotten'[q][d] = forgotten[q][d]
      BY <1>5, <2>4
    <3>3. QED
      BY <2>1, <2>2, <3>1, <3>2
  <2>5. QED
    BY <2>3, <2>4
<1>9. QED
  BY <1>6, <1>7, <1>8 DEF HubInv, Accounted

LEMMA RestartStep ==
  ASSUME HubInv, NEW p \in HubProcesses, Restart(p)
  PROVE  HubInv'
<1> DEFINE none == [e \in Events |-> 0]
<1>1. HubShape /\ NowhereYet /\ Accounted
  BY DEF HubInv
<1>2. /\ restarts' = [restarts EXCEPT ![p] = restarts[p] + 1] /\ restarts[p] < MaxRestarts
      /\ cache' = [cache EXCEPT ![p] = <<>>]
      /\ channel' = [b \in Backend |-> [channel[b] EXCEPT ![p] = <<>>]]
      /\ delivered' = [delivered EXCEPT ![p] = none] /\ republished' = [republished EXCEPT ![p] = none]
      /\ forgotten' = [forgotten EXCEPT ![p] = none]
      /\ UNCHANGED <<origin, queued>>
  BY DEF Restart
<1>3. none \in [Events -> Nat] /\ \A e \in Events : none[e] = 0
  OBVIOUS
<1> HIDE DEF none
<1>4. restarts' \in [HubProcesses -> 0..MaxRestarts]
  BY <1>1, <1>2, HubConstants DEF HubShape
<1>5. /\ cache' \in [HubProcesses -> Seq(Events)]
      /\ \A q \in HubProcesses : ToSet(cache'[q]) \subseteq ToSet(cache[q])
  BY <1>1, <1>2, NothingInEmpty DEF HubShape
<1>6. /\ channel' \in [Backend -> [HubProcesses -> Seq(Events)]]
      /\ \A b \in Backend, q \in HubProcesses : ToSet(channel'[b][q]) \subseteq ToSet(channel[b][q])
  <2>1. \A b \in Backend : channel[b] \in [HubProcesses -> Seq(Events)]
    BY <1>1 DEF HubShape
  <2>2. \A b \in Backend : channel'[b] = [channel[b] EXCEPT ![p] = <<>>]
    BY <1>2
  <2>3. ASSUME NEW b \in Backend PROVE channel'[b] \in [HubProcesses -> Seq(Events)]
    <3>1. <<>> \in Seq(Events)
      BY NothingInEmpty
    <3>2. QED
      <4> DEFINE ch == channel[b]
      <4>1. ch \in [HubProcesses -> Seq(Events)] /\ channel'[b] = [ch EXCEPT ![p] = <<>>]
        BY <2>1, <2>2
      <4> HIDE DEF ch
      <4>2. QED
        BY <3>1, <4>1
  <2>4. \A b \in Backend, q \in HubProcesses : channel'[b][q] = <<>> \/ channel'[b][q] = channel[b][q]
    BY <2>1, <2>2
  <2>5. QED
    BY <1>2, <2>3, <2>4, NothingInEmpty
<1>7. /\ delivered' \in Counters /\ republished' \in Counters
      /\ forgotten' \in Counters
  BY <1>1, <1>2, <1>3 DEF HubShape, Counters
<1>8. HubShape'
  BY <1>1, <1>2, <1>4, <1>5, <1>6, <1>7 DEF HubShape
<1>9. NowhereYet'
  BY <1>1, <1>2, <1>5, <1>6 DEF NowhereYet
<1>10. ASSUME NEW q \in HubProcesses, NEW d \in Events
       PROVE  delivered'[q][d] <= republished'[q][d] + forgotten'[q][d] + (IF Remembers(q, d)' THEN 1 ELSE 0)
  <2>1. CASE q = p
    <3>1. delivered'[p] = none /\ republished'[p] = none /\ forgotten'[p] = none
      BY <1>1, <1>2 DEF HubShape, Counters
    <3>2. QED
      BY <1>3, <2>1, <3>1
  <2>2. CASE q # p
    <3>1. /\ delivered'[q] = delivered[q] /\ republished'[q] = republished[q] /\ forgotten'[q] = forgotten[q]
          /\ cache'[q] = cache[q] /\ restarts'[q] = restarts[q]
      BY <1>1, <1>2, <2>2 DEF HubShape
    <3>2. Remembers(q, d)' = Remembers(q, d)
      BY <1>2, <3>1 DEF Remembers, Self
    <3>3. QED
      BY <1>1, <3>1, <3>2 DEF Accounted
  <2>3. QED
    BY <2>1, <2>2
<1>11. QED
  BY <1>8, <1>9, <1>10 DEF HubInv, Accounted

LEMMA HubInvInit == HubInit => HubInv
<1> SUFFICES ASSUME HubInit PROVE HubInv
  OBVIOUS
<1> USE DEF HubInit
<1>1. 0 \in 0..MaxRestarts /\ <<>> \in Seq(Events) /\ ToSet(<<>>) = {}
  BY HubConstants, NothingInEmpty
<1>2. origin \in [Events -> Instance \cup {<<>>}] /\ restarts \in [HubProcesses -> 0..MaxRestarts]
  BY <1>1
<1>3. /\ cache \in [HubProcesses -> Seq(Events)] /\ channel \in [Backend -> [HubProcesses -> Seq(Events)]]
      /\ queued = {}
      /\ \A p \in HubProcesses : cache[p] = <<>>
      /\ \A b \in Backend, p \in HubProcesses : channel[b][p] = <<>>
  BY <1>1
<1>4. /\ delivered \in Counters /\ republished = delivered /\ forgotten = delivered
      /\ \A p \in HubProcesses, e \in Events : delivered[p][e] = 0
  BY DEF Counters
<1>5. HubShape
  BY <1>2, <1>3, <1>4 DEF HubShape
<1>6. NowhereYet
  BY <1>1, <1>3 DEF NowhereYet
<1>7. Accounted
  BY <1>4 DEF Accounted
<1>8. QED
  BY <1>5, <1>6, <1>7 DEF HubInv

LEMMA HubInvStep == HubInv /\ [HubNext]_hubVars => HubInv'
<1> SUFFICES ASSUME HubInv, [HubNext]_hubVars PROVE HubInv'
  OBVIOUS
<1>1. ASSUME UNCHANGED <<origin, restarts, cache, channel, queued, delivered, republished, forgotten>>
      PROVE  HubInv'
  BY <1>1 DEF HubInv, HubShape, NowhereYet, Accounted, Remembers, Self
<1>2. CASE UNCHANGED hubVars
  BY <1>1, <1>2 DEF hubVars
<1>3. ASSUME NEW p \in HubProcesses, Connect(p, {"role:staff"}) \/ Receive(p) \/ Unsubscribe(p) PROVE HubInv'
  BY <1>1, <1>3 DEF Connect, Receive, Unsubscribe, OnlyClient
<1>4. QED
  BY <1>2, <1>3, PublishStep, PublishPrebuiltStep, OnBackendMessageStep, LoseConnectionStep,
     LapseStep, RestartStep DEF HubNext

\* DeliveredOnce is an invariant: for every number of processes, backends and events, and
\* however often connections, processes and publications fail, an instance gives an event
\* to its clients once, but for each time it took it from the outbox or had forgotten it
\* (_track_recent_event, _on_backend_message).
THEOREM DeliveredOnceAlways == HubSpec => []DeliveredOnce
<1>1. HubSpec => []HubInv
  BY HubInvInit, HubInvStep, PTL DEF HubSpec
<1>2. HubInv => DeliveredOnce
  <2> SUFFICES ASSUME HubInv, NEW p \in HubProcesses, NEW e \in Events
               PROVE  delivered[p][e] <= 1 + republished[p][e] + forgotten[p][e]
    BY DEF DeliveredOnce
  <2>1. delivered[p][e] \in Nat /\ republished[p][e] \in Nat /\ forgotten[p][e] \in Nat
    BY DEF HubInv, HubShape, Counters
  <2>2. delivered[p][e] <= republished[p][e] + forgotten[p][e] + (IF Remembers(p, e) THEN 1 ELSE 0)
    BY DEF HubInv, Accounted
  <2>3. QED
    BY <2>1, <2>2
<1>3. QED
  BY <1>1, <1>2, PTL

(***************************************************************************)
(* The bounds of caches and queues                                         *)
(***************************************************************************)

Clients == [scopes : SUBSET Scopes, queue : Seq(Events)]

\* Neither a cache nor a client's queue outgrows its bound.
WithinBounds ==
  /\ scope \in [Events -> Scopes] /\ stored \subseteq Events
  /\ stream \in [HubProcesses -> Clients]
  /\ \A p \in HubProcesses : Len(stream[p].queue) <= StreamSize /\ Len(cache[p]) <= CacheSize

HubBounded == HubInv /\ WithinBounds

LEMMA HubTyped == HubBounded => HubTypeOK
<1> SUFFICES ASSUME HubBounded PROVE HubTypeOK
  OBVIOUS
<1>1. HubShape /\ WithinBounds
  BY DEF HubBounded, HubInv
<1>2. ASSUME NEW s \in Seq(Events) PROVE ToSet(s) \subseteq Events
  BY DEF ToSet
<1>3. \A p \in HubProcesses : ToSet(cache[p]) \subseteq Events
  BY <1>1, <1>2 DEF HubShape
<1>4. \A b \in Backend, p \in HubProcesses : ToSet(channel[b][p]) \subseteq Events
  BY <1>1, <1>2 DEF HubShape
<1>5. \A p \in HubProcesses : stream[p].scopes \subseteq Scopes
  BY <1>1 DEF WithinBounds, Clients
<1>6. QED
  BY <1>1, <1>3, <1>4, <1>5 DEF HubShape, WithinBounds, HubTypeOK, Counters

LEMMA NoClientTyped == NoClient \in Clients /\ Len(NoClient.queue) = 0
<1>1. <<>> \in Seq(Events) /\ Len(<<>>) = 0
  BY EmptySeq
<1>2. QED
  BY <1>1 DEF NoClient, Clients

LEMMA SizesTyped == CacheSize \in Nat /\ CacheSize >= 1 /\ StreamSize \in Nat /\ StreamSize >= 1
  BY HubAssumption

LEMMA TailShortens ==
  ASSUME NEW S, NEW s \in Seq(S), s # <<>>
  PROVE  Tail(s) \in Seq(S) /\ Len(Tail(s)) = Len(s) - 1 /\ Len(s) \in Nat
  BY HeadTailProperties, LenProperties

LEMMA TrackBounds ==
  ASSUME HubBounded, NEW p \in HubProcesses, NEW e \in Events, Track(p, e)
  PROVE  \A q \in HubProcesses : Len(cache'[q]) <= CacheSize
<1> DEFINE s == cache[p]
           k == CHOOSE i \in DOMAIN s : s[i] = e
           r == IF e \in ToSet(s) THEN RemoveAt(s, k) ELSE s
           t == Remembered(p, e)
<1>1. s \in Seq(Events) /\ cache \in [HubProcesses -> Seq(Events)] /\ Len(s) <= CacheSize /\ Len(s) \in Nat
      /\ \A q \in HubProcesses : Len(cache[q]) <= CacheSize
  BY LenProperties DEF HubBounded, HubInv, HubShape, WithinBounds
<1>2. t = Append(r, e)
  BY DEF Remembered
<1>3. r \in Seq(Events) /\ Len(r) <= CacheSize
  <2>1. CASE e \in ToSet(s)
    <3>1. \E i \in DOMAIN s : s[i] = e
      BY <2>1 DEF ToSet
    <3>2. k \in DOMAIN s
      BY <3>1
    <3>3. r = RemoveAt(s, k)
      BY <2>1
    <3> HIDE DEF s, k, r
    <3>4. k \in 1..Len(s)
      BY <1>1, <3>2, LenProperties
    <3>5. r \in Seq(Events) /\ Len(r) = Len(s) - 1
      BY <1>1, <3>3, <3>4, RemoveAtKeeps
    <3>6. QED
      BY <1>1, <3>5, SizesTyped
  <2>2. CASE e \notin ToSet(s)
    BY <1>1, <2>2
  <2>3. QED
    BY <2>1, <2>2
<1> HIDE DEF s, k, r
<1>4. t \in Seq(Events) /\ Len(t) <= CacheSize + 1 /\ Len(t) \in Nat /\ Len(t) >= 1
  <2>1. t \in Seq(Events) /\ Len(t) = Len(r) + 1 /\ Len(r) \in Nat
    BY <1>2, <1>3, AppendProperties, LenProperties
  <2>2. QED
    BY <1>3, <2>1, SizesTyped
<1> HIDE DEF t
<1>5. CASE Len(t) > CacheSize
  <2>1. cache' = [cache EXCEPT ![p] = Tail(t)]
    BY <1>5 DEF Track, t
  <2>2. t # <<>>
    BY <1>4, EmptySeq
  <2>3. Len(Tail(t)) <= CacheSize
    BY <1>4, <2>2, TailShortens, SizesTyped
  <2>4. QED
    BY <1>1, <2>1, <2>3
<1>6. CASE ~(Len(t) > CacheSize)
  <2>1. cache' = [cache EXCEPT ![p] = t]
    BY <1>6 DEF Track, t
  <2>2. Len(t) <= CacheSize
    BY <1>4, <1>6, SizesTyped
  <2>3. QED
    BY <1>1, <2>1, <2>2
<1>7. QED
  BY <1>5, <1>6

LEMMA PublishBounds ==
  ASSUME WithinBounds, NEW p \in HubProcesses, NEW e \in Events, NEW s, PublishLocal(p, e, s)
  PROVE  stream' \in [HubProcesses -> Clients]
         /\ \A q \in HubProcesses : Len(stream'[q].queue) <= StreamSize
<1> DEFINE queue == stream[p].queue
<1>1. /\ stream \in [HubProcesses -> Clients] /\ queue \in Seq(Events) /\ Len(queue) <= StreamSize
      /\ Len(queue) \in Nat /\ \A q \in HubProcesses : Len(stream[q].queue) <= StreamSize
  BY LenProperties DEF WithinBounds, Clients
<1>2. Room(queue) \in Seq(Events) /\ Len(Room(queue)) <= StreamSize - 1 /\ Len(Room(queue)) \in Nat
  <2> HIDE DEF queue
  <2>1. CASE Len(queue) = StreamSize
    <3>1. queue # <<>>
      BY <2>1, SizesTyped, EmptySeq
    <3>2. Tail(queue) \in Seq(Events) /\ Len(Tail(queue)) = Len(queue) - 1
      BY <1>1, <3>1, TailShortens
    <3>3. QED
      BY <1>1, <2>1, <3>2, SizesTyped DEF Room
  <2>2. CASE Len(queue) # StreamSize
    BY <1>1, <2>2, SizesTyped DEF Room
  <2>3. QED
    BY <2>1, <2>2
<1> DEFINE longer == Append(Room(queue), e)
<1>3. longer \in Seq(Events) /\ Len(longer) <= StreamSize
  <2>1. longer \in Seq(Events) /\ Len(longer) = Len(Room(queue)) + 1
    BY <1>2, AppendProperties
  <2> HIDE DEF longer, queue
  <2>2. QED
    BY <1>2, <2>1, SizesTyped
<1>4. stream' = stream \/ stream' = [stream EXCEPT ![p] = [stream[p] EXCEPT !.queue = longer]]
  BY DEF PublishLocal
<1> HIDE DEF longer
<1>5. [stream[p] EXCEPT !.queue = longer] \in Clients /\ [stream[p] EXCEPT !.queue = longer].queue = longer
  BY <1>1, <1>3 DEF Clients
<1>6. QED
  BY <1>1, <1>3, <1>4, <1>5

LEMMA HubBoundedInit == HubInit => HubBounded
<1> SUFFICES ASSUME HubInit PROVE HubBounded
  OBVIOUS
<1>1. scope \in [Events -> Scopes] /\ stored \subseteq Events
  BY DEF HubInit, Scopes
<1>2. stream \in [HubProcesses -> Clients] /\ \A p \in HubProcesses : Len(stream[p].queue) = 0
  BY NoClientTyped DEF HubInit
<1>3. \A p \in HubProcesses : Len(cache[p]) = 0
  BY EmptySeq DEF HubInit
<1>4. QED
  BY <1>1, <1>2, <1>3, HubInvInit, SizesTyped DEF HubBounded, WithinBounds

LEMMA HubBoundedStep == HubBounded /\ [HubNext]_hubVars => HubBounded'
<1> SUFFICES ASSUME HubBounded, [HubNext]_hubVars PROVE HubBounded'
  OBVIOUS
<1>0. /\ HubInv /\ HubInv' /\ WithinBounds /\ scope \in [Events -> Scopes] /\ stored \subseteq Events
      /\ stream \in [HubProcesses -> Clients] /\ cache \in [HubProcesses -> Seq(Events)]
      /\ \A p \in HubProcesses : Len(stream[p].queue) <= StreamSize /\ Len(cache[p]) <= CacheSize
  BY HubInvStep DEF HubBounded, WithinBounds, HubInv, HubShape
<1>1. ASSUME UNCHANGED <<scope, stored, stream, cache>> PROVE HubBounded'
  BY <1>0, <1>1 DEF HubBounded, WithinBounds
<1>2. ASSUME NEW p \in HubProcesses, NEW e \in Events, NEW s \in Scopes, Publish(p, e, s) PROVE HubBounded'
  <2>1. Track(p, e) /\ PublishLocal(p, e, s) /\ scope' = [scope EXCEPT ![e] = s]
    BY <1>2 DEF Publish
  <2>2. stored' \subseteq Events
    BY <1>0, <1>2 DEF Publish, PublishBackend, Spread
  <2>3. scope' \in [Events -> Scopes]
    BY <1>0, <2>1
  <2>4. QED
    BY <1>0, <2>1, <2>2, <2>3, TrackBounds, PublishBounds DEF HubBounded, WithinBounds
<1>3. ASSUME NEW p \in HubProcesses, NEW e \in Events, PublishPrebuilt(p, e) PROVE HubBounded'
  <2>1. Track(p, e) /\ PublishLocal(p, e, scope[e]) /\ scope' = scope
    BY <1>3 DEF PublishPrebuilt
  <2>2. stored' \subseteq Events
    BY <1>0, <1>3 DEF PublishPrebuilt, PublishBackend, Spread
  <2>3. QED
    BY <1>0, <2>1, <2>2, TrackBounds, PublishBounds DEF HubBounded, WithinBounds
<1>4. ASSUME NEW p \in HubProcesses, NEW b \in Backend, OnBackendMessage(b, p) PROVE HubBounded'
  <2> DEFINE e == Head(channel[b][p])
  <2>1. channel[b][p] \in Seq(Events) /\ channel[b][p] # <<>>
    BY <1>0, <1>4 DEF HubInv, HubShape, OnBackendMessage
  <2>2. e \in Events
    BY <2>1, HeadTailProperties
  <2>3. \/ UNCHANGED <<cache, stream>>
        \/ Track(p, e) /\ (UNCHANGED stream \/ PublishLocal(p, e, scope[e]))
    BY <1>4 DEF OnBackendMessage, Take
  <2>4. scope' = scope /\ stored' = stored
    BY <1>4 DEF OnBackendMessage
  <2> HIDE DEF e
  <2>5. CASE UNCHANGED <<cache, stream>>
    BY <1>1, <2>4, <2>5
  <2>6. CASE Track(p, e) /\ (UNCHANGED stream \/ PublishLocal(p, e, scope[e]))
    BY <1>0, <2>2, <2>4, <2>6, TrackBounds, PublishBounds DEF HubBounded, WithinBounds
  <2>7. QED
    BY <2>3, <2>5, <2>6
<1>5. ASSUME NEW p \in HubProcesses, NEW b \in Backend, LoseConnection(b, p) PROVE HubBounded'
  BY <1>1, <1>5 DEF LoseConnection
<1>6. ASSUME NEW p \in HubProcesses, Lapse(p) PROVE HubBounded'
  <2>1. cache' = [cache EXCEPT ![p] = Tail(cache[p])] /\ cache[p] # <<>> /\ UNCHANGED <<scope, stored, stream>>
    BY <1>6 DEF Lapse
  <2>2. Len(Tail(cache[p])) <= CacheSize
    BY <1>0, <2>1, TailShortens, SizesTyped
  <2>3. QED
    BY <1>0, <2>1, <2>2 DEF HubBounded, WithinBounds
<1>7. ASSUME NEW p \in HubProcesses, Connect(p, {"role:staff"}) PROVE HubBounded'
  <2>1. [scopes |-> {"role:staff"}, queue |-> <<>>] \in Clients /\ Len(<<>>) = 0
    BY NoClientTyped, EmptySeq DEF Clients, Scopes, NoClient
  <2>2. stream' = [stream EXCEPT ![p] = [scopes |-> {"role:staff"}, queue |-> <<>>]]
        /\ UNCHANGED <<scope, stored, cache>>
    BY <1>7 DEF Connect, OnlyClient
  <2>3. QED
    BY <1>0, <2>1, <2>2, SizesTyped DEF HubBounded, WithinBounds
<1>8. ASSUME NEW p \in HubProcesses, Receive(p) PROVE HubBounded'
  <2> DEFINE queue == stream[p].queue
  <2>1. queue \in Seq(Events) /\ queue # <<>> /\ Len(queue) <= StreamSize
    BY <1>0, <1>8 DEF Receive, Clients
  <2>2. Tail(queue) \in Seq(Events) /\ Len(Tail(queue)) <= StreamSize
    <3> HIDE DEF queue
    <3>1. QED
      BY <2>1, TailShortens, SizesTyped
  <2>3. stream' = [stream EXCEPT ![p] = [stream[p] EXCEPT !.queue = Tail(queue)]]
        /\ UNCHANGED <<scope, stored, cache>>
    BY <1>8 DEF Receive, OnlyClient
  <2>4. [stream[p] EXCEPT !.queue = Tail(queue)] \in Clients
        /\ [stream[p] EXCEPT !.queue = Tail(queue)].queue = Tail(queue)
    BY <1>0, <2>2 DEF Clients
  <2> HIDE DEF queue
  <2>5. QED
    BY <1>0, <2>2, <2>3, <2>4 DEF HubBounded, WithinBounds
<1>9. ASSUME NEW p \in HubProcesses, Unsubscribe(p) PROVE HubBounded'
  BY <1>0, <1>9, NoClientTyped, SizesTyped DEF Unsubscribe, OnlyClient, HubBounded, WithinBounds
<1>10. ASSUME NEW p \in HubProcesses, Restart(p) PROVE HubBounded'
  <2>1. /\ cache' = [cache EXCEPT ![p] = <<>>] /\ stream' = [stream EXCEPT ![p] = NoClient]
        /\ UNCHANGED <<scope, stored>>
    BY <1>10 DEF Restart
  <2>2. QED
    BY <1>0, <2>1, NoClientTyped, SizesTyped, EmptySeq DEF HubBounded, WithinBounds
<1>11. CASE UNCHANGED hubVars
  BY <1>1, <1>11 DEF hubVars
<1>12. QED
  BY <1>2, <1>3, <1>4, <1>5, <1>6, <1>7, <1>8, <1>9, <1>10, <1>11 DEF HubNext

(***************************************************************************)
(* The Redis clients and the limit of hits                                 *)
(***************************************************************************)

RedisSpec == RedisInit /\ [][RedisNext]_redisVars

\* Hits under way: all, those not counted yet, and those that were within the limit.
UnderWayHits == {t \in HitThreads : hit[t].at # "idle"}
Uncounted == {t \in HitThreads : hit[t].at = "incr"}
Passing == {t \in HitThreads : hit[t].at = "expire" /\ hit[t].within}

\* A hit is counted once by an instance and once by the process, at most.
HitsCounted ==
  /\ IsFiniteSet(UnderWayHits)
  /\ \A i \in Instances : counter[i] + Cardinality(Uncounted) <= hits
  /\ localCounter + Cardinality(UnderWayHits) <= hits
  /\ allowed + Cardinality(UnderWayHits) <= hits

\* The hits within the limit, each told by the instance that counted it and the count;
\* those the process counted itself.
Spent == {p \in Instances \X (1..Limit) : p[2] <= counter[p[1]]}
SpentLocally == IF localCounter <= Limit THEN localCounter ELSE Limit

\* What is allowed or will be was within the limit where it was counted, or the count is lost.
LimitKept ==
  allowed + Cardinality(Passing) <= Cardinality(Spent) + SpentLocally + Limit * losses

RedisInv == RedisTypeOK /\ HitsCounted /\ LimitKept

LEMMA RedisConstants ==
  LastInstance \in Nat /\ LastInstance >= 1 /\ Limit \in Nat /\ Limit >= 1
    /\ MaxHits \in Nat /\ MaxChanges \in Nat /\ 1 \in Instances
  BY RedisAssumption DEF Instances

LEMMA ActiveTyped ==
  /\ FirstActive \in Instances
  /\ active \in Instances /\ Candidates # {} => NextUp \in Instances /\ NextUp \in Up
<1>1. Up \subseteq Instances /\ Instances \subseteq Nat
  BY DEF Up, Instances
<1>2. FirstActive \in Instances
  <2>1. CASE Up = {}
    BY <2>1, RedisConstants DEF FirstActive
  <2>2. CASE Up # {}
    <3>1. \E i \in Up : \A j \in Up : i <= j
      BY <1>1, <2>2, LeastOf
    <3>2. First(Up) \in Up
      BY <3>1 DEF First
    <3>3. QED
      BY <1>1, <2>2, <3>2 DEF FirstActive
  <2>3. QED
    BY <2>1, <2>2
<1>3. ASSUME active \in Instances, Candidates # {} PROVE NextUp \in Instances /\ NextUp \in Up
  <2> DEFINE R == {Rank(i) : i \in Candidates}
  <2>1. Candidates \subseteq Up
    BY DEF Candidates
  <2>2. \A i \in Candidates : Rank(i) \in Nat
    BY <1>1, <1>3, <2>1, RedisConstants DEF Rank, Instances
  <2>3. R \subseteq Nat /\ R # {}
    BY <1>3, <2>2
  <2>4. \E x \in R : \A y \in R : x <= y
    BY <2>3, LeastOf
  <2>5. \E i \in Candidates : \A j \in Candidates : Rank(i) <= Rank(j)
    BY <2>4
  <2>6. NextUp \in Candidates
    BY <2>5 DEF NextUp
  <2>7. QED
    BY <1>1, <2>1, <2>6
<1>4. QED
  BY <1>2, <1>3

LEMMA ManagerTyped ==
  ASSUME RedisTypeOK
  PROVE  /\ Initialised \/ Closed \/ FailedOver \/ UNCHANGED <<client, failing, active>> =>
              client' \subseteq Instances /\ failing' \subseteq Instances /\ active' \in Instances
         /\ Initialised \/ Closed => open' \in BOOLEAN
<1>0. client \subseteq Instances /\ failing \subseteq Instances /\ active \in Instances
      /\ Up \subseteq Instances
  BY DEF RedisTypeOK, Up
<1>1. ASSUME FailedOver PROVE client' \subseteq Instances /\ failing' \subseteq Instances /\ active' \in Instances
  <2>1. CASE Candidates = {}
    BY <1>0, <1>1, <2>1 DEF FailedOver
  <2>2. CASE Candidates # {}
    BY <1>0, <1>1, <2>2, ActiveTyped DEF FailedOver
  <2>3. QED
    BY <2>1, <2>2
<1>2. QED
  BY <1>0, <1>1, ActiveTyped, RedisConstants DEF Initialised, Closed

One(b) == IF b THEN 1 ELSE 0

LEMMA Recount ==
  ASSUME NEW S, IsFiniteSet(S), NEW t, NEW b \in BOOLEAN, NEW T, T \ {t} = S \ {t}, t \in T <=> b
  PROVE  IsFiniteSet(T) /\ Cardinality(S) \in Nat /\ Cardinality(T) \in Nat
         /\ Cardinality(T) = Cardinality(S) - One(t \in S) + One(b)
<1> DEFINE R == S \ {t}
<1>1. /\ IsFiniteSet(R) /\ Cardinality(S) \in Nat /\ Cardinality(R) \in Nat
      /\ Cardinality(R) = Cardinality(S) - One(t \in S)
  BY FS_RemoveElement, FS_CardinalityType DEF One
<1>2. CASE b
  <2>1. T = R \cup {t} /\ t \notin R
    BY <1>2
  <2>2. IsFiniteSet(T) /\ Cardinality(T) = Cardinality(R) + 1
    BY <1>1, <2>1, FS_AddElement
  <2>3. QED
    BY <1>1, <1>2, <2>2 DEF One
<1>3. CASE ~b
  <2>1. T = R
    BY <1>3
  <2>2. QED
    BY <1>1, <1>3, <2>1 DEF One
<1>4. QED
  BY <1>2, <1>3

\* What a thread's next step makes of the three sets.
LEMMA ThreadMoves ==
  ASSUME RedisTypeOK, IsFiniteSet(UnderWayHits), NEW t \in HitThreads, NEW h \in Hit,
         hit' = [hit EXCEPT ![t] = h]
  PROVE  /\ hit' \in [HitThreads -> Hit] /\ IsFiniteSet(UnderWayHits')
         /\ {Cardinality(UnderWayHits), Cardinality(UnderWayHits'), Cardinality(Uncounted),
             Cardinality(Uncounted'), Cardinality(Passing), Cardinality(Passing')} \subseteq Nat
         /\ Cardinality(UnderWayHits') = Cardinality(UnderWayHits)
              - One(hit[t].at # "idle") + One(h.at # "idle")
         /\ Cardinality(Uncounted') = Cardinality(Uncounted)
              - One(hit[t].at = "incr") + One(h.at = "incr")
         /\ Cardinality(Passing') = Cardinality(Passing)
              - One(hit[t].at = "expire" /\ hit[t].within) + One(h.at = "expire" /\ h.within)
<1>1. hit \in [HitThreads -> Hit] /\ hit' \in [HitThreads -> Hit] /\ hit'[t] = h
      /\ \A u \in HitThreads \ {t} : hit'[u] = hit[u]
  BY DEF RedisTypeOK
<1>2. IsFiniteSet(Uncounted) /\ IsFiniteSet(Passing)
  <2>1. Uncounted \subseteq UnderWayHits /\ Passing \subseteq UnderWayHits
    BY DEF Uncounted, Passing, UnderWayHits
  <2>2. QED
    BY <2>1, FS_Subset
<1>3. IsFiniteSet(UnderWayHits') /\ Cardinality(UnderWayHits) \in Nat /\ Cardinality(UnderWayHits') \in Nat
      /\ Cardinality(UnderWayHits') = Cardinality(UnderWayHits)
              - One(t \in UnderWayHits) + One(h.at # "idle")
  <2>1. UnderWayHits' \ {t} = UnderWayHits \ {t} /\ (t \in UnderWayHits' <=> h.at # "idle")
    BY <1>1 DEF UnderWayHits
  <2>2. QED
    BY <2>1, Recount
<1>4. Cardinality(Uncounted) \in Nat /\ Cardinality(Uncounted') \in Nat
      /\ Cardinality(Uncounted') = Cardinality(Uncounted)
              - One(t \in Uncounted) + One(h.at = "incr")
  <2>1. Uncounted' \ {t} = Uncounted \ {t} /\ (t \in Uncounted' <=> h.at = "incr")
    BY <1>1 DEF Uncounted
  <2>2. QED
    BY <1>2, <2>1, Recount
<1>5. Cardinality(Passing) \in Nat /\ Cardinality(Passing') \in Nat
      /\ Cardinality(Passing') = Cardinality(Passing)
              - One(t \in Passing) + One(h.at = "expire" /\ h.within)
  <2>1. Passing' \ {t} = Passing \ {t} /\ (t \in Passing' <=> h.at = "expire" /\ h.within)
    BY <1>1 DEF Passing
  <2>2. h.within \in BOOLEAN
    BY DEF Hit
  <2>3. QED
    BY <1>2, <2>1, <2>2, Recount
<1>6. /\ t \in UnderWayHits <=> hit[t].at # "idle"
      /\ t \in Uncounted <=> hit[t].at = "incr"
      /\ t \in Passing <=> hit[t].at = "expire" /\ hit[t].within
  BY DEF UnderWayHits, Uncounted, Passing
<1>7. QED
  BY <1>1, <1>3, <1>4, <1>5, <1>6 DEF One

LEMMA SetsFinite ==
  ASSUME RedisTypeOK, IsFiniteSet(UnderWayHits)
  PROVE  {Cardinality(UnderWayHits), Cardinality(Uncounted), Cardinality(Passing)} \subseteq Nat
<1>1. Uncounted \subseteq UnderWayHits /\ Passing \subseteq UnderWayHits
  BY DEF Uncounted, Passing, UnderWayHits
<1>2. QED
  BY <1>1, FS_Subset, FS_CardinalityType

LEMMA PairsFinite ==
  /\ IsFiniteSet(Instances \X (1..Limit))
  /\ Cardinality(Instances \X (1..Limit)) = LastInstance * Limit
  /\ \A i : IsFiniteSet({i} \X (1..Limit)) /\ Cardinality({i} \X (1..Limit)) = Limit
<1>1. IsFiniteSet(Instances) /\ Cardinality(Instances) = LastInstance
  BY RedisConstants, FS_Interval DEF Instances
<1>2. IsFiniteSet(1..Limit) /\ Cardinality(1..Limit) = Limit
  BY RedisConstants, FS_Interval
<1>3. IsFiniteSet(Instances \X (1..Limit))
      /\ Cardinality(Instances \X (1..Limit)) = Cardinality(Instances) * Cardinality(1..Limit)
  BY <1>1, <1>2, FS_Product
<1>4. ASSUME NEW i
      PROVE  IsFiniteSet({i} \X (1..Limit)) /\ Cardinality({i} \X (1..Limit)) = Limit
  <2>1. IsFiniteSet({i}) /\ Cardinality({i}) = 1
    BY FS_Singleton
  <2>2. IsFiniteSet({i} \X (1..Limit))
        /\ Cardinality({i} \X (1..Limit)) = Cardinality({i}) * Cardinality(1..Limit)
    BY <1>2, <2>1, FS_Product
  <2>3. QED
    BY <1>2, <2>1, <2>2, RedisConstants
<1>5. QED
  BY <1>1, <1>2, <1>3, <1>4

LEMMA SpentTyped ==
  /\ IsFiniteSet(Spent) /\ Cardinality(Spent) \in Nat
  /\ Cardinality(Spent) <= LastInstance * Limit
<1>2. IsFiniteSet(Instances \X (1..Limit)) /\ Cardinality(Instances \X (1..Limit)) = LastInstance * Limit
  BY PairsFinite
<1>3. Spent \subseteq Instances \X (1..Limit)
  BY DEF Spent
<1>4. QED
  BY <1>2, <1>3, FS_Subset, FS_CardinalityType

\* A hit within the limit adds a pair; a lost counter takes Limit at most.
LEMMA SpendsOne ==
  ASSUME RedisTypeOK, NEW i \in Instances, counter' = [counter EXCEPT ![i] = @ + 1]
  PROVE  Cardinality(Spent') >= Cardinality(Spent) + One(counter[i] + 1 <= Limit)
         /\ Cardinality(Spent') \in Nat
<1>0. counter \in [Instances -> Nat]
  BY RedisConstants DEF RedisTypeOK
<1>1. IsFiniteSet(Spent') /\ Cardinality(Spent') \in Nat /\ IsFiniteSet(Spent) /\ Cardinality(Spent) \in Nat
  <2>1. Spent' \subseteq Instances \X (1..Limit)
    BY DEF Spent
  <2>2. IsFiniteSet(Instances \X (1..Limit))
    BY PairsFinite
  <2>3. QED
    BY <2>1, <2>2, SpentTyped, FS_Subset, FS_CardinalityType
<1>2. CASE counter[i] + 1 <= Limit
  <2> DEFINE p == <<i, counter[i] + 1>>
  <2>1. p \notin Spent
    BY <1>0 DEF Spent
  <2>2. Spent \cup {p} \subseteq Spent'
    BY <1>0, <1>2, RedisConstants DEF Spent, Instances
  <2>3. Cardinality(Spent \cup {p}) = Cardinality(Spent) + 1
    BY <1>1, <2>1, FS_AddElement
  <2>4. Cardinality(Spent \cup {p}) <= Cardinality(Spent')
    BY <1>1, <2>2, FS_Subset
  <2>5. QED
    BY <1>1, <1>2, <2>3, <2>4 DEF One
<1>3. CASE ~(counter[i] + 1 <= Limit)
  <2>1. Spent \subseteq Spent'
    BY <1>0, RedisConstants DEF Spent, Instances
  <2>2. QED
    BY <1>1, <1>3, <2>1, FS_Subset DEF One
<1>4. QED
  BY <1>2, <1>3

LEMMA LosesLimit ==
  ASSUME RedisTypeOK, NEW i \in Instances, counter' = [counter EXCEPT ![i] = 0]
  PROVE  Cardinality(Spent) <= Cardinality(Spent') + Limit /\ Cardinality(Spent') \in Nat
<1> DEFINE L == {i} \X (1..Limit)
<1>1. IsFiniteSet(L) /\ Cardinality(L) = Limit
  BY PairsFinite
<1>2. IsFiniteSet(Spent') /\ Cardinality(Spent') \in Nat
  <2>1. Spent' \subseteq Instances \X (1..Limit)
    BY DEF Spent
  <2>2. IsFiniteSet(Instances \X (1..Limit))
    BY PairsFinite
  <2>3. QED
    BY <2>1, <2>2, FS_Subset, FS_CardinalityType
<1>3. Spent \subseteq Spent' \cup L
  BY DEF Spent, RedisTypeOK
<1>4. IsFiniteSet(Spent' \cup L) /\ Cardinality(Spent' \cup L) <= Cardinality(Spent') + Limit
  <2>1. Cardinality(Spent' \cap L) \in Nat
    BY <1>1, FS_Intersection, FS_CardinalityType
  <2>2. /\ IsFiniteSet(Spent' \cup L)
        /\ Cardinality(Spent' \cup L) = Cardinality(Spent') + Cardinality(L) - Cardinality(Spent' \cap L)
    BY <1>1, <1>2, FS_Union
  <2> HIDE DEF L
  <2>3. QED
    BY <1>1, <1>2, <2>1, <2>2, RedisConstants
<1>5. QED
  BY <1>2, <1>3, <1>4, FS_Subset, FS_CardinalityType, SpentTyped, RedisConstants

LEMMA RedisInvInit == RedisInit => RedisInv
<1> SUFFICES ASSUME RedisInit PROVE RedisInv
  OBVIOUS
<1>1. IdleHit \in Hit
  BY RedisConstants DEF IdleHit, Hit
<1>2. RedisTypeOK
  <2>1. MaxHits * LastInstance \in Nat
    BY RedisConstants
  <2>2. counter \in [Instances -> 0..(MaxHits * LastInstance)]
    BY <2>1 DEF RedisInit
  <2>3. instance \in [Instances -> {"up", "down", "quota"}] /\ hit \in [HitThreads -> Hit]
    BY <1>1 DEF RedisInit
  <2>4. lasting \subseteq Instances /\ client \subseteq Instances /\ failing \subseteq Instances
        /\ {open, closing} \subseteq BOOLEAN /\ active \in Instances /\ listening \in Instances \cup {0}
        /\ loop \in {"runs", "cut", "ended"}
    BY RedisConstants DEF RedisInit
  <2>5. localCounter \in 0..MaxHits /\ {allowed, hits} \subseteq 0..MaxHits
        /\ losses \in 0..changes /\ changes \in 0..MaxChanges
    BY RedisConstants DEF RedisInit
  <2>6. QED
    BY <2>2, <2>3, <2>4, <2>5 DEF RedisTypeOK
<1>3. UnderWayHits = {} /\ Uncounted = {} /\ Passing = {}
  BY DEF RedisInit, UnderWayHits, Uncounted, Passing, IdleHit
<1>4. HitsCounted
  BY <1>3, FS_EmptySet DEF RedisInit, HitsCounted
<1>5. LimitKept
  BY <1>3, FS_EmptySet, SpentTyped, RedisConstants DEF RedisInit, LimitKept, SpentLocally
<1>6. QED
  BY <1>2, <1>4, <1>5 DEF RedisInv

\* Steps that leave the hits and what they count alone.
LEMMA HitsAlone ==
  ASSUME RedisInv, UNCHANGED <<counter, localCounter, hit, allowed, hits, losses>>
  PROVE  HitsCounted' /\ LimitKept'
<1>1. UnderWayHits' = UnderWayHits /\ Uncounted' = Uncounted /\ Passing' = Passing /\ Spent' = Spent
      /\ SpentLocally' = SpentLocally
  BY DEF UnderWayHits, Uncounted, Passing, Spent, SpentLocally
<1>2. QED
  BY <1>1 DEF RedisInv, HitsCounted, LimitKept

LEMMA Shift ==
  ASSUME NEW a \in Nat, NEW b \in Nat, NEW p \in Nat, NEW s \in Nat, NEW l \in Nat, NEW m \in Nat,
         NEW k \in Nat, a + p <= s + l + k, b + l <= a + m
  PROVE  b + p <= s + m + k
  OBVIOUS

LEMMA BeginHitStep == ASSUME RedisInv, NEW t \in HitThreads, BeginHit(t) PROVE RedisInv'
<1>0. /\ RedisTypeOK /\ HitsCounted /\ LimitKept /\ IsFiniteSet(UnderWayHits)
      /\ hits \in Nat /\ hits < MaxHits /\ hits' = hits + 1 /\ allowed \in Nat /\ localCounter \in Nat
      /\ hit[t] = IdleHit /\ losses' = losses /\ counter' = counter /\ losses \in Nat
      /\ open \in BOOLEAN /\ hit \in [HitThreads -> Hit]
  BY RedisConstants DEF RedisInv, HitsCounted, BeginHit, RedisTypeOK, OnlyHit
<1>1. client' \subseteq Instances /\ failing' \subseteq Instances /\ active' \in Instances /\ open' \in BOOLEAN
  BY <1>0, ManagerTyped DEF BeginHit
<1>2. {Cardinality(UnderWayHits), Cardinality(Uncounted), Cardinality(Passing)} \subseteq Nat
  BY <1>0, SetsFinite
<1>3. Spent' = Spent /\ Cardinality(Spent) \in Nat
  BY <1>0, SpentTyped DEF Spent
<1>4. Limit * losses \in Nat
  BY <1>0, RedisConstants
<1> DEFINE h == [IdleHit EXCEPT !.at = "incr", !.on = active']
<1>5. CASE active' \in client'
  <2>1. hit' = [hit EXCEPT ![t] = h] /\ UNCHANGED <<localCounter, allowed>>
    BY <1>5 DEF BeginHit
  <2>2. h \in Hit /\ h.at = "incr" /\ hit[t].at = "idle"
    <3>1. IdleHit \in Hit /\ IdleHit.at = "idle"
      BY RedisConstants DEF Hit, IdleHit
    <3>2. [IdleHit EXCEPT !.at = "incr"] \in Hit
      BY <3>1 DEF Hit
    <3>3. h = [[IdleHit EXCEPT !.at = "incr"] EXCEPT !.on = active']
      BY <3>1 DEF Hit
    <3>4. QED
      BY <1>0, <1>1, <3>1, <3>2, <3>3 DEF Hit
  <2> HIDE DEF h
  <2>3. /\ hit' \in [HitThreads -> Hit] /\ IsFiniteSet(UnderWayHits')
        /\ Cardinality(UnderWayHits') = Cardinality(UnderWayHits) + 1
        /\ Cardinality(Uncounted') = Cardinality(Uncounted) + 1
        /\ Cardinality(Passing') = Cardinality(Passing)
    <3>1. /\ hit' \in [HitThreads -> Hit] /\ IsFiniteSet(UnderWayHits')
          /\ Cardinality(UnderWayHits') = Cardinality(UnderWayHits) - 0 + 1
          /\ Cardinality(Uncounted') = Cardinality(Uncounted) - 0 + 1
          /\ Cardinality(Passing') = Cardinality(Passing) - 0 + 0
      BY <1>0, <2>1, <2>2, ThreadMoves DEF One
    <3>2. QED
      BY <1>2, <3>1
  <2>4. RedisTypeOK'
    BY <1>0, <1>1, <2>1, <2>3, RedisConstants DEF RedisTypeOK, BeginHit, OnlyHit
  <2>5. HitsCounted'
    BY <1>0, <1>2, <2>1, <2>3 DEF HitsCounted, RedisTypeOK
  <2>6. LimitKept'
    BY <1>0, <1>2, <1>3, <2>1, <2>3 DEF LimitKept, SpentLocally
  <2>7. QED
    BY <2>4, <2>5, <2>6 DEF RedisInv
<1>6. CASE active' \notin client'
  <2>1. hit' = hit /\ (CountLocally \/ UNCHANGED <<localCounter, allowed>>)
    BY <1>6 DEF BeginHit
  <2>2. UnderWayHits' = UnderWayHits /\ Uncounted' = Uncounted /\ Passing' = Passing
    BY <2>1 DEF UnderWayHits, Uncounted, Passing
  <2>3. /\ localCounter' \in Nat /\ allowed' \in Nat
        /\ localCounter' <= localCounter + 1 /\ allowed' <= allowed + 1
        /\ allowed' + SpentLocally <= allowed + SpentLocally'
    BY <1>0, <2>1, RedisConstants DEF CountLocally, Allow, SpentLocally
  <2>4. HitsCounted'
    BY <1>0, <1>2, <2>2, <2>3 DEF HitsCounted, RedisTypeOK
  <2>5. RedisTypeOK'
    BY <1>0, <1>1, <1>2, <2>1, <2>2, <2>3, <2>4, RedisConstants
       DEF RedisTypeOK, BeginHit, OnlyHit, HitsCounted
  <2>6. SpentLocally \in Nat /\ SpentLocally' \in Nat
    BY <1>0, <2>3, RedisConstants DEF SpentLocally
  <2>7. LimitKept'
    <3>1. allowed + Cardinality(Passing) <= Cardinality(Spent) + SpentLocally + Limit * losses
      BY <1>0 DEF LimitKept
    <3>2. allowed' + Cardinality(Passing) <= Cardinality(Spent) + SpentLocally' + Limit * losses
      BY <1>0, <1>2, <1>3, <1>4, <2>3, <2>6, <3>1, Shift
    <3>3. QED
      BY <1>0, <1>3, <2>2, <3>2 DEF LimitKept
  <2>8. QED
    BY <2>4, <2>5, <2>7 DEF RedisInv
<1>7. QED
  BY <1>5, <1>6

LEMMA IncrementsStep == ASSUME RedisInv, NEW t \in HitThreads, Increments(t) PROVE RedisInv'
<1> DEFINE on == hit[t].on
           within == counter[on] + 1 <= Limit
           h == [at |-> "expire", attempt |-> 1, within |-> within,
                 on |-> IF HasClient THEN active ELSE 0]
<1>0. /\ RedisTypeOK /\ HitsCounted /\ LimitKept /\ IsFiniteSet(UnderWayHits)
      /\ hits \in 0..MaxHits /\ hits' = hits /\ allowed \in Nat /\ localCounter \in Nat
      /\ losses' = losses /\ localCounter' = localCounter /\ losses \in Nat
      /\ open \in BOOLEAN /\ hit \in [HitThreads -> Hit]
      /\ hit[t].at = "incr" /\ on \in Instances /\ active \in Instances
      /\ counter \in [Instances -> 0..(MaxHits * LastInstance)]
      /\ counter' = [counter EXCEPT ![on] = @ + 1]
  BY RedisConstants DEF RedisInv, HitsCounted, Increments, Works, RedisTypeOK, OnlyHit, Hit
<1>1. {Cardinality(UnderWayHits), Cardinality(Uncounted), Cardinality(Passing)} \subseteq Nat
  BY <1>0, SetsFinite
<1>2. counter[on] \in Nat
  BY <1>0, RedisConstants
<1>3. /\ Cardinality(Spent') >= Cardinality(Spent) + One(within) /\ Cardinality(Spent') \in Nat
      /\ Cardinality(Spent) \in Nat
  BY <1>0, SpendsOne, SpentTyped
<1>4. Limit * losses \in Nat /\ SpentLocally \in Nat /\ SpentLocally' = SpentLocally
  BY <1>0, RedisConstants DEF SpentLocally
<1>5. /\ h \in Hit /\ h.at = "expire" /\ h.within = within
      /\ IdleHit \in Hit /\ IdleHit.at = "idle"
  BY <1>0, <1>2, RedisConstants DEF Hit, IdleHit
<1>6. \/ hit' = [hit EXCEPT ![t] = h] /\ allowed' = allowed
      \/ hit' = [hit EXCEPT ![t] = IdleHit] /\ allowed' = allowed + One(open /\ within)
  BY DEF Increments, Finish, Allow, One
<1> HIDE DEF h, within
<1>7. within \in BOOLEAN
  BY DEF within
<1>8. /\ hit' \in [HitThreads -> Hit] /\ IsFiniteSet(UnderWayHits')
      /\ Cardinality(UnderWayHits') \in Nat /\ Cardinality(Uncounted') \in Nat /\ Cardinality(Passing') \in Nat
      /\ Cardinality(Uncounted') = Cardinality(Uncounted) - 1
      /\ allowed' \in Nat
      /\ allowed' + Cardinality(UnderWayHits') <= allowed + Cardinality(UnderWayHits)
      /\ Cardinality(UnderWayHits') <= Cardinality(UnderWayHits)
      /\ allowed' + Cardinality(Passing') <= allowed + Cardinality(Passing) + One(within)
  <2>1. CASE hit' = [hit EXCEPT ![t] = h] /\ allowed' = allowed
    <3>1. /\ hit' \in [HitThreads -> Hit] /\ IsFiniteSet(UnderWayHits')
          /\ {Cardinality(UnderWayHits'), Cardinality(Uncounted'), Cardinality(Passing')} \subseteq Nat
          /\ Cardinality(UnderWayHits') = Cardinality(UnderWayHits) - 1 + 1
          /\ Cardinality(Uncounted') = Cardinality(Uncounted) - 1 + 0
          /\ Cardinality(Passing') = Cardinality(Passing) - 0 + One(within)
      BY <1>0, <1>5, <1>7, <2>1, ThreadMoves DEF One
    <3>2. QED
      BY <1>0, <1>1, <1>7, <2>1, <3>1 DEF One
  <2>2. CASE hit' = [hit EXCEPT ![t] = IdleHit] /\ allowed' = allowed + One(open /\ within)
    <3>1. /\ hit' \in [HitThreads -> Hit] /\ IsFiniteSet(UnderWayHits')
          /\ {Cardinality(UnderWayHits'), Cardinality(Uncounted'), Cardinality(Passing')} \subseteq Nat
          /\ Cardinality(UnderWayHits') = Cardinality(UnderWayHits) - 1 + 0
          /\ Cardinality(Uncounted') = Cardinality(Uncounted) - 1 + 0
          /\ Cardinality(Passing') = Cardinality(Passing) - 0 + 0
      BY <1>0, <1>5, <2>2, ThreadMoves DEF One
    <3>2. QED
      BY <1>0, <1>1, <1>7, <2>2, <3>1 DEF One
  <2>3. QED
    BY <1>6, <2>1, <2>2
<1>9. HitsCounted'
  <2>1. ASSUME NEW i \in Instances PROVE counter'[i] + Cardinality(Uncounted') <= hits'
    <3>1. counter[i] + Cardinality(Uncounted) <= hits /\ counter[i] \in Nat
      BY <1>0, RedisConstants DEF HitsCounted
    <3>2. counter'[i] \in Nat /\ counter'[i] <= counter[i] + 1
      BY <1>0, <3>1
    <3>3. QED
      BY <1>0, <1>1, <1>8, <3>1, <3>2
  <2>2. localCounter + Cardinality(UnderWayHits) <= hits /\ allowed + Cardinality(UnderWayHits) <= hits
    BY <1>0 DEF HitsCounted
  <2>3. QED
    BY <1>0, <1>1, <1>8, <2>1, <2>2 DEF HitsCounted
<1>10. RedisTypeOK'
  <2>1. counter' \in [Instances -> 0..(MaxHits * LastInstance)]
    <3>1. ASSUME NEW i \in Instances PROVE counter'[i] \in 0..(MaxHits * LastInstance)
      <4>1. counter'[i] \in Nat
        BY <1>0, RedisConstants
      <4>2. counter'[i] <= MaxHits
        BY <1>0, <1>8, <1>9, <4>1, RedisConstants DEF HitsCounted
      <4>3. MaxHits <= MaxHits * LastInstance /\ MaxHits * LastInstance \in Nat
        BY RedisConstants
      <4>4. QED
        BY <4>1, <4>2, <4>3, RedisConstants
    <3>2. QED
      BY <1>0, <3>1
  <2>2. allowed' \in 0..MaxHits
    BY <1>0, <1>8, <1>9, RedisConstants DEF HitsCounted
  <2>3. lasting' \subseteq Instances /\ failing' \subseteq Instances
    BY <1>0 DEF Increments, RedisTypeOK
  <2>4. UNCHANGED <<instance, client, open, active, listening, closing, loop, changes>>
    BY DEF Increments, OnlyHit
  <2>5. QED
    BY <1>0, <1>8, <2>1, <2>2, <2>3, <2>4 DEF RedisTypeOK
<1>11. LimitKept'
  <2>1. One(within) \in Nat
    BY DEF One
  <2>2. QED
    BY <1>0, <1>1, <1>3, <1>4, <1>8, <2>1 DEF LimitKept
<1>12. QED
  BY <1>9, <1>10, <1>11 DEF RedisInv

\* A hit that ends.
LEMMA HitEnds ==
  ASSUME RedisInv, NEW t \in HitThreads, hit[t].at # "idle", Finish(t)
  PROVE  /\ hit' \in [HitThreads -> Hit] /\ IsFiniteSet(UnderWayHits')
         /\ Cardinality(UnderWayHits) \in Nat /\ Cardinality(Uncounted) \in Nat /\ Cardinality(Passing) \in Nat
         /\ Cardinality(UnderWayHits') \in Nat /\ Cardinality(Uncounted') \in Nat
         /\ Cardinality(Passing') \in Nat
         /\ Cardinality(UnderWayHits') = Cardinality(UnderWayHits) - 1
         /\ Cardinality(Uncounted') <= Cardinality(Uncounted)
         /\ Cardinality(Passing') = Cardinality(Passing) - One(hit[t].at = "expire" /\ hit[t].within)
<1>1. IdleHit \in Hit /\ IdleHit.at = "idle"
  BY RedisConstants DEF Hit, IdleHit
<1>2. RedisTypeOK /\ IsFiniteSet(UnderWayHits)
  BY DEF RedisInv, HitsCounted
<1>3. /\ hit' \in [HitThreads -> Hit] /\ IsFiniteSet(UnderWayHits')
      /\ {Cardinality(UnderWayHits), Cardinality(UnderWayHits'), Cardinality(Uncounted),
             Cardinality(Uncounted'), Cardinality(Passing), Cardinality(Passing')} \subseteq Nat
      /\ Cardinality(UnderWayHits') = Cardinality(UnderWayHits) - 1 + 0
      /\ Cardinality(Uncounted') = Cardinality(Uncounted) - One(hit[t].at = "incr") + 0
      /\ Cardinality(Passing') = Cardinality(Passing)
              - One(hit[t].at = "expire" /\ hit[t].within) + 0
  BY <1>1, <1>2, ThreadMoves DEF One, Finish
<1>4. QED
  BY <1>3 DEF One

LEMMA ExpiresStep == ASSUME RedisInv, NEW t \in HitThreads, Expires(t) PROVE RedisInv'
<1>0. /\ RedisTypeOK /\ HitsCounted /\ LimitKept
      /\ hits \in 0..MaxHits /\ hits' = hits /\ allowed \in Nat /\ localCounter \in Nat
      /\ losses' = losses /\ localCounter' = localCounter /\ losses \in Nat
      /\ counter' = counter /\ open \in BOOLEAN /\ hit \in [HitThreads -> Hit]
      /\ counter \in [Instances -> Nat]
      /\ hit[t].at = "expire" /\ hit[t].within \in BOOLEAN /\ active \in Instances
      /\ allowed' = allowed + One(open /\ hit[t].within) /\ Finish(t)
  BY RedisConstants DEF RedisInv, Expires, RedisTypeOK, OnlyHit, Hit, Allow, One
<1>1. /\ hit' \in [HitThreads -> Hit] /\ IsFiniteSet(UnderWayHits')
      /\ Cardinality(UnderWayHits) \in Nat /\ Cardinality(Uncounted) \in Nat /\ Cardinality(Passing) \in Nat
      /\ Cardinality(UnderWayHits') \in Nat /\ Cardinality(Uncounted') \in Nat
      /\ Cardinality(Passing') \in Nat
      /\ Cardinality(UnderWayHits') = Cardinality(UnderWayHits) - 1
      /\ Cardinality(Uncounted') <= Cardinality(Uncounted)
      /\ Cardinality(Passing') = Cardinality(Passing) - One(hit[t].within)
  BY <1>0, HitEnds DEF One
<1>2. One(open /\ hit[t].within) \in Nat /\ One(open /\ hit[t].within) <= 1
      /\ One(open /\ hit[t].within) <= One(hit[t].within) /\ One(hit[t].within) \in Nat
  BY <1>0 DEF One
<1>3. HitsCounted'
  BY <1>0, <1>1, <1>2 DEF HitsCounted
<1>4. LimitKept'
  <2>1. Spent' = Spent /\ SpentLocally' = SpentLocally
    BY <1>0 DEF Spent, SpentLocally
  <2>2. allowed' + Cardinality(Passing') <= allowed + Cardinality(Passing)
    BY <1>0, <1>1, <1>2
  <2>3. Cardinality(Spent) \in Nat /\ SpentLocally \in Nat /\ Limit * losses \in Nat
    BY <1>0, SpentTyped, RedisConstants DEF SpentLocally
  <2>4. QED
    BY <1>0, <1>1, <1>2, <2>1, <2>2, <2>3 DEF LimitKept
<1>5. RedisTypeOK'
  <2>1. allowed' \in 0..MaxHits
    BY <1>0, <1>1, <1>2, <1>3, RedisConstants DEF HitsCounted
  <2>2. lasting' \subseteq Instances /\ failing' \subseteq Instances
    BY <1>0 DEF Expires, RedisTypeOK
  <2>3. UNCHANGED <<instance, client, open, active, listening, closing, loop, changes>>
    BY DEF Expires, OnlyHit
  <2>4. QED
    BY <1>0, <1>1, <2>1, <2>2, <2>3 DEF RedisTypeOK
<1>6. QED
  BY <1>3, <1>4, <1>5 DEF RedisInv

LEMMA FailsOverStep == ASSUME RedisInv, NEW t \in HitThreads, FailsOver(t) PROVE RedisInv'
<1> DEFINE h == [hit[t] EXCEPT !.attempt = @ + 1, !.on = active']
<1>0. /\ RedisTypeOK /\ HitsCounted /\ LimitKept /\ IsFiniteSet(UnderWayHits)
      /\ hit \in [HitThreads -> Hit] /\ hit[t] \in Hit /\ hit[t].attempt + 1 \in 1..LastInstance
      /\ FailedOver /\ hit[t].at # "idle"
      /\ UNCHANGED <<counter, lasting, localCounter, open, allowed, hits, OnlyHit>>
  BY RedisConstants DEF RedisInv, HitsCounted, FailsOver, Retries, RedisTypeOK, Hit
<1>1. client' \subseteq Instances /\ failing' \subseteq Instances /\ active' \in Instances
  BY <1>0, ManagerTyped
<1>2. /\ h \in Hit /\ h.at = hit[t].at /\ h.within = hit[t].within
      /\ hit' = [hit EXCEPT ![t] = h]
  <2>1. hit' = [hit EXCEPT ![t] = h]
    BY DEF FailsOver
  <2>2. [hit[t] EXCEPT !.attempt = @ + 1] \in Hit
    BY <1>0 DEF Hit
  <2>3. h = [[hit[t] EXCEPT !.attempt = @ + 1] EXCEPT !.on = active']
    BY <1>0 DEF Hit
  <2>4. h \in Hit
    BY <1>1, <2>2, <2>3 DEF Hit
  <2>5. h.at = hit[t].at /\ h.within = hit[t].within
    BY <1>0, <2>3 DEF Hit
  <2>6. QED
    BY <2>1, <2>4, <2>5
<1> HIDE DEF h
<1>3. hit' \in [HitThreads -> Hit] /\ UnderWayHits' = UnderWayHits /\ Uncounted' = Uncounted
      /\ Passing' = Passing
  BY <1>0, <1>2 DEF UnderWayHits, Uncounted, Passing
<1>4. HitsCounted'
  BY <1>0, <1>3 DEF HitsCounted
<1>5. LimitKept'
  BY <1>0, <1>3 DEF LimitKept, Spent, SpentLocally, OnlyHit
<1>6. RedisTypeOK'
  BY <1>0, <1>1, <1>3 DEF RedisTypeOK, OnlyHit
<1>7. QED
  BY <1>4, <1>5, <1>6 DEF RedisInv

LEMMA GivesUpStep == ASSUME RedisInv, NEW t \in HitThreads, GivesUp(t) PROVE RedisInv'
<1>0. /\ RedisTypeOK /\ HitsCounted /\ LimitKept
      /\ hits \in 0..MaxHits /\ hits' = hits /\ allowed \in Nat /\ localCounter \in Nat
      /\ losses' = losses /\ losses \in Nat
      /\ counter' = counter /\ open \in BOOLEAN /\ active \in Instances
      /\ counter \in [Instances -> Nat]
      /\ hit[t].at # "idle" /\ Finish(t)
      /\ CountLocally \/ UNCHANGED <<localCounter, allowed>>
      /\ UNCHANGED <<instance, counter, lasting, listening, closing, hits, changes, losses>>
      /\ loop' \in {"runs", "cut", "ended"}
  BY RedisConstants DEF RedisInv, GivesUp, RedisTypeOK, OnlyHit
<1>1. /\ hit' \in [HitThreads -> Hit] /\ IsFiniteSet(UnderWayHits')
      /\ Cardinality(UnderWayHits) \in Nat /\ Cardinality(Uncounted) \in Nat /\ Cardinality(Passing) \in Nat
      /\ Cardinality(UnderWayHits') \in Nat /\ Cardinality(Uncounted') \in Nat
      /\ Cardinality(Passing') \in Nat
      /\ Cardinality(UnderWayHits') = Cardinality(UnderWayHits) - 1
      /\ Cardinality(Uncounted') <= Cardinality(Uncounted)
      /\ Cardinality(Passing') <= Cardinality(Passing)
  BY <1>0, HitEnds DEF One
<1>2. /\ localCounter' \in Nat /\ allowed' \in Nat
      /\ localCounter' <= localCounter + 1 /\ allowed' <= allowed + 1
      /\ allowed' + SpentLocally <= allowed + SpentLocally'
      /\ SpentLocally \in Nat /\ SpentLocally' \in Nat
  BY <1>0, RedisConstants DEF CountLocally, Allow, SpentLocally
<1>3. HitsCounted'
  BY <1>0, <1>1, <1>2 DEF HitsCounted
<1>4. LimitKept'
  <2>1. Spent' = Spent /\ Cardinality(Spent) \in Nat /\ Limit * losses \in Nat
    BY <1>0, SpentTyped, RedisConstants DEF Spent
  <2>2. allowed + Cardinality(Passing') <= Cardinality(Spent) + SpentLocally + Limit * losses
    BY <1>0, <1>1, <1>2, <2>1 DEF LimitKept
  <2>3. allowed' + Cardinality(Passing') <= Cardinality(Spent) + SpentLocally' + Limit * losses
    BY <1>0, <1>1, <1>2, <2>1, <2>2, Shift
  <2>4. QED
    BY <1>0, <2>1, <2>3 DEF LimitKept
<1>5. client' \subseteq Instances /\ failing' \subseteq Instances /\ active' \in Instances /\ open' \in BOOLEAN
  <2>1. CASE Closed
    BY <1>0, <2>1, ManagerTyped
  <2>2. CASE FailedOver /\ open' = open
    BY <1>0, <2>2, ManagerTyped
  <2>3. CASE failing' \in {failing, failing \cup {active}} /\ UNCHANGED <<active, client, open>>
    BY <1>0, <2>3 DEF RedisTypeOK
  <2>4. QED
    BY <2>1, <2>2, <2>3 DEF GivesUp
<1>6. RedisTypeOK'
  <2>1. allowed' \in 0..MaxHits /\ localCounter' \in 0..MaxHits
    BY <1>0, <1>1, <1>2, <1>3, RedisConstants DEF HitsCounted
  <2>2. QED
    BY <1>0, <1>1, <1>5, <2>1 DEF RedisTypeOK, OnlyHit
<1>7. QED
  BY <1>3, <1>4, <1>6 DEF RedisInv

LEMMA ChangeInstanceStep ==
  ASSUME RedisInv, NEW i \in Instances, NEW state \in {"up", "down", "quota"}, ChangeInstance(i, state)
  PROVE  RedisInv'
<1>0. /\ RedisTypeOK /\ HitsCounted /\ LimitKept /\ IsFiniteSet(UnderWayHits)
      /\ losses \in 0..changes /\ changes \in Nat /\ changes' = changes + 1 /\ changes < MaxChanges
      /\ UNCHANGED <<localCounter, client, open, failing, active, hit, listening, closing, loop, allowed, hits>>
      /\ counter \in [Instances -> 0..(MaxHits * LastInstance)] /\ MaxHits * LastInstance \in Nat
  BY RedisConstants DEF RedisInv, HitsCounted, ChangeInstance, RedisTypeOK
<1>1. UnderWayHits' = UnderWayHits /\ Uncounted' = Uncounted /\ Passing' = Passing
      /\ SpentLocally' = SpentLocally
  BY <1>0 DEF UnderWayHits, Uncounted, Passing, SpentLocally
<1>2. CASE UNCHANGED <<counter, lasting, losses>>
  <2>1. Spent' = Spent
    BY <1>2 DEF Spent
  <2>2. HitsCounted' /\ LimitKept'
    BY <1>0, <1>1, <1>2, <2>1 DEF HitsCounted, LimitKept
  <2>3. RedisTypeOK'
    BY <1>0, <1>2, RedisConstants DEF RedisTypeOK, ChangeInstance
  <2>4. QED
    BY <2>2, <2>3 DEF RedisInv
<1>3. CASE counter' = [counter EXCEPT ![i] = 0] /\ lasting' = lasting \ {i} /\ losses' = losses + 1
  <2>1. Cardinality(Uncounted) \in Nat /\ Cardinality(Passing) \in Nat
    BY <1>0, SetsFinite
  <2>2. \A j \in Instances : counter'[j] \in 0..(MaxHits * LastInstance) /\ counter'[j] <= counter[j]
    BY <1>0, <1>3
  <2>3. HitsCounted'
    <3>1. ASSUME NEW j \in Instances PROVE counter'[j] + Cardinality(Uncounted') <= hits'
      <4>1. counter[j] + Cardinality(Uncounted) <= hits /\ counter[j] \in Nat /\ counter'[j] \in Nat
        BY <1>0, <2>2 DEF HitsCounted
      <4>2. hits \in Nat
        BY <1>0 DEF RedisTypeOK
      <4>3. QED
        BY <1>0, <1>1, <2>1, <2>2, <4>1, <4>2
    <3>2. QED
      BY <1>0, <1>1, <3>1 DEF HitsCounted
  <2>4. RedisTypeOK'
    <3>1. counter' \in [Instances -> 0..(MaxHits * LastInstance)]
      BY <1>0, <1>3, <2>2
    <3>2. losses' \in 0..changes' /\ changes' \in 0..MaxChanges /\ lasting' \subseteq Instances
      BY <1>0, <1>3, RedisConstants DEF RedisTypeOK
    <3>3. instance' \in [Instances -> {"up", "down", "quota"}]
      BY <1>0 DEF ChangeInstance, RedisTypeOK
    <3>4. QED
      BY <1>0, <3>1, <3>2, <3>3 DEF RedisTypeOK
  <2>5. LimitKept'
    <3>1. Cardinality(Spent) <= Cardinality(Spent') + Limit /\ Cardinality(Spent') \in Nat
          /\ Cardinality(Spent) \in Nat
      BY <1>0, <1>3, LosesLimit, SpentTyped
    <3>2. Limit * losses' = Limit * losses + Limit /\ Limit * losses \in Nat
      BY <1>0, <1>3, RedisConstants
    <3>3. SpentLocally \in Nat /\ allowed \in Nat
      BY <1>0, RedisConstants DEF SpentLocally, RedisTypeOK
    <3>4. allowed + Cardinality(Passing) <= Cardinality(Spent) + SpentLocally + Limit * losses
      BY <1>0 DEF LimitKept
    <3> HIDE <1>0, <1>3
    <3> DEFINE k == Limit * losses
               m == Limit * losses'
    <3>5. k \in Nat /\ m = k + Limit
      BY <3>2
    <3>6. allowed + Cardinality(Passing) <= Cardinality(Spent) + SpentLocally + k
      BY <3>4
    <3> HIDE DEF k, m
    <3>7. allowed + Cardinality(Passing) <= Cardinality(Spent') + SpentLocally + m
      BY <2>1, <3>1, <3>3, <3>5, <3>6, RedisConstants
    <3>8. QED
      BY <1>0, <1>1, <3>7 DEF LimitKept, m
  <2>6. QED
    BY <2>3, <2>4, <2>5 DEF RedisInv
<1>4. QED
  BY <1>2, <1>3 DEF ChangeInstance

LEMMA RedisInvStep == RedisInv /\ [RedisNext]_redisVars => RedisInv'
<1> SUFFICES ASSUME RedisInv, [RedisNext]_redisVars PROVE RedisInv'
  OBVIOUS
<1>0. RedisTypeOK /\ active \in Instances /\ client \subseteq Instances /\ failing \subseteq Instances
      /\ open \in BOOLEAN
  BY DEF RedisInv, RedisTypeOK
<1>1. ASSUME UNCHANGED <<instance, counter, lasting, localCounter, hit, allowed, hits, changes, losses>>,
             client' \subseteq Instances, failing' \subseteq Instances, active' \in Instances,
             {open', closing'} \subseteq BOOLEAN, listening' \in Instances \cup {0},
             loop' \in {"runs", "cut", "ended"}
      PROVE  RedisInv'
  <2>1. HitsCounted' /\ LimitKept'
    BY <1>1, HitsAlone
  <2>2. QED
    BY <1>0, <1>1, <2>1 DEF RedisInv, RedisTypeOK
<1>2. CASE HealthCheck
  BY <1>0, <1>1, <1>2, RedisConstants DEF HealthCheck, RedisTypeOK, Up
<1>3. CASE Subscribe
  <2>1. client' \subseteq Instances /\ failing' \subseteq Instances /\ active' \in Instances /\ open' \in BOOLEAN
    BY <1>0, <1>3, ManagerTyped DEF Subscribe
  <2>2. QED
    BY <1>0, <1>1, <1>3, <2>1 DEF Subscribe, OnlyListener, RedisTypeOK
<1>4. CASE LoseChannel
  BY <1>0, <1>1, <1>4 DEF LoseChannel, OnlyListener, RedisTypeOK
<1>5. CASE FindCut
  BY <1>0, <1>1, <1>5 DEF FindCut, OnlyListener, RedisTypeOK
<1>6. CASE CloseClients
  BY <1>0, <1>1, <1>6, ManagerTyped DEF CloseClients, OnlyListener, RedisTypeOK
<1>7. CASE Reinitialise
  BY <1>0, <1>1, <1>7, ManagerTyped DEF Reinitialise, OnlyListener, RedisTypeOK
<1>8. CASE UNCHANGED redisVars
  <2>1. HitsCounted' /\ LimitKept'
    BY <1>8, HitsAlone DEF redisVars
  <2>2. QED
    BY <1>0, <1>8, <2>1 DEF RedisInv, RedisTypeOK, redisVars
<1>9. QED
  BY <1>2, <1>3, <1>4, <1>5, <1>6, <1>7, <1>8, BeginHitStep, IncrementsStep, ExpiresStep, FailsOverStep,
     GivesUpStep, ChangeInstanceStep DEF RedisNext

LEMMA LimitMeans == RedisInv => AllowedBounded
<1> SUFFICES ASSUME RedisInv PROVE AllowedBounded
  OBVIOUS
<1> DEFINE places == Cardinality(CountedBy)
           here == IF localCounter = 0 THEN 0 ELSE 1
<1>1. /\ losses \in Nat /\ allowed \in Nat /\ localCounter \in Nat /\ Cardinality(Passing) \in Nat
      /\ counter \in [Instances -> Nat]
  BY SetsFinite DEF RedisInv, RedisTypeOK, HitsCounted
<1>2. SpentLocally \in Nat /\ here \in Nat /\ SpentLocally <= Limit * here
  BY <1>1, RedisConstants DEF SpentLocally
<1>3. places \in Nat /\ Cardinality(Spent) \in Nat /\ Cardinality(Spent) <= places * Limit
  <2>1. IsFiniteSet(Instances) /\ IsFiniteSet(1..Limit) /\ Cardinality(1..Limit) = Limit
    BY RedisConstants, FS_Interval DEF Instances
  <2>2. IsFiniteSet(CountedBy)
    BY <2>1, FS_Subset DEF CountedBy
  <2>3. /\ IsFiniteSet(CountedBy \X (1..Limit))
        /\ Cardinality(CountedBy \X (1..Limit)) = places * Limit
    BY <2>1, <2>2, FS_Product
  <2>4. Spent \subseteq CountedBy \X (1..Limit)
    BY <1>1 DEF Spent, CountedBy
  <2>5. QED
    BY <2>2, <2>3, <2>4, FS_Subset, FS_CardinalityType
<1>4. allowed + Cardinality(Passing) <= Cardinality(Spent) + SpentLocally + Limit * losses
  BY DEF RedisInv, LimitKept
<1> HIDE DEF places, here
<1>5. Limit * (places + losses + here) = places * Limit + Limit * here + Limit * losses
  BY <1>1, <1>2, <1>3, RedisConstants
<1> DEFINE k == Limit * losses
           n == places * Limit
           h == Limit * here
<1>6. k \in Nat /\ n \in Nat /\ h \in Nat
  BY <1>1, <1>2, <1>3, RedisConstants
<1>7. /\ Cardinality(Spent) <= n /\ SpentLocally <= h
      /\ allowed + Cardinality(Passing) <= Cardinality(Spent) + SpentLocally + k
  BY <1>2, <1>3, <1>4
<1> HIDE DEF k, n, h
<1>8. allowed <= n + h + k
  BY <1>1, <1>2, <1>3, <1>6, <1>7
<1>9. QED
  BY <1>5, <1>8 DEF AllowedBounded, k, n, h, places, here

\* AllowedBounded is an invariant, for every number of instances, threads, hits and changes:
\* a key's hits are allowed no more often than each place that has counted one allows, however
\* many requests fail over at once (rate_limit_hit).
THEOREM AllowedBoundedAlways == RedisSpec => []AllowedBounded
<1>1. QED
  BY RedisInvInit, RedisInvStep, LimitMeans, PTL DEF RedisSpec
=============================================================================
