----------------------- MODULE ClassAttendanceProofs -----------------------
(***************************************************************************)
(* The record follows the ledger, what is claimed was counted, guesses     *)
(* are bounded and credit is lost to nobody but the staff, for any number  *)
(* of threads, tokens, attempts and handlers.                              *)
(*                                                                         *)
(* The invariant has three layers.  Routine: what a transaction has in its *)
(* fields follows from what it still has to do.  Fitting: what it has read *)
(* is still so, as far as a lock or the stale flag vouches for it.  And    *)
(* the tables: what is committed was counted.                              *)
(***************************************************************************)
EXTENDS ClassAttendance, FiniteSetTheorems, SequenceTheorems, TLAPS

(***************************************************************************)
(* What a transaction has left to do                                       *)
(***************************************************************************)

Issuing == <<"issue">>
Counting == <<"count", "face">>
Facing == <<"face">>
Refusing == <<"read", "submission", "commit">>
Submitting == <<"submission", "commit">>
Committing == <<"commit">>
Verifying == <<"submission", "append", "record", "commit">>
Recounting == <<"append", "record", "commit">>
Recording == <<"record", "commit">>
Asking == <<"request", "commit">>
Reviewing == <<"request", "append", "record", "read", "submission", "commit">>
ReviewAppends == <<"append", "record", "read", "submission", "commit">>
ReviewRecords == <<"record", "read", "submission", "commit">>
Noting == <<"correction", "commit">>
Applying == <<"correction", "commit", "submission", "append", "record", "commit",
              "correction", "commit">>
ApplyCommits == <<"commit", "submission", "append", "record", "commit", "correction", "commit">>
ApplyNotes == <<"correction", "submission", "append", "record", "commit", "correction",
                "commit">>
ApplySubmits == <<"submission", "append", "record", "commit", "correction", "commit">>
ApplyAppends == <<"append", "record", "commit", "correction", "commit">>
ApplyRecords == <<"record", "commit", "correction", "commit">>
ApplyEnds == <<"commit", "correction", "commit">>

\* An event is still to be appended, or may be.
Appending == {Counting, Facing, Verifying, Recounting, Reviewing, ReviewAppends, Applying,
              ApplyCommits, ApplyNotes, ApplySubmits, ApplyAppends}

\* The ledger has been read, and the record is written next.
LedgerRead == {Recording, ReviewRecords, ApplyRecords}

\* The override of a correction is still to be decided, or to be committed.
Overriding == {Applying, ApplyCommits, ApplyNotes, ApplySubmits, ApplyAppends}
Overridden == {ApplyRecords, ApplyEnds}

\* What the handlers of each kind go through, one step at a time.
Programs(kind) ==
  CASE kind = "idle" -> {<<>>}
    [] kind = "validate" -> {Issuing}
    [] kind = "audit" -> {Refusing, Submitting, Committing}
    [] kind = "mark" -> {Counting, Facing, Refusing, Submitting, Committing, Verifying,
                         Recounting, Recording}
    [] kind = "request" -> {Asking, Committing}
    [] kind = "review" -> {Asking, Reviewing, ReviewAppends, ReviewRecords, Refusing, Submitting,
                           Committing}
    [] kind = "batch" -> {Verifying, Recounting, Recording, Submitting, Committing}
    [] kind = "bulk" -> {Recounting, Recording, Committing}
    [] kind = "override" -> {Verifying, Recounting, Recording, Committing}
    [] kind = "correct" -> Overriding \cup Overridden \cup {Noting, Committing}
    [] kind = "recompute" -> {Recording, Committing}
    [] kind = "autopilot" -> {Committing}

(***************************************************************************)
(* The invariant                                                           *)
(***************************************************************************)

\* The record is written by who has read the ledger, and whoever appends an event writes
\* the record in the same transaction.
ReadsFirst(j) ==
  /\ j.todo \in LedgerRead => j.latest # NoEvent
  /\ "record" \in j.wrote => j.latest # NoEvent
  /\ j.event # NoEvent => "record" \in j.wrote \/ j.todo \in LedgerRead

\* A mark counts its attempt before the face is looked at.
CountsFirst(j) ==
  /\ j.kind = "mark" => /\ j.token \in Tokens /\ j.seenAttempts < MaxAttempts
                        /\ j.todo # Counting => "token" \in j.wrote
  /\ "token" \in j.wrote => j.kind = "mark"
  /\ j.faced => j.kind = "mark" /\ j.todo \notin {Counting, Facing}

\* Only a mark verifies, and it appends a presence before it commits.
Presents(j) ==
  j.putSubmission = "verified" =>
    /\ j.kind = "mark" /\ j.todo \notin {Counting, Facing}
    /\ j.status = "present"
    /\ j.todo \notin {Verifying, Recounting} => j.event # NoEvent /\ j.event.status = "present"

\* Whoever is to write the submission knows what.
Decides(j) ==
  /\ \/ j.kind \in {"audit", "batch", "override"}
     \/ j.kind = "mark" /\ j.todo \notin {Counting, Facing}
     \/ j.kind = "review" /\ j.todo \in {Reviewing, ReviewAppends, ReviewRecords, Refusing, Submitting}
     \/ j.kind = "correct" /\ j.todo \in Overriding
     \/ "submission" \in j.wrote
     => j.putSubmission # "none"
  /\ j.kind \in {"audit", "mark"} => j.putSubmission \in {"none", "rejected", "verified"}
  /\ j.kind \in {"override", "correct"} /\ j.todo \in {Recounting, ApplyAppends} =>
       "submission" \in j.wrote
  /\ "submission" \in j.wrote => j.kind \in Staff \cup {"audit", "mark"}
  /\ j.kind \notin {"override", "correct"} /\ j.todo \in {Verifying, Recounting, Reviewing, ReviewAppends} =>
       j.status \in Attendance

\* A correction is noted as applied in a transaction after that of its event.
Corrects(j) ==
  /\ j.kind = "correct" /\ j.event # NoEvent => j.event.by = "correction"
  /\ j.todo \in Overridden => j.event # NoEvent
  /\ j.putCorrection = "applied" =>
       /\ j.kind = "correct"
       /\ j.todo \in {ApplySubmits, ApplyAppends, Noting, Committing} \cup Overridden
       /\ j.todo \notin {Noting, Committing} => "correction" \notin j.wrote

Routine(j) ==
  /\ j \in Job
  /\ j.todo \in Programs(j.kind)
  /\ ReadsFirst(j) /\ CountsFirst(j) /\ Presents(j) /\ Decides(j) /\ Corrects(j)

IsLatest(e, day) == e \in day /\ \A f \in day : f.at <= e.at

\* What the transaction has read against what the tables hold.
Fitting(j) ==
  /\ j.seenSubmission # "none" => submission # "none"
  /\ "submission" \in j.wrote /\ j.seenSubmission = "none" => submission = "none"
  /\ j.seenRecord # NoRecord => record # NoRecord
  /\ j.latest # NoEvent /\ ~j.stale =>
       j.seenRecord = record /\ IsLatest(j.latest, events \cup ({j.event} \ {NoEvent}))
  /\ j.putCorrection = "applied" /\ j.todo \in {Noting, Committing} =>
       \E e \in events : e.by = "correction"

\* The row of the submission has one writer.
OneWriter == \A v, w \in Workers :
  v # w => ~("submission" \in job[v].wrote /\ "submission" \in job[w].wrote)

\* Every event took a handler that had begun and has no event to append any more.
Appenders == {w \in Workers : job[w].todo \in Appending}
Clocked ==
  /\ clock + Cardinality(Appenders) <= starts + 2
  /\ \A e \in events : e.at <= clock
  /\ \A w \in Workers : job[w].event.at <= clock

HasLatest == events # {} => \E e \in events : IsLatest(e, events)

\* The tokens issued, and those about to be.
Validating == {w \in Workers : job[w].todo = Issuing}
IssuedInOrder ==
  /\ IssuedTokens = 1..Cardinality(IssuedTokens)
  /\ Cardinality(IssuedTokens) + Cardinality(Validating) <= MaxTokens + Cardinality(Workers) - 1

FacesCounted == \A t \in Tokens \ raced : faces[t] <= token[t].attempts

TablesTyped ==
  /\ session \in {"none", "open", "over"}
  /\ overlapped \in BOOLEAN
  /\ token \in [Tokens -> Token]
  /\ submission \in SubmissionStatuses \cup {"none"}
  /\ events \subseteq Event
  /\ record \in Record \cup {NoRecord}
  /\ request \in RequestStatuses
  /\ correction \in CorrectionStatuses
  /\ plans \in [PlanIds -> Risks \cup {NoRisk}]
  /\ newest \in PlanIds
  /\ clock \in Nat /\ starts \in 0..MaxStarts
  /\ faces \in [Tokens -> Nat]
  /\ raced \subseteq Tokens

AttendanceInv ==
  /\ TablesTyped
  /\ job \in [Workers -> Job]
  /\ \A w \in Workers : Routine(job[w]) /\ Fitting(job[w])
  /\ OneWriter /\ Clocked /\ HasLatest /\ IssuedInOrder /\ FacesCounted
  /\ RecordFollowsLedger /\ CountedAsClaimed
(***************************************************************************)
(* Programs                                                                *)
(***************************************************************************)

LEMMA Constants ==
  /\ IsFiniteSet(Workers) /\ Workers # {} /\ Cardinality(Workers) \in Nat /\ Cardinality(Workers) > 0
  /\ MaxTokens \in Nat /\ MaxTokens > 0 /\ MaxAttempts \in Nat /\ MaxAttempts > 0
  /\ MaxStarts \in Nat
<1>1. IsFiniteSet(Workers) /\ Workers # {} /\ MaxStarts \in Nat
      /\ MaxTokens \in Nat \ {0} /\ MaxAttempts \in Nat \ {0}
  BY AttendanceAssumption
<1>2. Cardinality(Workers) \in Nat /\ Cardinality(Workers) # 0
  BY <1>1, FS_CardinalityType, FS_EmptySet
<1>3. QED
  BY <1>1, <1>2

\* The next step of each program, and what is left after it.
LEMMA Steppings ==
  /\ Tail(Issuing) = <<>> /\ Tail(Committing) = <<>> /\ Tail(Facing) = <<>>
  /\ Tail(Counting) = Facing
  /\ Tail(Refusing) = Submitting /\ Tail(Submitting) = Committing
  /\ Tail(Verifying) = Recounting /\ Tail(Recounting) = Recording /\ Tail(Recording) = Committing
  /\ Tail(Asking) = Committing /\ Tail(Noting) = Committing
  /\ Tail(Reviewing) = ReviewAppends /\ Tail(ReviewAppends) = ReviewRecords
  /\ Tail(ReviewRecords) = Refusing
  /\ Tail(Applying) = ApplyCommits /\ Tail(ApplyCommits) = ApplySubmits
  /\ Tail(ApplyNotes) = ApplySubmits /\ Tail(ApplySubmits) = ApplyAppends
  /\ Tail(ApplyAppends) = ApplyRecords /\ Tail(ApplyRecords) = ApplyEnds
  /\ Tail(ApplyEnds) = Noting
  BY DEF Issuing, Counting, Facing, Refusing, Submitting, Committing, Verifying, Recounting, Recording, Asking, Reviewing, ReviewAppends, ReviewRecords, Noting, Applying, ApplyCommits, ApplyNotes, ApplySubmits, ApplyAppends, ApplyRecords, ApplyEnds

LEMMA Heads ==
  /\ Head(Issuing) = "issue"
  /\ Head(Counting) = "count"
  /\ Head(Facing) = "face"
  /\ Head(Refusing) = "read"
  /\ Head(Submitting) = "submission" /\ Head(Verifying) = "submission" /\ Head(ApplySubmits) = "submission"
  /\ Head(Recounting) = "append" /\ Head(ReviewAppends) = "append" /\ Head(ApplyAppends) = "append"
  /\ Head(Recording) = "record" /\ Head(ReviewRecords) = "record" /\ Head(ApplyRecords) = "record"
  /\ Head(Asking) = "request" /\ Head(Reviewing) = "request"
  /\ Head(Noting) = "correction" /\ Head(Applying) = "correction" /\ Head(ApplyNotes) = "correction"
  /\ Head(Committing) = "commit" /\ Head(ApplyCommits) = "commit" /\ Head(ApplyEnds) = "commit"
  BY DEF Issuing, Counting, Facing, Refusing, Submitting, Committing, Verifying, Recounting, Recording, Asking, Reviewing, ReviewAppends, ReviewRecords, Noting, Applying, ApplyCommits, ApplyNotes, ApplySubmits, ApplyAppends, ApplyRecords, ApplyEnds

AllPrograms == {Issuing, Counting, Facing, Refusing, Submitting, Committing, Verifying,
                Recounting, Recording, Asking, Reviewing, ReviewAppends, ReviewRecords, Noting,
                Applying, ApplyCommits, ApplyNotes, ApplySubmits, ApplyAppends, ApplyRecords,
                ApplyEnds}

LEMMA ProgramsTyped == \A s \in AllPrograms \cup {<<>>} : s \in Seq(Steps)
<1>1. {Issuing, Counting, Facing, Refusing, Submitting, Committing, Verifying} \subseteq Seq(Steps)
  BY DEF Steps, Issuing, Counting, Facing, Refusing, Submitting, Committing, Verifying
<1>2. {Recounting, Recording, Asking, Reviewing, ReviewAppends, ReviewRecords, Noting} \subseteq Seq(Steps)
  BY DEF Steps, Recounting, Recording, Asking, Reviewing, ReviewAppends, ReviewRecords, Noting
<1>3. {Applying, ApplyCommits, ApplyNotes} \subseteq Seq(Steps)
  BY DEF Steps, Applying, ApplyCommits, ApplyNotes
<1>4. {ApplySubmits, ApplyAppends, ApplyRecords, ApplyEnds} \subseteq Seq(Steps)
  BY DEF Steps, ApplySubmits, ApplyAppends, ApplyRecords, ApplyEnds
<1>5. <<>> \in Seq(Steps)
  OBVIOUS
<1>6. QED
  BY <1>1, <1>2, <1>3, <1>4, <1>5 DEF AllPrograms

LEMMA ProgramsNotEmpty == <<>> \notin AllPrograms
  BY DEF AllPrograms, Issuing, Counting, Facing, Refusing, Submitting, Committing, Verifying, Recounting, Recording, Asking, Reviewing, ReviewAppends, ReviewRecords, Noting, Applying, ApplyCommits, ApplyNotes, ApplySubmits, ApplyAppends, ApplyRecords, ApplyEnds

\* Programs with the same next step differ in their length.
LEMMA ProgramsDiffer ==
  /\ Len(Submitting) = 2 /\ Len(Verifying) = 4 /\ Len(ApplySubmits) = 6
  /\ Len(Recounting) = 3 /\ Len(ReviewAppends) = 5 /\ Len(ApplyAppends) = 5
  /\ Len(Recording) = 2 /\ Len(ReviewRecords) = 4 /\ Len(ApplyRecords) = 4
  /\ Len(Asking) = 2 /\ Len(Reviewing) = 6
  /\ Len(Noting) = 2 /\ Len(Applying) = 8 /\ Len(ApplyNotes) = 7
  /\ Len(Committing) = 1 /\ Len(ApplyCommits) = 7 /\ Len(ApplyEnds) = 3
  /\ ReviewAppends # ApplyAppends /\ ReviewRecords # ApplyRecords
  BY DEF Issuing, Counting, Facing, Refusing, Submitting, Committing, Verifying, Recounting, Recording, Asking, Reviewing, ReviewAppends, ReviewRecords, Noting, Applying, ApplyCommits, ApplyNotes, ApplySubmits, ApplyAppends, ApplyRecords, ApplyEnds

LEMMA ProgramsOf == \A kind \in Kinds : Programs(kind) \subseteq AllPrograms \cup {<<>>}
  BY DEF Kinds, Programs, AllPrograms, Overriding, Overridden
(***************************************************************************)
(* Steps that change no table                                              *)
(***************************************************************************)

\* w has j for its transaction, and the tables are as they were.
QuietStep(w, j) ==
  /\ job' = [job EXCEPT ![w] = j]
  /\ UNCHANGED <<session, tables, ghosts>>
  /\ Routine(j) /\ Fitting(j)
  /\ "submission" \in j.wrote => "submission" \in job[w].wrote
                                   \/ \A v \in Workers \ {w} : "submission" \notin job[v].wrote
  /\ j.todo = Issuing => Cardinality(IssuedTokens) < MaxTokens
  /\ \/ clock' = clock /\ starts' = starts /\ (j.todo \in Appending => job[w].todo \in Appending)
     \/ clock' = clock /\ starts' = starts + 1 /\ starts < MaxStarts
     \/ clock' = clock + 1 /\ starts' = starts /\ job[w].todo \in Appending /\ j.todo \notin Appending
  /\ j.event.at <= clock'

LEMMA SetsOfWorkers ==
  /\ IsFiniteSet(Appenders) /\ Cardinality(Appenders) \in Nat
  /\ IsFiniteSet(Validating) /\ Cardinality(Validating) \in Nat
  /\ Appenders \subseteq Workers /\ Validating \subseteq Workers
<1>1. Appenders \subseteq Workers /\ Validating \subseteq Workers
  BY DEF Appenders, Validating
<1>2. QED
  BY <1>1, Constants, FS_Subset, FS_CardinalityType

LEMMA CardinalityOneMore ==
  ASSUME NEW S, IsFiniteSet(S), NEW T, NEW x, T \subseteq S \cup {x}
  PROVE  IsFiniteSet(T) /\ Cardinality(T) <= Cardinality(S) + 1
<1>1. IsFiniteSet(S \cup {x}) /\ Cardinality(S \cup {x}) <= Cardinality(S) + 1
      /\ Cardinality(S \cup {x}) \in Nat /\ Cardinality(S) \in Nat
  BY FS_AddElement, FS_CardinalityType
<1>2. IsFiniteSet(T) /\ Cardinality(T) <= Cardinality(S \cup {x}) /\ Cardinality(T) \in Nat
  BY <1>1, FS_Subset, FS_CardinalityType
<1>3. QED
  BY <1>1, <1>2

LEMMA CardinalityOneLess ==
  ASSUME NEW S, IsFiniteSet(S), NEW x \in S
  PROVE  Cardinality(S \ {x}) = Cardinality(S) - 1
  BY FS_RemoveElement

LEMMA QuietClocked ==
  ASSUME AttendanceInv, NEW w \in Workers, NEW j, QuietStep(w, j)
  PROVE  Clocked' /\ clock' \in Nat /\ starts' \in 0..MaxStarts
<1>1. /\ clock \in Nat /\ starts \in 0..MaxStarts /\ MaxStarts \in Nat
      /\ job' = [job EXCEPT ![w] = j] /\ job \in [Workers -> Job]
      /\ clock + Cardinality(Appenders) <= starts + 2
  BY Constants DEF AttendanceInv, TablesTyped, QuietStep, Clocked
<1>2. /\ \A v \in Workers : job'[v] = IF v = w THEN j ELSE job[v]
  BY <1>1
<1>3. clock' \in Nat /\ starts' \in 0..MaxStarts /\ clock <= clock'
  BY <1>1 DEF QuietStep
<1>4. \A e \in events' : e.at <= clock'
  <2>1. SUFFICES ASSUME NEW e \in events PROVE e.at <= clock'
    BY DEF QuietStep, tables
  <2>2. e.at <= clock /\ e.at \in Nat
    BY Constants DEF AttendanceInv, TablesTyped, Clocked, Event
  <2>3. QED
    BY <2>2, <1>1, <1>3
<1>5. \A v \in Workers : job'[v].event.at <= clock'
  <2>1. SUFFICES ASSUME NEW v \in Workers PROVE job'[v].event.at <= clock'
    OBVIOUS
  <2>2. CASE v = w
    BY <2>2, <1>2 DEF QuietStep
  <2>3. CASE v # w
    <3>1. job[v] \in Job /\ job[v].event.at <= clock
      BY <1>1 DEF AttendanceInv, Clocked
    <3>2. job[v].event \in Event \cup {NoEvent}
      BY <3>1 DEF Job
    <3>3. job[v].event.at \in Nat
      BY <3>2, Constants DEF Event, NoEvent
    <3>4. QED
      BY <3>1, <3>3, <1>1, <1>2, <1>3, <2>3
  <2>4. QED
    BY <2>2, <2>3
<1>6. /\ IsFiniteSet(Appenders) /\ Cardinality(Appenders) \in Nat
      /\ IsFiniteSet(Appenders') /\ Cardinality(Appenders') \in Nat
  <2>1. Appenders' \subseteq Workers
    BY DEF Appenders
  <2>2. QED
    BY <2>1, SetsOfWorkers, Constants, FS_Subset, FS_CardinalityType
<1>7. clock' + Cardinality(Appenders') <= starts' + 2
  <2>1. CASE clock' = clock /\ starts' = starts /\ (j.todo \in Appending => job[w].todo \in Appending)
    <3>1. Appenders' \subseteq Appenders
      BY <2>1, <1>2 DEF Appenders
    <3>2. QED
      BY <3>1, <2>1, <1>1, <1>6, FS_Subset
  <2>2. CASE clock' = clock /\ starts' = starts + 1 /\ starts < MaxStarts
    <3>1. Appenders' \subseteq Appenders \cup {w}
      BY <1>2 DEF Appenders
    <3>2. Cardinality(Appenders') <= Cardinality(Appenders) + 1
      BY <3>1, <1>6, CardinalityOneMore
    <3>3. QED
      BY <3>2, <2>2, <1>1, <1>6
  <2>3. CASE clock' = clock + 1 /\ starts' = starts /\ job[w].todo \in Appending /\ j.todo \notin Appending
    <3>1. Appenders' = Appenders \ {w} /\ w \in Appenders
      BY <2>3, <1>2 DEF Appenders
    <3>2. Cardinality(Appenders') = Cardinality(Appenders) - 1
      BY <3>1, <1>6, CardinalityOneLess
    <3>3. QED
      BY <3>2, <2>3, <1>1, <1>6
  <2>4. QED
    BY <2>1, <2>2, <2>3 DEF QuietStep
<1>8. QED
  BY <1>3, <1>4, <1>5, <1>7 DEF Clocked

LEMMA QuietIssued ==
  ASSUME AttendanceInv, NEW w \in Workers, NEW j, QuietStep(w, j)
  PROVE  IssuedInOrder'
<1>1. /\ token' = token /\ IssuedTokens' = IssuedTokens /\ job' = [job EXCEPT ![w] = j]
      /\ job \in [Workers -> Job]
  BY DEF QuietStep, tables, IssuedTokens, AttendanceInv
<1>2. \A v \in Workers : job'[v] = IF v = w THEN j ELSE job[v]
  BY <1>1
<1>3. IssuedTokens = 1..Cardinality(IssuedTokens) /\ Cardinality(IssuedTokens) \in Nat
  <2>1. Tokens \in SUBSET Nat /\ IsFiniteSet(Tokens)
    BY Constants, FS_Interval, SMTT(30) DEF Tokens
  <2>2. IsFiniteSet(IssuedTokens)
    BY <2>1, FS_Subset DEF IssuedTokens
  <2>3. QED
    BY <2>2, FS_CardinalityType DEF AttendanceInv, IssuedInOrder
<1>4. Cardinality(IssuedTokens) + Cardinality(Validating') <= MaxTokens + Cardinality(Workers) - 1
  <2>0. /\ Validating' \subseteq Workers /\ Cardinality(Validating') \in Nat
        /\ Cardinality(Validating') <= Cardinality(Workers)
    <3>1. Validating' \subseteq Workers
      BY DEF Validating
    <3>2. QED
      BY <3>1, Constants, FS_Subset, FS_CardinalityType
  <2>1. CASE j.todo = Issuing
    <3>1. Cardinality(IssuedTokens) < MaxTokens
      BY <2>1 DEF QuietStep
    <3>2. QED
      BY <3>1, <2>0, <1>3, Constants
  <2>2. CASE j.todo # Issuing
    <3>1. Validating' \subseteq Validating
      BY <2>2, <1>2 DEF Validating
    <3>2. Cardinality(Validating') <= Cardinality(Validating) /\ Cardinality(Validating) \in Nat
      BY <3>1, SetsOfWorkers, FS_Subset
    <3>3. Cardinality(IssuedTokens) + Cardinality(Validating) <= MaxTokens + Cardinality(Workers) - 1
      BY DEF AttendanceInv, IssuedInOrder
    <3>4. QED
      BY <3>2, <3>3, <2>0, <1>3, Constants
  <2>3. QED
    BY <2>1, <2>2
<1>5. QED
  BY <1>1, <1>3, <1>4 DEF IssuedInOrder

LEMMA QuietKeeps ==
  ASSUME AttendanceInv, NEW w \in Workers, NEW j, QuietStep(w, j)
  PROVE  AttendanceInv'
<1>1. /\ job' = [job EXCEPT ![w] = j] /\ job \in [Workers -> Job] /\ j \in Job
      /\ UNCHANGED <<session, token, submission, events, record, request, correction, plans, newest,
                     faces, raced, overlapped>>
  BY DEF QuietStep, AttendanceInv, Routine, tables, ghosts
<1>2. job' \in [Workers -> Job] /\ \A v \in Workers : job'[v] = IF v = w THEN j ELSE job[v]
  BY <1>1
<1>3. Clocked' /\ clock' \in Nat /\ starts' \in 0..MaxStarts
  BY QuietClocked
<1>4. TablesTyped'
  BY <1>1, <1>3 DEF AttendanceInv, TablesTyped
<1>5. ASSUME NEW v \in Workers PROVE Routine(job[v])' /\ Fitting(job[v])'
  <2>1. Routine(job'[v]) /\ Fitting(job'[v])
    BY <1>2 DEF QuietStep, AttendanceInv
  <2>2. QED
    BY <2>1, <1>1 DEF Routine, ReadsFirst, CountsFirst, Presents, Decides, Corrects, Fitting
<1>6. OneWriter'
  <2>1. SUFFICES ASSUME NEW u \in Workers, NEW v \in Workers, u # v,
                        "submission" \in job'[u].wrote, "submission" \in job'[v].wrote
                 PROVE  FALSE
    BY DEF OneWriter
  <2>2. \A x \in Workers : x # w => ~("submission" \in job[w].wrote /\ "submission" \in job[x].wrote)
    BY DEF AttendanceInv, OneWriter
  <2>3. CASE u # w /\ v # w
    BY <2>1, <2>3, <1>2 DEF AttendanceInv, OneWriter
  <2>4. CASE u = w \/ v = w
    BY <2>1, <2>2, <2>4, <1>2 DEF QuietStep
  <2>5. QED
    BY <2>3, <2>4
<1>7. HasLatest' /\ FacesCounted' /\ RecordFollowsLedger' /\ CountedAsClaimed'
  BY <1>1 DEF AttendanceInv, HasLatest, IsLatest, FacesCounted, RecordFollowsLedger, CountedAsClaimed
<1>8. QED
  BY <1>2, <1>3, <1>4, <1>5, <1>6, <1>7, QuietIssued DEF AttendanceInv
(***************************************************************************)
(* Transactions that begin or are rolled back                              *)
(***************************************************************************)

\* A transaction that has read and not written.
Fresh(j) ==
  /\ j \in Job /\ j.todo \in Programs(j.kind) /\ j.wrote = {} /\ j.event = NoEvent /\ ~j.faced
  /\ j.seenSubmission \in {"none", submission}
  /\ j.seenRecord \in {NoRecord, record}
  /\ \/ j.latest = NoEvent /\ j.todo \notin LedgerRead
     \/ j.seenRecord = record /\ IsLatest(j.latest, events)
  /\ j.kind = "mark" => j.todo = Counting /\ j.token \in Tokens /\ j.seenAttempts < MaxAttempts
  /\ j.putSubmission # "verified"
  /\ j.todo \notin Overridden
  /\ j.putCorrection = "applied" => j.kind = "correct" /\ j.todo \in {ApplySubmits, Noting}
  /\ j.putCorrection = "applied" /\ j.todo = Noting => \E e \in events : e.by = "correction"
  /\ Decides(j)

LEMMA NoEventIsNone == NoEvent \notin Event /\ NoRecord \notin Record
  BY DEF NoEvent, Event, NoRecord, Record, Attendance

LEMMA FreshFits ==
  ASSUME TablesTyped, NEW j, Fresh(j)
  PROVE  Routine(j) /\ Fitting(j)
<1>1. j \in Job /\ j.todo \in Programs(j.kind) /\ Decides(j)
  BY DEF Fresh
<1>2. ReadsFirst(j)
  <2>1. j.todo \in LedgerRead => j.latest # NoEvent
    BY NoEventIsNone DEF Fresh, IsLatest, TablesTyped
  <2>2. QED
    BY <2>1 DEF Fresh, ReadsFirst
<1>3. CountsFirst(j)
  BY DEF Fresh, CountsFirst
<1>4. Presents(j)
  BY DEF Fresh, Presents
<1>5. Corrects(j)
  BY DEF Fresh, Corrects
<1>6. Fitting(j)
  <2>1. events \cup ({j.event} \ {NoEvent}) = events
    BY DEF Fresh
  <2>2. ApplySubmits # Committing
    BY ProgramsDiffer
  <2>3. QED
    BY <2>1, <2>2 DEF Fresh, Fitting
<1>7. QED
  BY <1>1, <1>2, <1>3, <1>4, <1>5, <1>6 DEF Routine

\* A field of a transaction takes a value of its type.
LEMMA Updated ==
  \A j \in Job :
    /\ \A x \in Kinds : [j EXCEPT !.kind = x] \in Job
    /\ \A x \in Seq(Steps) : [j EXCEPT !.todo = x] \in Job
    /\ \A x \in SUBSET Rows : [j EXCEPT !.wrote = x] \in Job
    /\ \A x \in Tokens : [j EXCEPT !.token = x] \in Job
    /\ \A x \in 0..MaxAttempts : [j EXCEPT !.seenAttempts = x] \in Job
    /\ \A x \in BOOLEAN : [j EXCEPT !.faced = x] \in Job
    /\ \A x \in SubmissionStatuses \cup {"none"} :
         [j EXCEPT !.seenSubmission = x] \in Job /\ [j EXCEPT !.putSubmission = x] \in Job
    /\ \A x \in RequestStatuses :
         [j EXCEPT !.seenRequest = x] \in Job /\ [j EXCEPT !.putRequest = x] \in Job
    /\ \A x \in CorrectionStatuses : [j EXCEPT !.putCorrection = x] \in Job
    /\ \A x \in Attendance : [j EXCEPT !.status = x] \in Job
    /\ \A x \in Event : [j EXCEPT !.event = x] \in Job /\ [j EXCEPT !.latest = x] \in Job
    /\ \A x \in Record \cup {NoRecord} : [j EXCEPT !.seenRecord = x] \in Job
    /\ \A x \in PlanIds \cup {0} : [j EXCEPT !.plan = x] \in Job
    /\ \A x \in Risks \cup {NoRisk} : [j EXCEPT !.seenRisk = x] \in Job /\ [j EXCEPT !.putRisk = x] \in Job
    /\ \A x \in BOOLEAN : [j EXCEPT !.stale = x] \in Job
<1>1. \A j \in Job : \A x \in Kinds : [j EXCEPT !.kind = x] \in Job
  BY DEF Job
<1>2. \A j \in Job : \A x \in Seq(Steps) : [j EXCEPT !.todo = x] \in Job
  BY DEF Job
<1>3. \A j \in Job : \A x \in SUBSET Rows : [j EXCEPT !.wrote = x] \in Job
  BY DEF Job
<1>4. \A j \in Job : \A x \in Tokens : [j EXCEPT !.token = x] \in Job
  BY DEF Job
<1>5. \A j \in Job : \A x \in 0..MaxAttempts : [j EXCEPT !.seenAttempts = x] \in Job
  BY DEF Job
<1>6. \A j \in Job : \A x \in BOOLEAN : [j EXCEPT !.faced = x] \in Job
  BY DEF Job
<1>7. \A j \in Job : \A x \in SubmissionStatuses \cup {"none"} : [j EXCEPT !.seenSubmission = x] \in Job
  BY DEF Job
<1>8. \A j \in Job : \A x \in SubmissionStatuses \cup {"none"} : [j EXCEPT !.putSubmission = x] \in Job
  BY DEF Job
<1>9. \A j \in Job : \A x \in RequestStatuses : [j EXCEPT !.seenRequest = x] \in Job
  BY DEF Job
<1>10. \A j \in Job : \A x \in RequestStatuses : [j EXCEPT !.putRequest = x] \in Job
  BY DEF Job
<1>11. \A j \in Job : \A x \in CorrectionStatuses : [j EXCEPT !.putCorrection = x] \in Job
  BY DEF Job
<1>12. \A j \in Job : \A x \in Attendance : [j EXCEPT !.status = x] \in Job
  BY DEF Job
<1>13. \A j \in Job : \A x \in Event : [j EXCEPT !.event = x] \in Job
  BY DEF Job
<1>14. \A j \in Job : \A x \in Event : [j EXCEPT !.latest = x] \in Job
  BY DEF Job
<1>15. \A j \in Job : \A x \in Record \cup {NoRecord} : [j EXCEPT !.seenRecord = x] \in Job
  BY DEF Job
<1>16. \A j \in Job : \A x \in PlanIds \cup {0} : [j EXCEPT !.plan = x] \in Job
  BY DEF Job
<1>17. \A j \in Job : \A x \in Risks \cup {NoRisk} : [j EXCEPT !.seenRisk = x] \in Job
  BY DEF Job
<1>18. \A j \in Job : \A x \in Risks \cup {NoRisk} : [j EXCEPT !.putRisk = x] \in Job
  BY DEF Job
<1>19. \A j \in Job : \A x \in BOOLEAN : [j EXCEPT !.stale = x] \in Job
  BY DEF Job
<1>20. QED
  BY <1>1, <1>2, <1>3, <1>4, <1>5, <1>6, <1>7, <1>8, <1>9, <1>10, <1>11, <1>12, <1>13, <1>14, <1>15, <1>16, <1>17, <1>18, <1>19

LEMMA IdleFields ==
  /\ IdleJob \in Job
  /\ IdleJob.kind = "idle" /\ IdleJob.todo = <<>> /\ IdleJob.wrote = {} /\ IdleJob.token = NoToken
  /\ IdleJob.seenAttempts = 0 /\ IdleJob.faced = FALSE /\ IdleJob.seenSubmission = "none"
  /\ IdleJob.putSubmission = "none" /\ IdleJob.seenRequest = "none" /\ IdleJob.putRequest = "none"
  /\ IdleJob.putCorrection = "none" /\ IdleJob.status = "none" /\ IdleJob.event = NoEvent
  /\ IdleJob.latest = NoEvent /\ IdleJob.seenRecord = NoRecord /\ IdleJob.plan = 0
  /\ IdleJob.seenRisk = NoRisk /\ IdleJob.putRisk = NoRisk /\ IdleJob.stale = FALSE
<1>1. IdleJob \in Job
  BY Constants DEF Job, IdleJob, Kinds, Steps, Rows, RequestStatuses, CorrectionStatuses
<1>2. QED
  BY <1>1 DEF IdleJob

\* No program is empty, and every one has its first step.
LEMMA NotSteps ==
  /\ <<>> \notin Appending /\ <<>> \notin LedgerRead /\ <<>> # Issuing /\ <<>> \notin Overridden
  /\ <<>> \notin {Reviewing, ReviewAppends, ReviewRecords, Refusing, Submitting, Verifying,
                  Recounting, ApplyAppends, Noting, Committing}
  BY ProgramsNotEmpty DEF AllPrograms, Appending, LedgerRead, Overridden

LEMMA IdleIsFresh ==
  ASSUME TablesTyped
  PROVE  Fresh(IdleJob)
<1>1. Decides(IdleJob)
  BY IdleFields, NotSteps DEF Decides, Staff
<1>2. IdleJob.todo \in Programs(IdleJob.kind)
  BY IdleFields DEF Programs
<1>3. QED
  BY <1>1, <1>2, IdleFields, NotSteps DEF Fresh

LEMMA RollbackKeeps ==
  ASSUME AttendanceInv, NEW w \in Workers, Rollback(w)
  PROVE  AttendanceInv'
<1>1. Routine(IdleJob) /\ Fitting(IdleJob)
  BY IdleIsFresh, FreshFits DEF AttendanceInv
<1>2. IdleJob.event.at <= clock
  BY IdleFields DEF NoEvent, AttendanceInv, TablesTyped
<1>3. QuietStep(w, IdleJob)
  BY <1>1, <1>2, IdleFields, NotSteps DEF QuietStep, Rollback, tables, ghosts
<1>4. QED
  BY <1>3, QuietKeeps

\* A handler begins with j, and reads the tables as they are.
LEMMA BeginKeeps ==
  ASSUME AttendanceInv, NEW w \in Workers, NEW j, Fresh(j),
         starts' = starts + 1, starts < MaxStarts,
         job' = [job EXCEPT ![w] = j], UNCHANGED <<session, tables, clock, ghosts>>,
         j.todo = Issuing => Cardinality(IssuedTokens) < MaxTokens
  PROVE  AttendanceInv'
<1>1. j.event.at <= clock' /\ j.wrote = {}
  BY DEF Fresh, NoEvent, AttendanceInv, TablesTyped
<1>2. Routine(j) /\ Fitting(j)
  BY FreshFits DEF AttendanceInv
<1>3. QuietStep(w, j)
  BY <1>1, <1>2 DEF QuietStep, tables, ghosts
<1>4. QED
  BY <1>3, QuietKeeps
\* The programs that the handlers put together.
LEMMA Concatenations ==
  /\ Count = Recounting /\ OverrideSteps = Verifying /\ <<"submission">> \o Count = Verifying
  /\ <<"correction", "commit">> \o OverrideSteps \o <<"correction", "commit">> = Applying
  /\ <<"correction">> \o OverrideSteps \o <<"correction", "commit">> = ApplyNotes
<1> DEFINE one == <<"submission">>
           note == <<"correction">>
<1>1. /\ one \in Seq(Steps) /\ Len(one) = 1 /\ one[1] = "submission"
      /\ note \in Seq(Steps) /\ Len(note) = 1 /\ note[1] = "correction"
  BY DEF Steps
<1>2. /\ Noting \in Seq(Steps) /\ Len(Noting) = 2 /\ Noting[1] = "correction" /\ Noting[2] = "commit"
  BY DEF Steps, Noting
<1>3. /\ Recounting \in Seq(Steps) /\ Len(Recounting) = 3 /\ Recounting[1] = "append"
      /\ Recounting[2] = "record" /\ Recounting[3] = "commit" /\ Count = Recounting
  BY DEF Steps, Recounting, Count
<1>4. /\ Verifying \in Seq(Steps) /\ Len(Verifying) = 4 /\ Verifying[1] = "submission"
      /\ Verifying[2] = "append" /\ Verifying[3] = "record" /\ Verifying[4] = "commit"
  BY DEF Steps, Verifying
<1> HIDE DEF one, note
<1>5. one \o Recounting = Verifying
  <2> DEFINE x == one \o Recounting
  <2>1. /\ x \in Seq(Steps) /\ Len(x) = Len(one) + Len(Recounting)
        /\ \A i \in 1..Len(one) + Len(Recounting) :
             x[i] = IF i <= Len(one) THEN one[i] ELSE Recounting[i - Len(one)]
    BY <1>1, <1>3, ConcatProperties
  <2> HIDE DEF x
  <2>2. x \in Seq(Steps) /\ Len(x) = 4 /\ x[1] = "submission" /\ x[2] = "append" /\ x[3] = "record" /\ x[4] = "commit"
    BY <2>1, <1>1, <1>3
  <2>3. x = Verifying
    BY <2>2 DEF Verifying
  <2>4. QED
    BY <2>3 DEF x
<1>6. OverrideSteps = Verifying
  BY <1>3, <1>5 DEF OverrideSteps, one
<1> DEFINE y == note \o Verifying
<1>7. /\ y \in Seq(Steps) /\ Len(y) = 5 /\ y[1] = "correction" /\ y[2] = "submission"
      /\ y[3] = "append" /\ y[4] = "record" /\ y[5] = "commit"
  <2>1. /\ y \in Seq(Steps) /\ Len(y) = Len(note) + Len(Verifying)
        /\ \A i \in 1..Len(note) + Len(Verifying) :
             y[i] = IF i <= Len(note) THEN note[i] ELSE Verifying[i - Len(note)]
    BY <1>1, <1>4, ConcatProperties
  <2> HIDE DEF y
  <2>2. QED
    BY <2>1, <1>1, <1>4
<1> DEFINE z == Noting \o Verifying
<1>8. /\ z \in Seq(Steps) /\ Len(z) = 6 /\ z[1] = "correction" /\ z[2] = "commit"
      /\ z[3] = "submission" /\ z[4] = "append" /\ z[5] = "record" /\ z[6] = "commit"
  <2>1. /\ z \in Seq(Steps) /\ Len(z) = Len(Noting) + Len(Verifying)
        /\ \A i \in 1..Len(Noting) + Len(Verifying) :
             z[i] = IF i <= Len(Noting) THEN Noting[i] ELSE Verifying[i - Len(Noting)]
    BY <1>2, <1>4, ConcatProperties
  <2> HIDE DEF z
  <2>2. QED
    BY <2>1, <1>2, <1>4
<1> HIDE DEF y, z
<1>9. y \o Noting = ApplyNotes
  <2> DEFINE x == y \o Noting
  <2>1. /\ x \in Seq(Steps) /\ Len(x) = Len(y) + Len(Noting)
        /\ \A i \in 1..Len(y) + Len(Noting) : x[i] = IF i <= Len(y) THEN y[i] ELSE Noting[i - Len(y)]
    BY <1>2, <1>7, ConcatProperties
  <2> HIDE DEF x
  <2>2. /\ x \in Seq(Steps) /\ Len(x) = 7 /\ x[1] = "correction" /\ x[2] = "submission" /\ x[3] = "append"
        /\ x[4] = "record" /\ x[5] = "commit" /\ x[6] = "correction" /\ x[7] = "commit"
    BY <2>1, <1>2, <1>7
  <2>3. x = ApplyNotes
    BY <2>2 DEF ApplyNotes
  <2>4. QED
    BY <2>3 DEF x
<1>10. z \o Noting = Applying
  <2> DEFINE x == z \o Noting
  <2>1. /\ x \in Seq(Steps) /\ Len(x) = Len(z) + Len(Noting)
        /\ \A i \in 1..Len(z) + Len(Noting) : x[i] = IF i <= Len(z) THEN z[i] ELSE Noting[i - Len(z)]
    BY <1>2, <1>8, ConcatProperties
  <2> HIDE DEF x
  <2>2. /\ x \in Seq(Steps) /\ Len(x) = 8 /\ x[1] = "correction" /\ x[2] = "commit" /\ x[3] = "submission"
        /\ x[4] = "append" /\ x[5] = "record" /\ x[6] = "commit" /\ x[7] = "correction"
        /\ x[8] = "commit"
    BY <2>1, <1>2, <1>8
  <2>3. x = Applying
    BY <2>2 DEF Applying
  <2>4. QED
    BY <2>3 DEF x
<1>11. QED
  BY <1>3, <1>5, <1>6, <1>9, <1>10 DEF one, note, y, z, Noting

LEMMA ProgramSteps ==
  /\ \A s \in AllPrograms : s \in Seq(Steps) /\ s # <<>>
  /\ \A kind \in Kinds : Programs(kind) \subseteq AllPrograms \cup {<<>>}
  BY ProgramsTyped, ProgramsNotEmpty, ProgramsOf

\* What a handler does first.
Starting == {Issuing, Refusing, Submitting, Asking, Reviewing, Verifying, Recounting, Noting,
             Applying, ApplyNotes}

LEMMA StartingFresh ==
  ASSUME NEW j \in Job, j.todo \in Programs(j.kind), j.todo \in Starting,
         j.wrote = {}, j.event = NoEvent, j.latest = NoEvent, j.faced = FALSE,
         j.seenRecord = NoRecord, j.seenSubmission \in {"none", submission},
         j.kind \notin {"mark", "idle", "autopilot", "recompute"},
         j.putSubmission # "verified", j.putCorrection # "applied",
         j.kind = "audit" => j.putSubmission = "rejected",
         j.kind = "override" => j.todo = Verifying,
         j.todo \in {Refusing, Submitting, Reviewing, Applying, ApplyNotes} \/ j.kind \in {"batch", "override"}
           => j.putSubmission # "none",
         j.todo \in {Verifying, Recounting, Reviewing} /\ j.kind # "override" => j.status \in Attendance
  PROVE  Fresh(j)
<1>1. j.todo \notin LedgerRead \cup Overridden
  <2>1. Issuing \notin LedgerRead \cup Overridden /\ Refusing \notin LedgerRead \cup Overridden
        /\ \A x \in {Submitting, Verifying, Recounting, Asking, Reviewing, Noting, Applying, ApplyNotes} :
             x \notin LedgerRead \cup Overridden
    BY Heads DEF LedgerRead, Overridden
  <2>2. QED
    BY <2>1 DEF Starting
<1>2. /\ j.todo \notin {ReviewAppends, ReviewRecords, ApplyCommits, ApplySubmits, ApplyAppends}
      /\ j.kind = "correct" => j.todo \in {Noting, Applying, ApplyNotes}
  <2>1. j.todo \notin {ReviewAppends, ReviewRecords, ApplyCommits, ApplySubmits, ApplyAppends}
    <3>1. ReviewAppends \notin Starting /\ ApplyAppends \notin Starting
      BY Heads, ProgramsDiffer DEF Starting
    <3>2. ReviewRecords \notin Starting /\ ApplyCommits \notin Starting
      BY Heads DEF Starting
    <3>3. ApplySubmits \notin Starting
      <4>1. ApplySubmits # Submitting /\ ApplySubmits # Verifying
        BY ProgramsDiffer
      <4>2. QED
        BY <4>1, Heads DEF Starting
    <3>4. QED
      BY <3>1, <3>2, <3>3
  <2>2. j.kind = "correct" => j.todo \in {Noting, Applying, ApplyNotes}
    <3>1. ASSUME j.kind = "correct" PROVE j.todo \in Overriding \cup Overridden \cup {Noting, Committing}
      BY <3>1 DEF Programs
    <3>2. Committing \notin Starting
      BY Heads DEF Starting
    <3>3. QED
      BY <3>1, <3>2, <2>1, <1>1 DEF Overriding
  <2>3. QED
    BY <2>1, <2>2
<1>3. j.kind = "override" => j.todo \notin {Recounting, ApplyAppends}
  BY Heads
<1>4. Noting \notin Overriding /\ Noting # Recounting
  BY Heads, ProgramsDiffer DEF Overriding
<1>5. Decides(j)
  <2>1. j.kind = "correct" /\ j.todo \in {Recounting, ApplyAppends} => FALSE
    BY <1>2, Heads
  <2>2. j.kind = "correct" /\ j.todo \in Overriding => j.putSubmission # "none"
    BY <1>2, <1>4
  <2>3. j.kind = "review" /\ j.todo \in {Reviewing, ReviewAppends, ReviewRecords, Refusing, Submitting}
          => j.putSubmission # "none"
    BY <1>2
  <2>4. j.kind \in {"audit", "batch", "override"} => j.putSubmission # "none"
    OBVIOUS
  <2>5. j.kind \in {"audit", "mark"} => j.putSubmission \in {"none", "rejected", "verified"}
    OBVIOUS
  <2>6. j.kind \notin {"override", "correct"} /\ j.todo \in {Verifying, Recounting, Reviewing, ReviewAppends}
          => j.status \in Attendance
    BY <1>2
  <2>7. QED
    BY <2>1, <2>2, <2>3, <2>4, <2>5, <2>6, <1>3 DEF Decides
<1>6. QED
  BY <1>1, <1>5 DEF Fresh

LEMMA StaffBeginKeeps ==
  ASSUME AttendanceInv, NEW w \in Workers, NEW j, Fresh(j), StaffBegins(w, j), j.todo # Issuing
  PROVE  AttendanceInv'
  BY BeginKeeps DEF StaffBegins, Begins

LEMMA ValidateCodeBegins ==
  ASSUME AttendanceInv, NEW w \in Workers, ValidateCode(w)
  PROVE  AttendanceInv'
<1> DEFINE j == [IdleJob EXCEPT !.kind = "validate", !.todo = Issuing]
<1>0. Issuing \in Seq(Steps) /\ Issuing \in Programs("validate") /\ Issuing \in Starting
      /\ Issuing \notin {Refusing, Submitting, Reviewing, Applying, ApplyNotes, Verifying, Recounting}
  BY ProgramSteps, Heads DEF AllPrograms, Programs, Starting
<1>1. /\ j \in Job /\ j.kind = "validate" /\ j.todo = Issuing /\ j.seenSubmission = "none"
      /\ j.putSubmission = "none" /\ j.putCorrection = "none"
      /\ j.wrote = {} /\ j.event = NoEvent /\ j.latest = NoEvent /\ j.faced = FALSE
      /\ j.seenRecord = NoRecord
  <2>1. j \in Job
    BY <1>0, IdleFields, Updated DEF Kinds
  <2>2. QED
    BY <2>1, IdleFields DEF Job
<1>2. job' = [job EXCEPT ![w] = j]
  BY DEF ValidateCode, Issuing
<1>3. /\ starts' = starts + 1 /\ starts < MaxStarts /\ UNCHANGED <<session, tables, clock, ghosts>>
      /\ Cardinality(IssuedTokens) < MaxTokens
  BY DEF ValidateCode, Begins, CountedTokens
<1> HIDE DEF j
<1>4. Fresh(j)
  BY <1>0, <1>1, StartingFresh
<1>5. QED
  BY <1>2, <1>3, <1>4, BeginKeeps

LEMMA RejectAtGateBegins ==
  ASSUME AttendanceInv, NEW w \in Workers, RejectAtGate(w)
  PROVE  AttendanceInv'
<1> DEFINE p == IF submission = "none" THEN Refusing ELSE Submitting
           j == [IdleJob EXCEPT !.kind = "audit", !.putSubmission = "rejected",
                                !.seenSubmission = submission, !.todo = p]
<1>0. p \in Seq(Steps) /\ p \in Programs("audit") /\ p \in Starting /\ p # Issuing
      /\ p \notin {Verifying, Recounting, Reviewing}
  <2>1. /\ {Refusing, Submitting} \subseteq Seq(Steps) /\ {Refusing, Submitting} \subseteq Starting
        /\ {Refusing, Submitting} \subseteq Programs("audit")
    BY ProgramSteps DEF AllPrograms, Programs, Starting
  <2>2. /\ Refusing \notin {Issuing, Verifying, Recounting, Reviewing}
        /\ Submitting \notin {Issuing, Verifying, Recounting, Reviewing}
    BY Heads, ProgramsDiffer
  <2>3. QED
    BY <2>1, <2>2
<1>1. job' = [job EXCEPT ![w] = j]
  BY DEF RejectAtGate, Refusing, Submitting
<1>2. /\ starts' = starts + 1 /\ starts < MaxStarts /\ UNCHANGED <<session, tables, clock, ghosts>>
  BY DEF RejectAtGate, Begins
<1> HIDE DEF p
<1>3. /\ j \in Job /\ j.kind = "audit" /\ j.todo = p /\ j.seenSubmission = submission
      /\ j.putSubmission = "rejected" /\ j.putCorrection = "none"
      /\ j.wrote = {} /\ j.event = NoEvent /\ j.latest = NoEvent /\ j.faced = FALSE
      /\ j.seenRecord = NoRecord
  <2>1. submission \in SubmissionStatuses \cup {"none"} /\ "rejected" \in SubmissionStatuses
    BY DEF AttendanceInv, TablesTyped, SubmissionStatuses
  <2>2. j \in Job
    BY <2>1, <1>0, IdleFields, Updated DEF Kinds
  <2>3. QED
    BY <2>2, IdleFields DEF Job
<1> HIDE DEF j
<1>4. Fresh(j)
  BY <1>0, <1>3, StartingFresh
<1>5. QED
  BY <1>0, <1>1, <1>2, <1>3, <1>4, BeginKeeps

LEMMA MarkAttendanceBegins ==
  ASSUME AttendanceInv, NEW w \in Workers, MarkAttendance(w)
  PROVE  AttendanceInv'
<1>1. PICK t \in Tokens : Usable(t) /\ job' = [job EXCEPT ![w] =
        [IdleJob EXCEPT !.kind = "mark", !.token = t, !.seenAttempts = token[t].attempts,
                        !.seenSubmission = submission, !.todo = Counting]]
  BY DEF MarkAttendance, Counting
<1> DEFINE j == [IdleJob EXCEPT !.kind = "mark", !.token = t, !.seenAttempts = token[t].attempts,
                                !.seenSubmission = submission, !.todo = Counting]
<1>2. token[t] \in Token /\ token[t].attempts < MaxAttempts /\ token[t].attempts \in 0..MaxAttempts
  BY <1>1 DEF Usable, AttendanceInv, TablesTyped, Token
<1>3. /\ starts' = starts + 1 /\ starts < MaxStarts /\ UNCHANGED <<session, tables, clock, ghosts>>
  BY DEF MarkAttendance, Begins
<1>4. Counting \in Seq(Steps) /\ Counting \in Programs("mark")
      /\ Counting \notin LedgerRead \cup Overridden \cup {Issuing, Recounting, Verifying, Reviewing,
                                                          ReviewAppends, ApplyAppends}
  BY ProgramSteps, Heads DEF AllPrograms, Programs, LedgerRead, Overridden
<1>5. /\ j \in Job /\ j.kind = "mark" /\ j.todo = Counting /\ j.seenSubmission = submission
      /\ j.putSubmission = "none" /\ j.putCorrection = "none"
      /\ j.token = t /\ j.seenAttempts = token[t].attempts
      /\ j.wrote = {} /\ j.event = NoEvent /\ j.latest = NoEvent /\ j.faced = FALSE
      /\ j.seenRecord = NoRecord
  <2>1. submission \in SubmissionStatuses \cup {"none"}
    BY DEF AttendanceInv, TablesTyped
  <2>2. j \in Job
    BY <2>1, <1>2, <1>4, IdleFields, Updated DEF Kinds
  <2>3. QED
    BY <2>2, IdleFields DEF Job
<1>6. job' = [job EXCEPT ![w] = j]
  BY <1>1
<1> HIDE DEF j
<1>7. Decides(j)
  BY <1>4, <1>5 DEF Decides, Staff
<1>8. Fresh(j)
  BY <1>2, <1>4, <1>5, <1>7 DEF Fresh
<1>9. QED
  BY <1>3, <1>4, <1>5, <1>6, <1>8, BeginKeeps


LEMMA AskingApart ==
  Asking \notin {Issuing, Refusing, Submitting, Reviewing, Applying, ApplyNotes, Verifying, Recounting}
<1>1. Asking # Reviewing
  BY ProgramsDiffer
<1>2. QED
  BY <1>1, Heads

LEMMA SubmittingApart == Submitting \notin {Issuing, Verifying, Recounting, Reviewing}
<1>1. Submitting # Verifying
  BY ProgramsDiffer
<1>2. QED
  BY <1>1, Heads

LEMMA RequestRectificationBegins ==
  ASSUME AttendanceInv, NEW w \in Workers, RequestRectification(w)
  PROVE  AttendanceInv'
<1> DEFINE j == [IdleJob EXCEPT !.kind = "request", !.seenRequest = request,
                                !.putRequest = "pending", !.todo = Asking]
<1>0. Asking \in Seq(Steps) /\ Asking \in Programs("request") /\ Asking \in Starting
      /\ Asking \notin {Issuing, Refusing, Submitting, Reviewing, Applying, ApplyNotes, Verifying, Recounting}
  BY ProgramSteps, AskingApart DEF AllPrograms, Programs, Starting
<1>1. request \in RequestStatuses /\ "pending" \in RequestStatuses
  BY DEF AttendanceInv, TablesTyped, RequestStatuses
<1>2. j \in Job
  BY <1>0, <1>1, IdleFields, Updated DEF Kinds
<1>3. /\ j.kind = "request" /\ j.todo = Asking /\ j.seenSubmission = "none"
      /\ j.putSubmission = "none" /\ j.putCorrection = "none"
      /\ j.wrote = {} /\ j.event = NoEvent /\ j.latest = NoEvent /\ j.faced = FALSE
      /\ j.seenRecord = NoRecord
  BY <1>2, IdleFields DEF Job
<1>4. StaffBegins(w, j)
  BY DEF RequestRectification, Asking
<1> HIDE DEF j
<1>5. Fresh(j)
  BY <1>0, <1>2, <1>3, StartingFresh
<1>6. QED
  BY <1>0, <1>3, <1>4, <1>5, StaffBeginKeeps

LEMMA ApproveRectificationBegins ==
  ASSUME AttendanceInv, NEW w \in Workers, ApproveRectification(w)
  PROVE  AttendanceInv'
<1> DEFINE j == [IdleJob EXCEPT !.kind = "review", !.seenRequest = request,
                                !.putRequest = "approved", !.status = "present",
                                !.putSubmission = "approved", !.todo = Reviewing]
<1>0. Reviewing \in Seq(Steps) /\ Reviewing \in Programs("review") /\ Reviewing \in Starting
      /\ Reviewing # Issuing
  BY ProgramSteps, Heads DEF AllPrograms, Programs, Starting
<1>1. /\ request \in RequestStatuses /\ "approved" \in RequestStatuses
      /\ "approved" \in SubmissionStatuses /\ "present" \in Attendance
  BY DEF AttendanceInv, TablesTyped, RequestStatuses, SubmissionStatuses, Attendance
<1>2. j \in Job
  BY <1>0, <1>1, IdleFields, Updated DEF Kinds
<1>3. /\ j.kind = "review" /\ j.todo = Reviewing /\ j.seenSubmission = "none"
      /\ j.putSubmission = "approved" /\ j.putCorrection = "none" /\ j.status = "present"
      /\ j.wrote = {} /\ j.event = NoEvent /\ j.latest = NoEvent /\ j.faced = FALSE
      /\ j.seenRecord = NoRecord
  BY <1>2, IdleFields DEF Job
<1>4. StaffBegins(w, j)
  BY DEF ApproveRectification, Reviewing
<1> HIDE DEF j
<1>5. Fresh(j)
  BY <1>0, <1>1, <1>2, <1>3, StartingFresh
<1>6. QED
  BY <1>0, <1>3, <1>4, <1>5, StaffBeginKeeps

LEMMA RejectRectificationBegins ==
  ASSUME AttendanceInv, NEW w \in Workers, RejectRectification(w)
  PROVE  AttendanceInv'
<1> DEFINE j == [IdleJob EXCEPT !.kind = "review", !.seenRequest = request,
                                !.putRequest = "rejected", !.todo = Asking]
<1>0. Asking \in Seq(Steps) /\ Asking \in Programs("review") /\ Asking \in Starting
      /\ Asking \notin {Issuing, Refusing, Submitting, Reviewing, Applying, ApplyNotes, Verifying, Recounting}
  BY ProgramSteps, AskingApart DEF AllPrograms, Programs, Starting
<1>1. request \in RequestStatuses /\ "rejected" \in RequestStatuses
  BY DEF AttendanceInv, TablesTyped, RequestStatuses
<1>2. j \in Job
  BY <1>0, <1>1, IdleFields, Updated DEF Kinds
<1>3. /\ j.kind = "review" /\ j.todo = Asking /\ j.seenSubmission = "none"
      /\ j.putSubmission = "none" /\ j.putCorrection = "none"
      /\ j.wrote = {} /\ j.event = NoEvent /\ j.latest = NoEvent /\ j.faced = FALSE
      /\ j.seenRecord = NoRecord
  BY <1>2, IdleFields DEF Job
<1>4. StaffBegins(w, j)
  BY DEF RejectRectification, Asking
<1> HIDE DEF j
<1>5. Fresh(j)
  BY <1>0, <1>2, <1>3, StartingFresh
<1>6. QED
  BY <1>0, <1>3, <1>4, <1>5, StaffBeginKeeps

LEMMA ReviewSubmissionBegins ==
  ASSUME AttendanceInv, NEW w \in Workers, ReviewSubmission(w)
  PROVE  AttendanceInv'
<1> DEFINE j == [IdleJob EXCEPT !.kind = "batch", !.seenSubmission = submission,
                                !.putSubmission = "approved", !.status = "present",
                                !.todo = Verifying]
           k == [IdleJob EXCEPT !.kind = "batch", !.seenSubmission = submission,
                                !.putSubmission = "rejected", !.todo = Submitting]
<1>0. /\ {Verifying, Submitting} \subseteq Seq(Steps) /\ {Verifying, Submitting} \subseteq Starting
      /\ {Verifying, Submitting} \subseteq Programs("batch")
      /\ Verifying # Issuing /\ Submitting \notin {Issuing, Verifying, Recounting, Reviewing}
  <2>1. Verifying # Issuing
    BY Heads
  <2>2. QED
    BY <2>1, ProgramSteps, SubmittingApart DEF AllPrograms, Programs, Starting
<1>1. /\ submission \in SubmissionStatuses \cup {"none"}
      /\ {"approved", "rejected"} \subseteq SubmissionStatuses /\ "present" \in Attendance
  BY DEF AttendanceInv, TablesTyped, SubmissionStatuses, Attendance
<1>2. j \in Job /\ k \in Job
  BY <1>0, <1>1, IdleFields, Updated DEF Kinds
<1>3. /\ j.kind = "batch" /\ j.todo = Verifying /\ j.seenSubmission = submission
      /\ j.putSubmission = "approved" /\ j.putCorrection = "none" /\ j.status = "present"
      /\ j.wrote = {} /\ j.event = NoEvent /\ j.latest = NoEvent /\ j.faced = FALSE
      /\ j.seenRecord = NoRecord
  BY <1>2, IdleFields DEF Job
<1>4. /\ k.kind = "batch" /\ k.todo = Submitting /\ k.seenSubmission = submission
      /\ k.putSubmission = "rejected" /\ k.putCorrection = "none"
      /\ k.wrote = {} /\ k.event = NoEvent /\ k.latest = NoEvent /\ k.faced = FALSE
      /\ k.seenRecord = NoRecord
  BY <1>2, IdleFields DEF Job
<1>5. StaffBegins(w, j) \/ StaffBegins(w, k)
  BY Concatenations DEF ReviewSubmission, Submitting
<1> HIDE DEF j, k
<1>6. Fresh(j)
  BY <1>0, <1>1, <1>2, <1>3, StartingFresh
<1>7. Fresh(k)
  BY <1>0, <1>2, <1>4, StartingFresh
<1>8. QED
  BY <1>0, <1>3, <1>4, <1>5, <1>6, <1>7, StaffBeginKeeps

LEMMA MarkBulkBegins ==
  ASSUME AttendanceInv, NEW w \in Workers, MarkBulk(w)
  PROVE  AttendanceInv'
<1>1. PICK status \in Attendance :
        StaffBegins(w, [IdleJob EXCEPT !.kind = "bulk", !.status = status, !.todo = Recounting])
  BY Concatenations DEF MarkBulk
<1> DEFINE j == [IdleJob EXCEPT !.kind = "bulk", !.status = status, !.todo = Recounting]
<1>0. Recounting \in Seq(Steps) /\ Recounting \in Programs("bulk") /\ Recounting \in Starting
      /\ Recounting \notin {Issuing, Refusing, Submitting, Reviewing, Applying, ApplyNotes}
  BY ProgramSteps, Heads DEF AllPrograms, Programs, Starting
<1>2. j \in Job
  BY <1>0, IdleFields, Updated DEF Kinds
<1>3. /\ j.kind = "bulk" /\ j.todo = Recounting /\ j.seenSubmission = "none" /\ j.status = status
      /\ j.putSubmission = "none" /\ j.putCorrection = "none"
      /\ j.wrote = {} /\ j.event = NoEvent /\ j.latest = NoEvent /\ j.faced = FALSE
      /\ j.seenRecord = NoRecord
  BY <1>2, IdleFields DEF Job
<1>4. StaffBegins(w, j)
  BY <1>1
<1> HIDE DEF j
<1>5. Fresh(j)
  BY <1>0, <1>2, <1>3, StartingFresh
<1>6. QED
  BY <1>0, <1>3, <1>4, <1>5, StaffBeginKeeps

LEMMA OverrideAttendanceBegins ==
  ASSUME AttendanceInv, NEW w \in Workers, OverrideAttendance(w)
  PROVE  AttendanceInv'
<1>1. PICK status \in Attendance :
        StaffBegins(w, [IdleJob EXCEPT !.kind = "override", !.seenSubmission = submission,
                          !.putSubmission = Override(status), !.todo = Verifying])
  BY Concatenations DEF OverrideAttendance
<1> DEFINE j == [IdleJob EXCEPT !.kind = "override", !.seenSubmission = submission,
                                !.putSubmission = Override(status), !.todo = Verifying]
<1>0. Verifying \in Seq(Steps) /\ Verifying \in Programs("override") /\ Verifying \in Starting
      /\ Verifying # Issuing
  BY ProgramSteps, Heads DEF AllPrograms, Programs, Starting
<1>11. /\ submission \in SubmissionStatuses \cup {"none"}
       /\ Override(status) \in SubmissionStatuses /\ Override(status) \in {"approved", "rejected"}
  BY DEF AttendanceInv, TablesTyped, SubmissionStatuses, Override
<1>2. j \in Job
  BY <1>0, <1>11, IdleFields, Updated DEF Kinds
<1>3. /\ j.kind = "override" /\ j.todo = Verifying /\ j.seenSubmission = submission
      /\ j.putSubmission = Override(status) /\ j.putCorrection = "none"
      /\ j.wrote = {} /\ j.event = NoEvent /\ j.latest = NoEvent /\ j.faced = FALSE
      /\ j.seenRecord = NoRecord
  BY <1>2, IdleFields DEF Job
<1>4. StaffBegins(w, j)
  BY <1>1
<1> HIDE DEF j
<1>5. Fresh(j)
  BY <1>0, <1>11, <1>2, <1>3, StartingFresh
<1>6. QED
  BY <1>0, <1>3, <1>4, <1>5, StaffBeginKeeps

LEMMA NotingApart ==
  Noting \notin {Issuing, Refusing, Submitting, Reviewing, Applying, ApplyNotes, Verifying, Recounting}
<1>1. Noting # Applying /\ Noting # ApplyNotes
  BY ProgramsDiffer
<1>2. QED
  BY <1>1, Heads

\* A correction that asks, decides nothing or is refused.
LEMMA NoteBegins ==
  ASSUME AttendanceInv, NEW w \in Workers, NEW put \in {"pending", "rejected"},
         StaffBegins(w, [IdleJob EXCEPT !.kind = "correct", !.putCorrection = put, !.todo = Noting])
  PROVE  AttendanceInv'
<1> DEFINE j == [IdleJob EXCEPT !.kind = "correct", !.putCorrection = put, !.todo = Noting]
<1>0. Noting \in Seq(Steps) /\ Noting \in Programs("correct") /\ Noting \in Starting
      /\ Noting \notin {Issuing, Refusing, Submitting, Reviewing, Applying, ApplyNotes, Verifying, Recounting}
  BY ProgramSteps, NotingApart DEF AllPrograms, Programs, Starting
<1>2. j \in Job
  BY <1>0, IdleFields, Updated DEF Kinds, CorrectionStatuses
<1>3. /\ j.kind = "correct" /\ j.todo = Noting /\ j.seenSubmission = "none"
      /\ j.putSubmission = "none" /\ j.putCorrection = put
      /\ j.wrote = {} /\ j.event = NoEvent /\ j.latest = NoEvent /\ j.faced = FALSE
      /\ j.seenRecord = NoRecord
  BY <1>2, IdleFields DEF Job
<1>4. StaffBegins(w, j)
  OBVIOUS
<1> HIDE DEF j
<1>5. Fresh(j)
  BY <1>0, <1>2, <1>3, StartingFresh
<1>6. QED
  BY <1>0, <1>3, <1>4, <1>5, StaffBeginKeeps

LEMMA CreateCorrectionBegins ==
  ASSUME AttendanceInv, NEW w \in Workers, CreateCorrection(w)
  PROVE  AttendanceInv'
<1>1. CASE StaffBegins(w, [IdleJob EXCEPT !.kind = "correct", !.putCorrection = "pending",
                             !.todo = Noting])
  BY <1>1, NoteBegins
<1>2. CASE \E status \in Attendance :
             StaffBegins(w, [IdleJob EXCEPT !.kind = "correct", !.putCorrection = "approved",
                               !.putSubmission = Override(status), !.todo = Applying])
  <2>1. PICK status \in Attendance :
          StaffBegins(w, [IdleJob EXCEPT !.kind = "correct", !.putCorrection = "approved",
                            !.putSubmission = Override(status), !.todo = Applying])
    BY <1>2
  <2> DEFINE j == [IdleJob EXCEPT !.kind = "correct", !.putCorrection = "approved",
                                  !.putSubmission = Override(status), !.todo = Applying]
  <2>2. /\ Applying \in Seq(Steps) /\ Applying \in Programs("correct") /\ Applying \in Starting
        /\ Applying \notin {Issuing, Verifying, Recounting, Reviewing}
    BY ProgramSteps, Heads DEF AllPrograms, Programs, Overriding, Starting
  <2>3. Override(status) \in SubmissionStatuses /\ Override(status) \in {"approved", "rejected"}
    BY DEF SubmissionStatuses, Override
  <2>4. j \in Job
    BY <2>2, <2>3, IdleFields, Updated DEF Kinds, CorrectionStatuses
  <2>5. /\ j.kind = "correct" /\ j.todo = Applying /\ j.seenSubmission = "none"
        /\ j.putSubmission = Override(status) /\ j.putCorrection = "approved"
        /\ j.wrote = {} /\ j.event = NoEvent /\ j.latest = NoEvent /\ j.faced = FALSE
        /\ j.seenRecord = NoRecord
    BY <2>4, IdleFields DEF Job
  <2>6. StaffBegins(w, j)
    BY <2>1
  <2> HIDE DEF j
  <2>7. Fresh(j)
    BY <2>2, <2>3, <2>4, <2>5, StartingFresh
  <2>8. QED
    BY <2>2, <2>5, <2>6, <2>7, StaffBeginKeeps
<1>3. QED
  BY <1>1, <1>2, Concatenations DEF CreateCorrection, Noting

LEMMA ReviewCorrectionBegins ==
  ASSUME AttendanceInv, NEW w \in Workers, ReviewCorrection(w)
  PROVE  AttendanceInv'
<1> DEFINE j == [IdleJob EXCEPT !.kind = "correct", !.seenSubmission = submission,
                                !.putSubmission = "approved", !.todo = ApplyNotes]
<1>1. \/ StaffBegins(w, [IdleJob EXCEPT !.kind = "correct", !.putCorrection = "rejected",
                           !.todo = Noting])
      \/ StaffBegins(w, j)
  BY Concatenations DEF ReviewCorrection, Noting
<1>2. CASE StaffBegins(w, [IdleJob EXCEPT !.kind = "correct", !.putCorrection = "rejected",
                             !.todo = Noting])
  BY <1>2, NoteBegins
<1>3. CASE StaffBegins(w, j)
  <2>1. /\ ApplyNotes \in Seq(Steps) /\ ApplyNotes \in Programs("correct") /\ ApplyNotes \in Starting
        /\ ApplyNotes \notin {Issuing, Verifying, Recounting, Reviewing}
    BY ProgramSteps, Heads DEF AllPrograms, Programs, Overriding, Starting
  <2>2. submission \in SubmissionStatuses \cup {"none"} /\ "approved" \in SubmissionStatuses
    BY DEF AttendanceInv, TablesTyped, SubmissionStatuses
  <2>3. j \in Job
    BY <2>1, <2>2, IdleFields, Updated DEF Kinds
  <2>4. /\ j.kind = "correct" /\ j.todo = ApplyNotes /\ j.seenSubmission = submission
        /\ j.putSubmission = "approved" /\ j.putCorrection = "none"
        /\ j.wrote = {} /\ j.event = NoEvent /\ j.latest = NoEvent /\ j.faced = FALSE
        /\ j.seenRecord = NoRecord
    BY <2>3, IdleFields DEF Job
  <2> HIDE DEF j
  <2>5. Fresh(j)
    BY <2>1, <2>3, <2>4, StartingFresh
  <2>6. QED
    BY <2>1, <2>4, <2>5, <1>3, StaffBeginKeeps
<1>4. QED
  BY <1>1, <1>2, <1>3

\* The events of a day have a latest one, and LatestEvent is it.
LEMMA LatestIs ==
  ASSUME NEW day, NEW e, IsLatest(e, day)
  PROVE  IsLatest(LatestEvent(day), day)
  BY DEF IsLatest, LatestEvent

LEMMA RecomputeRecordBegins ==
  ASSUME AttendanceInv, NEW w \in Workers, RecomputeRecord(w)
  PROVE  AttendanceInv'
<1> DEFINE latest == LatestEvent(events)
           j == [IdleJob EXCEPT !.kind = "recompute", !.todo = Recording, !.latest = latest,
                                !.seenRecord = record, !.stale = FALSE]
<1>1. StaffBegins(w, j)
  BY DEF RecomputeRecord, ReadsLedger, Recording
<1>2. IsLatest(latest, events) /\ latest \in Event
  <2>1. IsLatest(latest, events)
    BY LatestIs DEF AttendanceInv, HasLatest, RecomputeRecord
  <2>2. QED
    BY <2>1 DEF IsLatest, AttendanceInv, TablesTyped
<1> HIDE DEF latest
<1>3. /\ Recording \in Seq(Steps) /\ Recording \in Programs("recompute")
      /\ Recording \notin Overridden \cup {Issuing, Recounting, ApplyAppends, Noting, Verifying, Reviewing,
                                           ReviewAppends}
  <2>1. Recording # ApplyRecords
    BY ProgramsDiffer
  <2>2. QED
    BY <2>1, ProgramSteps, Heads DEF AllPrograms, Programs, Overridden
<1>4. record \in Record \cup {NoRecord}
  BY DEF AttendanceInv, TablesTyped
<1>5. j \in Job
  BY <1>2, <1>3, <1>4, IdleFields, Updated DEF Kinds
<1>6. /\ j.kind = "recompute" /\ j.todo = Recording /\ j.seenSubmission = "none"
      /\ j.putSubmission = "none" /\ j.putCorrection = "none" /\ j.wrote = {} /\ j.event = NoEvent
      /\ j.latest = latest /\ j.faced = FALSE /\ j.seenRecord = record
  BY <1>5, IdleFields DEF Job
<1> HIDE DEF j
<1>7. Decides(j)
  BY <1>3, <1>6 DEF Decides, Staff
<1>8. Fresh(j)
  BY <1>2, <1>3, <1>5, <1>6, <1>7 DEF Fresh
<1>9. QED
  BY <1>1, <1>3, <1>6, <1>8, StaffBeginKeeps
(***************************************************************************)
(* The steps of a transaction before its commit                            *)
(***************************************************************************)

LEMMA JobTyped ==
  ASSUME AttendanceInv, NEW w \in Workers
  PROVE  /\ job[w] \in Job /\ job[w].kind \in Kinds /\ job[w].todo \in Programs(job[w].kind)
         /\ job[w].todo \in AllPrograms \cup {<<>>} /\ job[w].todo \in Seq(Steps)
         /\ Routine(job[w]) /\ Fitting(job[w])
<1>1. /\ job[w] \in Job /\ Routine(job[w]) /\ Fitting(job[w])
  BY DEF AttendanceInv
<1>2. job[w].kind \in Kinds /\ job[w].todo \in Seq(Steps)
  BY <1>1 DEF Job
<1>3. QED
  BY <1>1, <1>2, ProgramSteps DEF Routine

\* Where a transaction is, from the step it is at.
LEMMA AtIssue ==
  ASSUME AttendanceInv, NEW w \in Workers, At(w, "issue")
  PROVE  job[w].todo = Issuing /\ job[w].kind = "validate"
  BY JobTyped, Heads DEF At, Kinds, Programs, Overriding, Overridden

LEMMA AtCount ==
  ASSUME AttendanceInv, NEW w \in Workers, At(w, "count")
  PROVE  job[w].todo = Counting /\ job[w].kind = "mark"
  BY JobTyped, Heads DEF At, Kinds, Programs, Overriding, Overridden

LEMMA AtFace ==
  ASSUME AttendanceInv, NEW w \in Workers, At(w, "face")
  PROVE  job[w].todo = Facing /\ job[w].kind = "mark"
  BY JobTyped, Heads DEF At, Kinds, Programs, Overriding, Overridden

LEMMA AtRead ==
  ASSUME AttendanceInv, NEW w \in Workers, At(w, "read")
  PROVE  job[w].todo = Refusing /\ job[w].kind \in {"audit", "mark", "review"}
  BY JobTyped, Heads DEF At, Kinds, Programs, Overriding, Overridden

LEMMA AtSubmission ==
  ASSUME AttendanceInv, NEW w \in Workers, At(w, "submission")
  PROVE  \/ job[w].todo = Submitting /\ job[w].kind \in {"audit", "mark", "review", "batch"}
         \/ job[w].todo = Verifying /\ job[w].kind \in {"mark", "batch", "override"}
         \/ job[w].todo = ApplySubmits /\ job[w].kind = "correct"
  BY JobTyped, Heads DEF At, Kinds, Programs, Overriding, Overridden

LEMMA AtAppend ==
  ASSUME AttendanceInv, NEW w \in Workers, At(w, "append")
  PROVE  \/ job[w].todo = Recounting /\ job[w].kind \in {"mark", "batch", "bulk", "override"}
         \/ job[w].todo = ReviewAppends /\ job[w].kind = "review"
         \/ job[w].todo = ApplyAppends /\ job[w].kind = "correct"
  BY JobTyped, Heads DEF At, Kinds, Programs, Overriding, Overridden

LEMMA AtRecord ==
  ASSUME AttendanceInv, NEW w \in Workers, At(w, "record")
  PROVE  \/ job[w].todo = Recording /\ job[w].kind \in {"mark", "batch", "bulk", "override", "recompute"}
         \/ job[w].todo = ReviewRecords /\ job[w].kind = "review"
         \/ job[w].todo = ApplyRecords /\ job[w].kind = "correct"
  BY JobTyped, Heads DEF At, Kinds, Programs, Overriding, Overridden

LEMMA AtRequest ==
  ASSUME AttendanceInv, NEW w \in Workers, At(w, "request")
  PROVE  \/ job[w].todo = Asking /\ job[w].kind \in {"request", "review"}
         \/ job[w].todo = Reviewing /\ job[w].kind = "review"
  BY JobTyped, Heads DEF At, Kinds, Programs, Overriding, Overridden

LEMMA AtCorrection ==
  ASSUME AttendanceInv, NEW w \in Workers, At(w, "correction")
  PROVE  job[w].todo \in {Noting, Applying, ApplyNotes} /\ job[w].kind = "correct"
  BY JobTyped, Heads DEF At, Kinds, Programs, Overriding, Overridden

LEMMA AtCommit ==
  ASSUME AttendanceInv, NEW w \in Workers, At(w, "commit")
  PROVE  \/ job[w].todo = Committing
         \/ job[w].todo \in {ApplyCommits, ApplyEnds} /\ job[w].kind = "correct"
  BY JobTyped, Heads DEF At, Kinds, Programs, Overriding, Overridden

\* The fields a step leaves as they were.
SameReading(j, k) ==
  /\ j.kind = k.kind /\ j.token = k.token /\ j.seenAttempts = k.seenAttempts /\ j.faced = k.faced
  /\ j.putSubmission = k.putSubmission /\ j.putCorrection = k.putCorrection
  /\ j.status = k.status /\ j.event = k.event /\ j.latest = k.latest
  /\ j.seenRecord = k.seenRecord /\ j.stale = k.stale

LEMMA TailTyped ==
  ASSUME NEW todo \in AllPrograms
  PROVE  Tail(todo) \in Seq(Steps)
  BY Steppings, ProgramsTyped, ZenonT(60) DEF AllPrograms

\* A row is written: the transaction goes on, and holds the row.
LEMMA WritesRow ==
  ASSUME AttendanceInv, NEW w \in Workers, NEW row \in Rows, Writes(w, row, job[w]),
         job[w].todo \in AllPrograms
  PROVE  \E j \in Job :
           /\ job' = [job EXCEPT ![w] = j]
           /\ j.todo = Tail(job[w].todo) /\ j.wrote = job[w].wrote \cup {row}
           /\ j.seenSubmission = job[w].seenSubmission
           /\ SameReading(j, job[w])
<1> DEFINE k == job[w]
           p == Tail(k.todo)
           r == k.wrote \cup {row}
           j == [k EXCEPT !.wrote = r, !.todo = p]
<1>1. k \in Job /\ p \in Seq(Steps) /\ r \in SUBSET Rows
  BY JobTyped, TailTyped DEF Job
<1>2. job' = [job EXCEPT ![w] = j]
  BY DEF Writes, Goes
<1> HIDE DEF p, r, k
<1>3. j \in Job
  BY <1>1, Updated
<1>4. j.todo = p /\ j.wrote = r /\ j.seenSubmission = k.seenSubmission /\ SameReading(j, k)
  BY <1>1 DEF Job, SameReading
<1> HIDE DEF j
<1>5. QED
  BY <1>2, <1>3, <1>4 DEF p, r, k

\* A step that appends nothing, and leaves what is to be shown about the new transaction.
LEMMA StepKeeps ==
  ASSUME AttendanceInv, NEW w \in Workers, NEW j,
         job' = [job EXCEPT ![w] = j], UNCHANGED <<session, tables, clock, starts, ghosts>>,
         Routine(j), Fitting(j), j.event = job[w].event,
         "submission" \in j.wrote => "submission" \in job[w].wrote
                                       \/ \A v \in Workers \ {w} : "submission" \notin job[v].wrote,
         j.todo # Issuing, j.todo \in Appending => job[w].todo \in Appending
  PROVE  AttendanceInv'
<1>1. j.event.at <= clock'
  BY DEF AttendanceInv, Clocked
<1>2. QuietStep(w, j)
  BY <1>1 DEF QuietStep, tables, ghosts
<1>3. QED
  BY <1>2, QuietKeeps

LEMMA CountAttemptStep ==
  ASSUME AttendanceInv, NEW w \in Workers, CountAttempt(w)
  PROVE  AttendanceInv'
<1>1. job[w].todo = Counting /\ job[w].kind = "mark" /\ Counting \in AllPrograms /\ Tail(Counting) = Facing
  BY AtCount, Steppings DEF CountAttempt, AllPrograms
<1>2. PICK j \in Job : /\ job' = [job EXCEPT ![w] = j]
                       /\ j.todo = Facing /\ j.wrote = job[w].wrote \cup {"token"}
                       /\ j.seenSubmission = job[w].seenSubmission /\ SameReading(j, job[w])
  <2>1. "token" \in Rows /\ Writes(w, "token", job[w])
    BY DEF Rows, CountAttempt
  <2>2. QED
    BY <1>1, <2>1, WritesRow
<1>3. /\ Facing \notin LedgerRead \cup Overridden
      /\ Facing \notin {Counting, Issuing, Noting, Committing, Verifying, Recounting, Reviewing,
                        ReviewAppends, ApplyAppends}
      /\ Counting \notin LedgerRead \cup Overridden /\ Counting \notin {Verifying, Recounting, Facing}
  BY Heads DEF LedgerRead, Overridden
<1>4. Counting \in Appending /\ Facing \in Programs("mark")
  BY DEF Appending, Programs
<1>5. Routine(job[w]) /\ Fitting(job[w])
  BY JobTyped
<1>6. ReadsFirst(j) /\ CountsFirst(j) /\ Presents(j)
  BY <1>1, <1>2, <1>3, <1>5 DEF Routine, ReadsFirst, CountsFirst, Presents, SameReading
<1>7. Decides(j)
  BY <1>1, <1>2, <1>3, <1>5 DEF Routine, Decides, SameReading
<1>8. Corrects(j)
  BY <1>1, <1>2, <1>3, <1>5 DEF Routine, Corrects, SameReading
<1>9. Fitting(j)
  BY <1>1, <1>2, <1>3, <1>5 DEF Fitting, SameReading
<1>10. Routine(j)
  BY <1>1, <1>2, <1>4, <1>6, <1>7, <1>8 DEF Routine, SameReading
<1>11. QED
  BY <1>1, <1>2, <1>3, <1>4, <1>9, <1>10, StepKeeps DEF CountAttempt, SameReading

LEMMA WriteRequestStep ==
  ASSUME AttendanceInv, NEW w \in Workers, WriteRequest(w)
  PROVE  AttendanceInv'
<1>1. /\ \/ job[w].todo = Asking /\ job[w].kind \in {"request", "review"}
         \/ job[w].todo = Reviewing /\ job[w].kind = "review"
      /\ Tail(Asking) = Committing /\ Tail(Reviewing) = ReviewAppends
      /\ {Asking, Reviewing} \subseteq AllPrograms
  BY AtRequest, Steppings DEF WriteRequest, AllPrograms
<1>2. PICK j \in Job : /\ job' = [job EXCEPT ![w] = j]
                       /\ j.todo = Tail(job[w].todo) /\ j.wrote = job[w].wrote \cup {"request"}
                       /\ j.seenSubmission = job[w].seenSubmission /\ SameReading(j, job[w])
  <2>1. "request" \in Rows /\ Writes(w, "request", job[w])
    BY DEF Rows, WriteRequest
  <2>2. QED
    BY <1>1, <2>1, WritesRow
<1>3. /\ \A x \in {Asking, Reviewing, Committing, ReviewAppends} : x \notin LedgerRead \cup Overridden
      /\ Committing \notin {Issuing, Verifying, Recounting, Reviewing, ReviewAppends, ReviewRecords,
                            Refusing, Submitting, ApplyAppends}
      /\ ReviewAppends \notin {Issuing, Noting, Committing}
      /\ Asking # Reviewing
  <2>1. Committing # ApplyEnds /\ Asking # Reviewing
    BY ProgramsDiffer
  <2>2. QED
    BY <2>1, Heads DEF LedgerRead, Overridden
<1>4. /\ Committing \in Programs("request") /\ Committing \in Programs("review")
      /\ ReviewAppends \in Programs("review")
      /\ Reviewing \in Appending /\ Committing \notin Appending
  <2>1. Committing # ApplyCommits
    BY ProgramsDiffer
  <2>2. QED
    BY <2>1, Heads DEF Programs, Appending
<1>5. Routine(job[w]) /\ Fitting(job[w])
  BY JobTyped
<1>6. ReadsFirst(j) /\ CountsFirst(j) /\ Presents(j)
  BY <1>1, <1>2, <1>3, <1>5 DEF Routine, ReadsFirst, CountsFirst, Presents, SameReading
<1>7. Decides(j)
  BY <1>1, <1>2, <1>3, <1>5 DEF Routine, Decides, SameReading
<1>8. Corrects(j)
  BY <1>1, <1>2, <1>3, <1>5 DEF Routine, Corrects, SameReading
<1>9. Fitting(j)
  BY <1>1, <1>2, <1>3, <1>5 DEF Fitting, Routine, Corrects, SameReading
<1>10. Routine(j)
  BY <1>1, <1>2, <1>4, <1>6, <1>7, <1>8 DEF Routine, SameReading
<1>11. QED
  BY <1>1, <1>2, <1>3, <1>4, <1>9, <1>10, StepKeeps, ZenonT(60) DEF WriteRequest, SameReading

LEMMA WriteCorrectionStep ==
  ASSUME AttendanceInv, NEW w \in Workers, WriteCorrection(w)
  PROVE  AttendanceInv'
<1>1. /\ job[w].todo \in {Noting, Applying, ApplyNotes} /\ job[w].kind = "correct"
      /\ Tail(Noting) = Committing /\ Tail(Applying) = ApplyCommits /\ Tail(ApplyNotes) = ApplySubmits
      /\ {Noting, Applying, ApplyNotes} \subseteq AllPrograms
  BY AtCorrection, Steppings DEF WriteCorrection, AllPrograms
<1>2. PICK j \in Job : /\ job' = [job EXCEPT ![w] = j]
                       /\ j.todo = Tail(job[w].todo) /\ j.wrote = job[w].wrote \cup {"correction"}
                       /\ j.seenSubmission = job[w].seenSubmission /\ SameReading(j, job[w])
  <2>1. "correction" \in Rows /\ Writes(w, "correction", job[w])
    BY DEF Rows, WriteCorrection
  <2>2. QED
    BY <1>1, <2>1, WritesRow
<1>3. /\ Committing \notin LedgerRead \cup Overridden \cup Overriding \cup Appending
      /\ ApplyCommits \notin LedgerRead \cup Overridden /\ ApplySubmits \notin LedgerRead \cup Overridden
      /\ Noting \notin LedgerRead \cup Overridden /\ Applying \notin LedgerRead \cup Overridden
      /\ ApplyNotes \notin LedgerRead \cup Overridden
  <2>1. Committing # ApplyEnds /\ Committing # ApplyCommits /\ ApplyCommits # ApplyEnds
    BY ProgramsDiffer
  <2>2. QED
    BY <2>1, Heads DEF LedgerRead, Overridden, Overriding, Appending
<1>31. /\ Committing \notin {Issuing, Recounting, ApplyAppends, Noting, ApplySubmits}
       /\ ApplyCommits \notin {Issuing, Recounting, ApplyAppends, Noting, Committing, ApplySubmits}
       /\ ApplySubmits \notin {Issuing, Recounting, ApplyAppends, Noting, Committing}
       /\ Applying \notin {Noting, Committing, ApplySubmits, ApplyAppends}
       /\ ApplyNotes \notin {Noting, Committing, ApplySubmits, ApplyAppends}
  <2>1. Applying # Noting /\ ApplyNotes # Noting /\ Committing # ApplyCommits
    BY ProgramsDiffer
  <2>2. QED
    BY <2>1, Heads
<1>4. /\ {Committing, ApplyCommits, ApplySubmits} \subseteq Programs("correct")
      /\ {Applying, ApplyNotes} \subseteq Appending /\ {Applying, ApplyNotes} \subseteq Overriding
  BY DEF Programs, Appending, Overriding
<1>5. Routine(job[w]) /\ Fitting(job[w])
  BY JobTyped
<1>6. ReadsFirst(j) /\ CountsFirst(j) /\ Presents(j)
  BY <1>1, <1>2, <1>3, <1>5, ZenonT(60) DEF Routine, ReadsFirst, CountsFirst, Presents, SameReading
<1>7. Decides(j)
  BY <1>1, <1>2, <1>3, <1>31, <1>4, <1>5, ZenonT(60) DEF Routine, Decides, SameReading
<1>8. Corrects(j)
  BY <1>1, <1>2, <1>3, <1>31, <1>5, ZenonT(60) DEF Routine, Corrects, SameReading
<1>9. Fitting(j)
  BY <1>1, <1>2, <1>3, <1>31, <1>5 DEF Fitting, Routine, Corrects, SameReading
<1>10. Routine(j)
  BY <1>1, <1>2, <1>4, <1>6, <1>7, <1>8 DEF Routine, SameReading
<1>11. QED
  BY <1>1, <1>2, <1>3, <1>31, <1>4, <1>9, <1>10, StepKeeps, ZenonT(60) DEF WriteCorrection, SameReading

LEMMA WriteSubmissionStep ==
  ASSUME AttendanceInv, NEW w \in Workers, WriteSubmission(w)
  PROVE  AttendanceInv'
<1>1. /\ \/ job[w].todo = Submitting /\ job[w].kind \in {"audit", "mark", "review", "batch"}
         \/ job[w].todo = Verifying /\ job[w].kind \in {"mark", "batch", "override"}
         \/ job[w].todo = ApplySubmits /\ job[w].kind = "correct"
      /\ Tail(Submitting) = Committing /\ Tail(Verifying) = Recounting
      /\ Tail(ApplySubmits) = ApplyAppends
      /\ {Submitting, Verifying, ApplySubmits} \subseteq AllPrograms
  BY AtSubmission, Steppings DEF WriteSubmission, AllPrograms
<1>2. PICK j \in Job : /\ job' = [job EXCEPT ![w] = j]
                       /\ j.todo = Tail(job[w].todo) /\ j.wrote = job[w].wrote \cup {"submission"}
                       /\ j.seenSubmission = job[w].seenSubmission /\ SameReading(j, job[w])
  <2>1. "submission" \in Rows /\ Writes(w, "submission", job[w])
    BY DEF Rows, WriteSubmission
  <2>2. QED
    BY <1>1, <2>1, WritesRow
<1>3. /\ Submitting \notin LedgerRead \cup Overridden /\ Verifying \notin LedgerRead \cup Overridden
      /\ ApplySubmits \notin LedgerRead \cup Overridden /\ Committing \notin LedgerRead \cup Overridden
      /\ Recounting \notin LedgerRead \cup Overridden /\ ApplyAppends \notin LedgerRead \cup Overridden
      /\ Committing \notin Overriding \cup Appending /\ Recounting \notin Overriding
  <2>1. Committing # ApplyEnds /\ Committing # ApplyCommits /\ Recounting # ApplyAppends
    BY ProgramsDiffer
  <2>2. QED
    BY <2>1, Heads DEF LedgerRead, Overridden, Overriding, Appending
<1>31. /\ Committing \notin {Issuing, Counting, Facing, Verifying, Recounting, ApplyAppends, Reviewing,
                             ReviewAppends, ReviewRecords, Refusing, Submitting}
       /\ Recounting \notin {Issuing, Counting, Facing, Reviewing, ReviewAppends, ReviewRecords, Refusing,
                             Submitting, Noting, Committing}
       /\ ApplyAppends \notin {Issuing, Noting, Committing, Verifying, Recounting, Reviewing,
                               ReviewAppends}
       /\ Submitting \notin {Counting, Facing, Verifying, Recounting, Noting, Committing}
       /\ Verifying \notin {Counting, Facing, Noting, Committing}
       /\ ApplySubmits \notin {Noting, Committing}
  <2>1. Submitting # Verifying /\ Recounting # ReviewAppends /\ ApplyAppends # Recounting
        /\ ApplyAppends # ReviewAppends
    BY ProgramsDiffer
  <2>2. QED
    BY <2>1, Heads
<1>4. /\ \A kind \in {"audit", "mark", "review", "batch"} : Committing \in Programs(kind)
      /\ \A kind \in {"mark", "batch", "override"} : Recounting \in Programs(kind)
      /\ ApplyAppends \in Programs("correct")
      /\ {Verifying, ApplySubmits} \subseteq Appending
      /\ {ApplySubmits, ApplyAppends} \subseteq Overriding
  BY DEF Programs, Appending, Overriding
<1>5. Routine(job[w]) /\ Fitting(job[w])
  BY JobTyped
<1>51. \/ job[w].todo = Submitting /\ j.todo = Committing
       \/ job[w].todo = Verifying /\ j.todo = Recounting
       \/ job[w].todo = ApplySubmits /\ j.todo = ApplyAppends
  BY <1>1, <1>2
<1>52. /\ job[w].todo \notin LedgerRead \cup Overridden /\ j.todo \notin LedgerRead \cup Overridden
       /\ job[w].todo \notin {Noting, Committing}
  BY <1>51, <1>3, <1>31
<1>6. ReadsFirst(j)
  BY <1>2, <1>52, <1>5 DEF Routine, ReadsFirst, SameReading
<1>60. CountsFirst(j)
  <2>1. job[w].kind = "mark" => job[w].todo \notin {Counting, Facing} /\ j.todo \notin {Counting, Facing}
    BY <1>1, <1>51, <1>31
  <2>2. QED
    BY <2>1, <1>2, <1>5 DEF Routine, CountsFirst, SameReading
<1>61. Presents(j)
  BY <1>1, <1>2, <1>31, <1>5 DEF Routine, Presents, SameReading
<1>7. Decides(j)
  <2>1. Decides(job[w])
    BY <1>5 DEF Routine
  <2>2. job[w].putSubmission # "none"
    BY <2>1, <1>1, <1>31, <1>4 DEF Decides
  <2>3. j.kind \in Staff \cup {"audit", "mark"}
    BY <1>1, <1>2 DEF Staff, SameReading
  <2>4. /\ j.kind = job[w].kind /\ j.putSubmission = job[w].putSubmission /\ j.status = job[w].status
        /\ "submission" \in j.wrote
    BY <1>2 DEF SameReading
  <2>5. j.kind \notin {"override", "correct"} /\ j.todo \in {Verifying, Recounting, Reviewing, ReviewAppends}
          => j.status \in Attendance
    BY <2>1, <2>4, <1>1, <1>2, <1>31 DEF Decides
  <2>6. j.kind \in {"audit", "mark"} => j.putSubmission \in {"none", "rejected", "verified"}
    BY <2>1, <2>4 DEF Decides
  <2>7. QED
    BY <2>2, <2>3, <2>4, <2>5, <2>6 DEF Decides
<1>8. Corrects(j)
  <2>1. j.putCorrection = "applied" => j.todo = ApplyAppends /\ "correction" \notin j.wrote
    BY <1>1, <1>2, <1>52, <1>5 DEF Routine, Corrects, SameReading
  <2>2. QED
    BY <2>1, <1>2, <1>52, <1>5 DEF Routine, Corrects, SameReading
<1>9. Fitting(j)
  <2>1. job[w].seenSubmission = "none" => submission = "none"
    BY DEF WriteSubmission
  <2>2. j.putCorrection = "applied" => j.todo \notin {Noting, Committing}
    BY <1>1, <1>2, <1>31, <1>5 DEF Routine, Corrects, SameReading
  <2>3. QED
    BY <2>1, <2>2, <1>2, <1>5 DEF Fitting, SameReading
<1>10. Routine(j)
  BY <1>1, <1>2, <1>4, <1>6, <1>60, <1>61, <1>7, <1>8, ZenonT(60) DEF Routine, SameReading
<1>11. \A v \in Workers \ {w} : "submission" \notin job[v].wrote
  BY DEF WriteSubmission, Writes, WaitsFor, Target, SameRow, At
<1>12. j.todo \in Appending => job[w].todo \in Appending
  BY <1>1, <1>2, <1>3, <1>4
<1>13. QED
  BY <1>1, <1>2, <1>31, <1>9, <1>10, <1>11, <1>12, StepKeeps DEF WriteSubmission, SameReading

LEMMA ReadSubmissionStep ==
  ASSUME AttendanceInv, NEW w \in Workers, ReadSubmission(w)
  PROVE  AttendanceInv'
<1>1. /\ job[w].todo = Refusing /\ job[w].kind \in {"audit", "mark", "review"}
      /\ Tail(Refusing) = Submitting
  BY AtRead, Steppings DEF ReadSubmission
<1> DEFINE k == job[w]
           j == [k EXCEPT !.seenSubmission = submission, !.todo = Submitting]
<1>2. /\ k \in Job /\ Submitting \in Seq(Steps) /\ submission \in SubmissionStatuses \cup {"none"}
      /\ Routine(k) /\ Fitting(k)
  BY JobTyped, ProgramSteps DEF AllPrograms, AttendanceInv, TablesTyped
<1>3. job' = [job EXCEPT ![w] = j]
  BY <1>1 DEF ReadSubmission, Goes
<1> HIDE DEF k
<1>4. j \in Job
  BY <1>2, Updated
<1>5. j.todo = Submitting /\ j.wrote = k.wrote /\ j.seenSubmission = submission /\ SameReading(j, k)
  BY <1>2 DEF Job, SameReading
<1> HIDE DEF j
<1>6. /\ Submitting \notin LedgerRead \cup Overridden \cup Overriding \cup Appending
      /\ Refusing \notin LedgerRead \cup Overridden
      /\ Submitting \notin {Issuing, Counting, Facing, Verifying, Recounting, Reviewing, ReviewAppends,
                            ApplyAppends, Noting, Committing}
      /\ Refusing \notin {Counting, Facing, Verifying, Recounting, Noting, Committing, ApplySubmits,
                          ApplyAppends}
  <2>1. Submitting # Verifying /\ Submitting # ApplySubmits
    BY ProgramsDiffer
  <2>2. QED
    BY <2>1, Heads DEF LedgerRead, Overridden, Overriding, Appending
<1>7. \A kind \in {"audit", "mark", "review"} : Submitting \in Programs(kind)
  BY DEF Programs
<1>8. k.todo = Refusing /\ k.kind \in {"audit", "mark", "review"}
  BY <1>1 DEF k
<1>9. ReadsFirst(j) /\ CountsFirst(j) /\ Presents(j)
  BY <1>2, <1>5, <1>6, <1>8 DEF Routine, ReadsFirst, CountsFirst, Presents, SameReading
<1>10. Decides(j)
  BY <1>2, <1>5, <1>6, <1>8 DEF Routine, Decides, SameReading
<1>11. Corrects(j)
  BY <1>2, <1>5, <1>6, <1>8 DEF Routine, Corrects, SameReading
<1>12. Fitting(j)
  BY <1>2, <1>5, <1>6, <1>8 DEF Routine, Corrects, Fitting, SameReading
<1>13. Routine(j)
  BY <1>4, <1>5, <1>7, <1>8, <1>9, <1>10, <1>11 DEF Routine, SameReading
<1>14. j.event = job[w].event /\ j.wrote = job[w].wrote
  BY <1>5 DEF SameReading, k
<1>15. QED
  BY <1>3, <1>5, <1>6, <1>12, <1>13, <1>14, StepKeeps DEF ReadSubmission

\* The mark has its verdict: the location is refused, or the face is or is not the student's.
LEMMA VerdictKeeps ==
  ASSUME AttendanceInv, NEW w \in Workers, At(w, "face"), NEW j \in Job,
         job' = [job EXCEPT ![w] = j], UNCHANGED <<session, tables, clock, starts, ghosts>>,
         j.kind = job[w].kind, j.token = job[w].token, j.seenAttempts = job[w].seenAttempts,
         j.seenSubmission = job[w].seenSubmission, j.putCorrection = job[w].putCorrection,
         j.event = job[w].event, j.latest = job[w].latest, j.seenRecord = job[w].seenRecord,
         j.stale = job[w].stale, j.wrote = job[w].wrote,
         \/ j.todo \in {Refusing, Submitting} /\ j.putSubmission = "rejected"
         \/ j.todo = Verifying /\ j.putSubmission = "verified" /\ j.status = "present"
  PROVE  AttendanceInv'
<1>1. /\ job[w].todo = Facing /\ job[w].kind = "mark" /\ job[w] \in Job
      /\ Routine(job[w]) /\ Fitting(job[w])
  BY AtFace, JobTyped
<1>2. \A x \in {Refusing, Submitting, Verifying} :
        /\ x \notin LedgerRead \cup Overridden
        /\ x \notin {Issuing, Counting, Facing, Noting, Committing, Recounting, ApplyAppends}
  BY Heads DEF LedgerRead, Overridden
<1>3. /\ {Refusing, Submitting, Verifying} \subseteq Programs("mark") /\ Facing \in Appending
      /\ Facing \notin LedgerRead \cup Overridden
      /\ Facing \notin {Counting, Noting, Committing, ApplySubmits, ApplyAppends}
  BY Heads DEF Programs, Appending, LedgerRead, Overridden
<1>4. Refusing \notin {Verifying, Reviewing, ReviewAppends} /\ Submitting \notin {Verifying, Reviewing, ReviewAppends}
  <2>1. Submitting # Verifying
    BY ProgramsDiffer
  <2>2. QED
    BY <2>1, Heads
<1>5. ReadsFirst(j) /\ CountsFirst(j)
  BY <1>1, <1>2, <1>3 DEF Routine, ReadsFirst, CountsFirst
<1>6. Presents(j)
  BY <1>1, <1>2 DEF Presents
<1>7. Decides(j)
  BY <1>1, <1>2, <1>4 DEF Routine, Decides, Attendance, Staff
<1>8. Corrects(j)
  BY <1>1, <1>2, <1>3 DEF Routine, Corrects
<1>9. Fitting(j)
  BY <1>1, <1>2 DEF Fitting, Routine, Corrects
<1>10. Routine(j)
  BY <1>1, <1>3, <1>5, <1>6, <1>7, <1>8 DEF Routine
<1>11. QED
  BY <1>1, <1>2, <1>3, <1>9, <1>10, StepKeeps

LEMMA RejectLocationStep ==
  ASSUME AttendanceInv, NEW w \in Workers, RejectLocation(w)
  PROVE  AttendanceInv'
<1> DEFINE k == job[w]
           p == IF k.seenSubmission = "none" THEN Refusing ELSE Submitting
           j == [k EXCEPT !.putSubmission = "rejected", !.todo = p]
<1>1. k \in Job /\ p \in Seq(Steps) /\ "rejected" \in SubmissionStatuses /\ p \in {Refusing, Submitting}
  BY JobTyped, ProgramSteps DEF AllPrograms, SubmissionStatuses
<1>2. At(w, "face") /\ UNCHANGED <<session, tables, clock, starts, ghosts>>
      /\ job' = [job EXCEPT ![w] = j]
  <2>1. job \in [Workers -> Job]
    BY DEF AttendanceInv
  <2>2. QED
    BY <2>1 DEF RejectLocation, Refusing, Submitting
<1> HIDE DEF p, k
<1>3. j \in Job
  BY <1>1, Updated
<1>4. /\ j.kind = k.kind /\ j.token = k.token /\ j.seenAttempts = k.seenAttempts
      /\ j.seenSubmission = k.seenSubmission /\ j.putCorrection = k.putCorrection
      /\ j.event = k.event /\ j.latest = k.latest /\ j.seenRecord = k.seenRecord
      /\ j.stale = k.stale /\ j.wrote = k.wrote /\ j.todo = p /\ j.putSubmission = "rejected"
  BY <1>1 DEF Job
<1> HIDE DEF j
<1>5. QED
  BY <1>1, <1>2, <1>3, <1>4, VerdictKeeps DEF k

LEMMA VerifyFaceStep ==
  ASSUME AttendanceInv, NEW w \in Workers, VerifyFace(w)
  PROVE  AttendanceInv'
<1> DEFINE k == job[w]
           j == [k EXCEPT !.putSubmission = "rejected", !.faced = TRUE, !.todo = Submitting]
           i == [k EXCEPT !.putSubmission = "verified", !.faced = TRUE, !.status = "present",
                          !.todo = Verifying]
<1>1. /\ k \in Job /\ {Submitting, Verifying} \subseteq Seq(Steps) /\ "present" \in Attendance
      /\ {"verified", "rejected"} \subseteq SubmissionStatuses
  BY JobTyped, ProgramSteps DEF AllPrograms, SubmissionStatuses, Attendance
<1>2. At(w, "face") /\ UNCHANGED <<session, tables, clock, starts, ghosts>>
      /\ (job' = [job EXCEPT ![w] = j] \/ job' = [job EXCEPT ![w] = i])
  <2>1. job \in [Workers -> Job]
    BY DEF AttendanceInv
  <2>2. QED
    BY <2>1, Concatenations DEF VerifyFace, Submitting
<1> HIDE DEF k
<1>3. j \in Job /\ i \in Job
  BY <1>1, Updated
<1>4. /\ j.kind = k.kind /\ j.token = k.token /\ j.seenAttempts = k.seenAttempts
      /\ j.seenSubmission = k.seenSubmission /\ j.putCorrection = k.putCorrection
      /\ j.event = k.event /\ j.latest = k.latest /\ j.seenRecord = k.seenRecord
      /\ j.stale = k.stale /\ j.wrote = k.wrote /\ j.todo = Submitting /\ j.putSubmission = "rejected"
  BY <1>1 DEF Job
<1>5. /\ i.kind = k.kind /\ i.token = k.token /\ i.seenAttempts = k.seenAttempts
      /\ i.seenSubmission = k.seenSubmission /\ i.putCorrection = k.putCorrection
      /\ i.event = k.event /\ i.latest = k.latest /\ i.seenRecord = k.seenRecord
      /\ i.stale = k.stale /\ i.wrote = k.wrote /\ i.todo = Verifying /\ i.putSubmission = "verified"
      /\ i.status = "present"
  BY <1>1 DEF Job
<1> HIDE DEF j, i
<1>6. CASE job' = [job EXCEPT ![w] = j]
  BY <1>2, <1>3, <1>4, <1>6, VerdictKeeps DEF k
<1>7. CASE job' = [job EXCEPT ![w] = i]
  BY <1>2, <1>3, <1>5, <1>7, VerdictKeeps DEF k
<1>8. QED
  BY <1>2, <1>6, <1>7
\* Who writes the submission leaves one there.
LEMMA OwnIsDecided ==
  ASSUME AttendanceInv, NEW w \in Workers, "submission" \in job[w].wrote
  PROVE  OwnSubmission(w) \in SubmissionStatuses
<1>1. /\ Routine(job[w]) /\ Fitting(job[w]) /\ job[w] \in Job
      /\ submission \in SubmissionStatuses \cup {"none"}
  BY JobTyped DEF AttendanceInv, TablesTyped
<1>2. job[w].putSubmission \in SubmissionStatuses
  BY <1>1 DEF Job, Routine, Decides
<1>3. job[w].putSubmission = job[w].seenSubmission => submission # "none"
  BY <1>1, <1>2 DEF Fitting, SubmissionStatuses
<1>4. QED
  BY <1>1, <1>2, <1>3 DEF OwnSubmission, Put

\* The event of AppendEvent.
AppendedStatus(w) ==
  IF job[w].kind \in {"override", "correct"} THEN SubmissionAttendance(OwnSubmission(w))
  ELSE job[w].status

Appended(w) ==
  [at |-> clock + 1, status |-> AppendedStatus(w),
   by |-> IF job[w].kind = "correct" THEN "correction" ELSE "other"]

LEMMA AppendedTyped ==
  ASSUME AttendanceInv, NEW w \in Workers, At(w, "append")
  PROVE  /\ Appended(w) \in Event
         /\ IsLatest(Appended(w), events \cup {Appended(w)})
<1>1. /\ \/ job[w].todo = Recounting /\ job[w].kind \in {"mark", "batch", "bulk", "override"}
         \/ job[w].todo = ReviewAppends /\ job[w].kind = "review"
         \/ job[w].todo = ApplyAppends /\ job[w].kind = "correct"
      /\ Routine(job[w]) /\ {Recounting, ReviewAppends, ApplyAppends} \subseteq Appending
  BY AtAppend, JobTyped DEF Appending
<1>2. AppendedStatus(w) \in Attendance
  <2>1. CASE job[w].kind \in {"override", "correct"}
    <3>1. "submission" \in job[w].wrote
      BY <1>1, <2>1 DEF Routine, Decides
    <3>2. OwnSubmission(w) \in SubmissionStatuses
      BY <3>1, OwnIsDecided
    <3>3. QED
      BY <2>1, <3>2 DEF AppendedStatus, SubmissionAttendance, SubmissionStatuses, Attendance
  <2>2. CASE job[w].kind \notin {"override", "correct"}
    BY <2>2, <1>1 DEF AppendedStatus, Routine, Decides
  <2>3. QED
    BY <2>1, <2>2
<1>3. /\ clock \in Nat /\ clock + 1 \in 1..MaxStarts + 2
  <2>1. /\ clock \in Nat /\ starts \in 0..MaxStarts /\ MaxStarts \in Nat
        /\ clock + Cardinality(Appenders) <= starts + 2 /\ Cardinality(Appenders) \in Nat
    BY SetsOfWorkers, Constants DEF AttendanceInv, TablesTyped, Clocked
  <2>2. Cardinality(Appenders) # 0
    <3>1. w \in Appenders
      BY <1>1 DEF Appenders
    <3>2. QED
      BY <3>1, SetsOfWorkers, FS_EmptySet
  <2>3. QED
    BY <2>1, <2>2
<1>4. Appended(w) \in Event
  BY <1>2, <1>3 DEF Appended, Event
<1>5. Appended(w).at = clock + 1
  BY DEF Appended
<1>6. \A e \in events : e.at \in Nat /\ e.at <= clock
  BY Constants DEF AttendanceInv, Clocked, TablesTyped, Event
<1>7. \A e \in events \cup {Appended(w)} : e.at <= Appended(w).at
  BY <1>3, <1>5, <1>6
<1>8. QED
  BY <1>4, <1>7 DEF IsLatest

LEMMA AppendEventStep ==
  ASSUME AttendanceInv, NEW w \in Workers, AppendEvent(w)
  PROVE  AttendanceInv'
<1> DEFINE k == job[w]
           e == Appended(w)
           last == LatestEvent(events \cup {e})
           p == Tail(k.todo)
           j == [[[k EXCEPT !.event = e] EXCEPT !.latest = last, !.seenRecord = record, !.stale = FALSE]
                   EXCEPT !.todo = p]
<1>1. At(w, "append") /\ clock' = clock + 1 /\ UNCHANGED <<session, tables, starts, ghosts>>
      /\ job' = [job EXCEPT ![w] = j]
  BY DEF AppendEvent, Goes, ReadsLedger, Appended, AppendedStatus
<1>2. /\ \/ k.todo = Recounting /\ p = Recording /\ k.kind \in {"mark", "batch", "bulk", "override"}
         \/ k.todo = ReviewAppends /\ p = ReviewRecords /\ k.kind = "review"
         \/ k.todo = ApplyAppends /\ p = ApplyRecords /\ k.kind = "correct"
      /\ p \in Seq(Steps)
  BY <1>1, AtAppend, Steppings, ProgramSteps, ZenonT(60) DEF AllPrograms
<1>3. e \in Event /\ last \in Event /\ IsLatest(last, events \cup {e}) /\ e.at = clock + 1
  <2>1. e \in Event /\ IsLatest(e, events \cup {e})
    BY <1>1, AppendedTyped
  <2>2. e.at = clock + 1
    BY DEF Appended
  <2> HIDE DEF e
  <2>3. IsLatest(last, events \cup {e})
    BY <2>1, LatestIs
  <2>4. QED
    BY <2>1, <2>2, <2>3 DEF IsLatest, AttendanceInv, TablesTyped
<1>4. e.by = IF k.kind = "correct" THEN "correction" ELSE "other"
  BY DEF Appended
<1>5. k.kind = "mark" => e.status = k.status
  BY DEF Appended, AppendedStatus
<1>6. k \in Job /\ Routine(k) /\ Fitting(k) /\ record \in Record \cup {NoRecord}
  BY JobTyped DEF AttendanceInv, TablesTyped
<1> HIDE DEF k, e, last, p
<1>7. j \in Job
  BY <1>2, <1>3, <1>6, Updated
<1>8. /\ j.kind = k.kind /\ j.token = k.token /\ j.seenAttempts = k.seenAttempts /\ j.faced = k.faced
      /\ j.putSubmission = k.putSubmission /\ j.putCorrection = k.putCorrection
      /\ j.seenSubmission = k.seenSubmission /\ j.wrote = k.wrote
      /\ j.status = k.status /\ j.event = e /\ j.latest = last /\ j.seenRecord = record
      /\ j.stale = FALSE /\ j.todo = p
  BY <1>6 DEF Job
<1> HIDE DEF j
<1>9. /\ {Recording, ReviewRecords, ApplyRecords} \subseteq LedgerRead
      /\ Recording \in Programs("mark") /\ Recording \in Programs("batch")
      /\ Recording \in Programs("bulk") /\ Recording \in Programs("override")
      /\ ReviewRecords \in Programs("review") /\ ApplyRecords \in Programs("correct")
      /\ ApplyRecords \in Overridden /\ ApplyAppends \in Appending /\ ReviewAppends \in Appending
      /\ Recounting \in Appending
  BY DEF LedgerRead, Programs, Overridden, Appending
<1>10. /\ p \notin Appending /\ p \notin {Issuing, Counting, Facing, Verifying, Recounting, Reviewing,
                                          ReviewAppends, ApplyAppends, Refusing, Submitting, Noting,
                                          Committing}
       /\ p \notin Overriding
       /\ k.todo \notin {Counting, Facing, Noting, Committing}
  <2>1. Recording \notin Appending /\ ReviewRecords \notin Appending /\ ApplyRecords \notin Appending
    BY Heads DEF Appending
  <2>2. Recording \notin Overriding /\ ReviewRecords \notin Overriding /\ ApplyRecords \notin Overriding
    BY Heads DEF Overriding
  <2>3. p \notin Appending /\ p \notin Overriding
    BY <2>1, <2>2, <1>2
  <2>4. Head(p) = "record" /\ Head(k.todo) = "append"
    BY <1>2, Heads
  <2>5. QED
    BY <2>3, <2>4, Heads
<1>11. e # NoEvent /\ last # NoEvent
  BY <1>3, NoEventIsNone
<1>12. ReadsFirst(j)
  BY <1>2, <1>8, <1>9, <1>11 DEF ReadsFirst
<1>13. CountsFirst(j)
  BY <1>6, <1>8, <1>10 DEF Routine, CountsFirst
<1>14. Presents(j)
  BY <1>5, <1>6, <1>8, <1>10, <1>11 DEF Routine, Presents
<1>15. Decides(j)
  <2>1. Decides(k)
    BY <1>6 DEF Routine
  <2>2. k.kind = "review" => k.todo = ReviewAppends
    BY <1>2
  <2>3. k.kind = "correct" => k.todo = ApplyAppends /\ ApplyAppends \in Overriding
    BY <1>2 DEF Overriding
  <2>4. QED
    BY <2>1, <2>2, <2>3, <1>8, <1>10 DEF Decides
<1>16. Corrects(j)
  <2>1. Corrects(k) /\ (p \in Overridden => k.kind = "correct")
    <3>1. Recording \notin Overridden /\ ReviewRecords \notin Overridden
      BY Heads, ProgramsDiffer DEF Overridden
    <3>2. QED
      BY <3>1, <1>2, <1>6 DEF Routine
  <2>2. k.putCorrection = "applied" => k.kind = "correct" /\ "correction" \notin k.wrote /\ p \in Overridden
    BY <2>1, <1>2, <1>9, <1>10 DEF Corrects
  <2>3. QED
    BY <2>1, <2>2, <1>4, <1>8, <1>10, <1>11 DEF Corrects
<1>17. Routine(j)
  BY <1>2, <1>7, <1>8, <1>9, <1>12, <1>13, <1>14, <1>15, <1>16 DEF Routine
<1>18. Fitting(j)
  <2>1. events \cup ({e} \ {NoEvent}) = events \cup {e}
    BY <1>11
  <2>2. QED
    BY <2>1, <1>3, <1>6, <1>8, <1>10 DEF Fitting
<1>19. j.event.at <= clock'
  BY <1>1, <1>3, <1>8 DEF AttendanceInv, TablesTyped
<1>20. job[w].todo \in Appending /\ j.todo \notin Appending /\ j.todo # Issuing
       /\ j.wrote = job[w].wrote
  BY <1>2, <1>8, <1>9, <1>10 DEF k
<1>21. QuietStep(w, j)
  BY <1>1, <1>17, <1>18, <1>19, <1>20 DEF QuietStep, tables, ghosts
<1>22. QED
  BY <1>21, QuietKeeps

\* There are as many plans as threads, so one is free for a thread that needs it.
LEMMA PlanLeft ==
  ASSUME job \in [Workers -> Job], NEW w \in Workers, ActivePlan = 0,
         plans \in [PlanIds -> Risks \cup {NoRisk}]
  PROVE  UnusedPlan(w) \in PlanIds
<1> DEFINE S == Workers \ {w}
<1>1. /\ IsFiniteSet(S) /\ Cardinality(S) = Cardinality(Workers) - 1
      /\ Cardinality(Workers) \in Nat
  BY Constants, FS_RemoveElement
<1>2. IsFiniteSet(PlanIds) /\ Cardinality(PlanIds) = Cardinality(Workers)
  BY Constants, FS_Interval DEF PlanIds
<1>3. \E p \in PlanIds : \A v \in S : job[v].plan # p
  <2>1. SUFFICES ASSUME \A p \in PlanIds : \E v \in S : job[v].plan = p
                 PROVE  FALSE
    OBVIOUS
  <2> DEFINE f == [p \in PlanIds |-> CHOOSE v \in S : job[v].plan = p]
  <2>2. f \in [PlanIds -> S] /\ \A p \in PlanIds : job[f[p]].plan = p
    BY <2>1
  <2> HIDE DEF f, S
  <2>3. Cardinality(S) < Cardinality(PlanIds)
    BY <1>1, <1>2
  <2>4. \E p, q \in PlanIds : p # q /\ f[p] = f[q]
    BY <2>2, <2>3, <1>1, <1>2, FS_PigeonHole
  <2>5. QED
    BY <2>2, <2>4
<1>4. \A p \in PlanIds : plans[p] = NoRisk
  <2>1. 0 \notin PlanIds
    BY Constants DEF PlanIds
  <2>2. ActivePlans = {}
    BY <2>1 DEF ActivePlan, ActivePlans
  <2>3. QED
    BY <2>2 DEF ActivePlans
<1>5. QED
  BY <1>3, <1>4 DEF UnusedPlan

LEMMA DueRiskTyped ==
  ASSUME NEW sub, NEW rec
  PROVE  DueRisk(sub, rec) \in Risks \cup {NoRisk}
<1> DEFINE classes == PriorClasses \o <<CountsPresent(sub, rec.status)>>
<1>1. RiskLevel(classes) \in Risks \cup {NoRisk}
  <2> HIDE DEF classes
  <2>1. QED
    BY DEF RiskLevel, Risks, NoRisk
<1>2. QED
  BY <1>1 DEF DueRisk

\* An evaluation notes the plan it works on, and nothing else.
LEMMA EvaluatedTyped ==
  ASSUME AttendanceInv, NEW w \in Workers, NEW new \in Job, NEW risk \in Risks \cup {NoRisk}
  PROVE  /\ Evaluated(w, new, risk) \in Job
         /\ SameReading(Evaluated(w, new, risk), new)
         /\ Evaluated(w, new, risk).todo = new.todo
         /\ Evaluated(w, new, risk).wrote = new.wrote
         /\ Evaluated(w, new, risk).seenSubmission = new.seenSubmission
<1>1. CASE ActivePlan = 0 /\ risk = NoRisk
  BY <1>1 DEF Evaluated, SameReading
<1>2. CASE ~(ActivePlan = 0 /\ risk = NoRisk)
  <2> DEFINE p == IF ActivePlan = 0 THEN UnusedPlan(w) ELSE ActivePlan
             r == ActiveRisk
             k == [new EXCEPT !.plan = p, !.seenRisk = r, !.putRisk = risk]
  <2>1. /\ job \in [Workers -> Job] /\ plans \in [PlanIds -> Risks \cup {NoRisk}]
    BY DEF AttendanceInv, TablesTyped
  <2>2. ActivePlan # 0 => ActivePlan \in PlanIds
    BY DEF ActivePlan, ActivePlans
  <2>3. p \in PlanIds
    BY <2>1, <2>2, PlanLeft
  <2>4. r \in Risks \cup {NoRisk}
    BY <2>1, <2>2 DEF ActiveRisk
  <2>5. Evaluated(w, new, risk) = k
    BY <1>2 DEF Evaluated
  <2> HIDE DEF p, r
  <2>6. k \in Job
    BY <2>3, <2>4, Updated
  <2>7. k.todo = new.todo /\ k.wrote = new.wrote /\ k.seenSubmission = new.seenSubmission
        /\ SameReading(k, new)
    BY DEF Job, SameReading
  <2> HIDE DEF k
  <2>8. QED
    BY <2>5, <2>6, <2>7
<1>3. QED
  BY <1>1, <1>2

LEMMA WriteRecordStep ==
  ASSUME AttendanceInv, NEW w \in Workers, WriteRecord(w)
  PROVE  AttendanceInv'
<1> DEFINE k == job[w]
           e == IF k.kind = "recompute" THEN k
                ELSE Evaluated(w, k, DueRisk(OwnSubmission(w), ComputedRecord(w)))
           p == Tail(k.todo)
           r == k.wrote \cup {"record"}
           j == [e EXCEPT !.wrote = r, !.todo = p]
<1>1. /\ \/ k.todo = Recording /\ p = Committing
            /\ k.kind \in {"mark", "batch", "bulk", "override", "recompute"}
         \/ k.todo = ReviewRecords /\ p = Refusing /\ k.kind = "review"
         \/ k.todo = ApplyRecords /\ p = ApplyEnds /\ k.kind = "correct"
      /\ p \in Seq(Steps)
  <2>1. At(w, "record")
    BY DEF WriteRecord
  <2>2. \/ k.todo = Recording /\ k.kind \in {"mark", "batch", "bulk", "override", "recompute"}
        \/ k.todo = ReviewRecords /\ k.kind = "review"
        \/ k.todo = ApplyRecords /\ k.kind = "correct"
    BY <2>1, AtRecord
  <2>3. Committing \in Seq(Steps) /\ Refusing \in Seq(Steps) /\ ApplyEnds \in Seq(Steps)
    BY ProgramSteps DEF AllPrograms
  <2>4. QED
    BY <2>2, <2>3, Steppings
<1>2. k \in Job /\ Routine(k) /\ Fitting(k) /\ r \in SUBSET Rows
  BY JobTyped DEF Rows, Job
<1>3. /\ e \in Job /\ SameReading(e, k) /\ e.wrote = k.wrote /\ e.seenSubmission = k.seenSubmission
  <2>1. DueRisk(OwnSubmission(w), ComputedRecord(w)) \in Risks \cup {NoRisk}
    BY DueRiskTyped
  <2> DEFINE risk == DueRisk(OwnSubmission(w), ComputedRecord(w))
  <2> HIDE DEF risk, k
  <2>2. CASE k.kind = "recompute"
    BY <2>2, <1>2 DEF SameReading
  <2>3. CASE k.kind # "recompute"
    BY <2>1, <2>3, <1>2, EvaluatedTyped DEF risk
  <2>4. QED
    BY <2>2, <2>3
<1>4. job' = [job EXCEPT ![w] = j] /\ UNCHANGED <<session, tables, clock, starts, ghosts>>
  <2>1. job' = [job EXCEPT ![w] = [[e EXCEPT !.wrote = @ \cup {"record"}] EXCEPT !.todo = p]]
        /\ UNCHANGED <<session, tables, clock, starts, ghosts>>
    BY DEF WriteRecord, Writes, Goes
  <2> HIDE DEF e, k
  <2>2. [[e EXCEPT !.wrote = @ \cup {"record"}] EXCEPT !.todo = p] = j
    BY <1>3 DEF Job
  <2> HIDE DEF j
  <2>3. QED
    BY <2>1, <2>2
<1> HIDE DEF e, p, r, k
<1>5. j \in Job
  BY <1>1, <1>2, <1>3, Updated
<1>6. /\ j.todo = p /\ j.wrote = r /\ j.seenSubmission = k.seenSubmission /\ SameReading(j, k)
  BY <1>3 DEF Job, SameReading
<1> HIDE DEF j
<1>7. /\ Committing \in Programs("mark") /\ Committing \in Programs("batch")
      /\ Committing \in Programs("bulk") /\ Committing \in Programs("override")
      /\ Committing \in Programs("recompute") /\ Refusing \in Programs("review")
      /\ ApplyEnds \in Programs("correct") /\ ApplyRecords \in Overridden /\ ApplyEnds \in Overridden
      /\ {Recording, ReviewRecords, ApplyRecords} \subseteq LedgerRead
  BY DEF Programs, Overridden, LedgerRead
<1>8. /\ p \notin LedgerRead /\ p \notin Appending /\ p \notin Overriding
      /\ Committing \notin Overridden /\ Refusing \notin Overridden
  <2>1. /\ Committing \notin LedgerRead /\ Refusing \notin LedgerRead /\ ApplyEnds \notin LedgerRead
    BY Heads DEF LedgerRead
  <2>2. Committing # ApplyCommits /\ ApplyEnds # ApplyCommits /\ Committing # ApplyEnds
    BY ProgramsDiffer
  <2>3. /\ Committing \notin Appending /\ Refusing \notin Appending /\ ApplyEnds \notin Appending
    BY <2>2, Heads DEF Appending
  <2>4. /\ Committing \notin Overriding /\ Refusing \notin Overriding /\ ApplyEnds \notin Overriding
    BY <2>2, Heads DEF Overriding
  <2>5. /\ Committing \notin Overridden /\ Refusing \notin Overridden
    BY <2>2, Heads DEF Overridden
  <2>6. QED
    BY <2>1, <2>3, <2>4, <2>5, <1>1
<1>9. /\ p \notin {Issuing, Counting, Facing, Verifying, Recounting, Reviewing, ReviewAppends,
                   ReviewRecords, ApplyAppends, Submitting, Noting}
      /\ k.todo \notin {Counting, Facing, Verifying, Recounting, Noting, Committing, ApplySubmits, ApplyAppends}
      /\ ApplyEnds # Committing
  <2>1. Head(p) \in {"commit", "read"} /\ Head(k.todo) = "record"
    BY <1>1, Heads
  <2>2. QED
    BY <2>1, Heads, ProgramsDiffer
<1>10. k.latest # NoEvent
  BY <1>1, <1>2, <1>7 DEF Routine, ReadsFirst
<1>11. ReadsFirst(j)
  BY <1>6, <1>8, <1>10 DEF ReadsFirst, SameReading, r
<1>12. CountsFirst(j)
  BY <1>2, <1>6, <1>9 DEF Routine, CountsFirst, SameReading, r
<1>13. Presents(j)
  BY <1>2, <1>6, <1>9 DEF Routine, Presents, SameReading
<1>14. Decides(j)
  <2>1. Decides(k) /\ (k.kind = "review" => k.todo = ReviewRecords)
    BY <1>1, <1>2 DEF Routine
  <2>2. QED
    BY <2>1, <1>6, <1>8, <1>9 DEF Decides, SameReading, r
<1>15. Corrects(j)
  <2>1. Corrects(k)
    BY <1>2 DEF Routine
  <2>2. p \in Overridden => p = ApplyEnds /\ k.todo \in Overridden
    BY <1>1, <1>7, <1>8
  <2>3. k.putCorrection = "applied" => k.kind = "correct" /\ p = ApplyEnds /\ "correction" \notin r
    BY <2>1, <1>1, <1>9 DEF Corrects, r
  <2>4. QED
    BY <2>1, <2>2, <2>3, <1>6, <1>7, <1>9 DEF Corrects, SameReading
<1>16. Routine(j)
  BY <1>1, <1>5, <1>6, <1>7, <1>11, <1>12, <1>13, <1>14, <1>15 DEF Routine, SameReading
<1>17. Fitting(j)
  <2>1. k.putCorrection = "applied" => p = ApplyEnds /\ p \notin {Noting, Committing}
    BY <1>1, <1>2, <1>9 DEF Routine, Corrects
  <2>2. QED
    BY <2>1, <1>2, <1>6 DEF Fitting, SameReading, r
<1>18. /\ j.event = job[w].event /\ j.todo # Issuing /\ j.todo \notin Appending
       /\ "submission" \in j.wrote => "submission" \in job[w].wrote
  BY <1>6, <1>8, <1>9 DEF k, r, SameReading
<1>19. QED
  BY <1>4, <1>16, <1>17, <1>18, StepKeeps

LEMMA AutopilotStep ==
  ASSUME AttendanceInv, NEW w \in Workers, Autopilot(w)
  PROVE  AttendanceInv'
<1> DEFINE i == [IdleJob EXCEPT !.kind = "autopilot", !.todo = Committing]
           j == Evaluated(w, i, DueRisk(submission, record))
<1>1. job' = [job EXCEPT ![w] = j] /\ UNCHANGED <<session, tables, clock, starts, ghosts>>
  BY DEF Autopilot, Committing
<1>2. Committing \in Seq(Steps) /\ Committing \in Programs("autopilot") /\ Committing \in AllPrograms
  BY ProgramSteps DEF AllPrograms, Programs
<1>3. i \in Job
  BY <1>2, IdleFields, Updated DEF Kinds
<1>4. /\ i.kind = "autopilot" /\ i.todo = Committing /\ i.seenSubmission = "none"
      /\ i.putSubmission = "none" /\ i.putCorrection = "none" /\ i.wrote = {} /\ i.event = NoEvent
      /\ i.latest = NoEvent /\ i.faced = FALSE /\ i.seenRecord = NoRecord
  BY <1>3, IdleFields DEF Job
<1> HIDE DEF i
<1>5. /\ j \in Job /\ SameReading(j, i) /\ j.todo = i.todo /\ j.wrote = i.wrote
      /\ j.seenSubmission = i.seenSubmission
  BY <1>3, DueRiskTyped, EvaluatedTyped
<1> HIDE DEF j
<1>6. /\ Committing \notin LedgerRead \cup Overridden \cup Appending
      /\ Committing \notin {Issuing, Recounting, ApplyAppends, Noting, Verifying, Reviewing,
                            ReviewAppends, ReviewRecords, Refusing, Submitting}
  <2>1. Committing # ApplyCommits /\ Committing # ApplyEnds
    BY ProgramsDiffer
  <2>2. QED
    BY <2>1, Heads DEF LedgerRead, Overridden, Appending
<1>7. /\ j.kind = "autopilot" /\ j.todo = Committing /\ j.seenSubmission = "none"
      /\ j.putSubmission = "none" /\ j.putCorrection = "none" /\ j.wrote = {} /\ j.event = NoEvent
      /\ j.latest = NoEvent /\ j.faced = FALSE /\ j.seenRecord = NoRecord
  BY <1>4, <1>5 DEF SameReading
<1>8. Decides(j)
  BY <1>6, <1>7 DEF Decides, Staff
<1>9. Fresh(j)
  BY <1>2, <1>5, <1>6, <1>7, <1>8 DEF Fresh
<1>10. Routine(j) /\ Fitting(j)
  BY <1>9, FreshFits DEF AttendanceInv
<1>11. j.event.at <= clock'
  BY <1>1, <1>7 DEF AttendanceInv, TablesTyped, NoEvent
<1>12. QuietStep(w, j)
  BY <1>1, <1>6, <1>7, <1>10, <1>11 DEF QuietStep, tables, ghosts
<1>13. QED
  BY <1>12, QuietKeeps

(***************************************************************************)
(* Tokens                                                                  *)
(***************************************************************************)

LEMMA IssuedTokensCounted ==
  ASSUME AttendanceInv
  PROVE  /\ IsFiniteSet(IssuedTokens) /\ Cardinality(IssuedTokens) \in Nat
         /\ IssuedTokens = 1..Cardinality(IssuedTokens)
<1>1. IsFiniteSet(Tokens) /\ IssuedTokens \subseteq Tokens
  BY Constants, FS_Interval DEF Tokens, IssuedTokens
<1>2. QED
  BY <1>1, FS_Subset, FS_CardinalityType DEF AttendanceInv, IssuedInOrder

LEMMA IssueTokenStep ==
  ASSUME AttendanceInv, NEW w \in Workers, IssueToken(w)
  PROVE  AttendanceInv'
<1> DEFINE n == Cardinality(IssuedTokens)
           t == n + 1
<1>1. /\ job[w].todo = Issuing /\ w \in Validating /\ At(w, "issue")
      /\ job \in [Workers -> Job]
  BY AtIssue DEF IssueToken, Validating, AttendanceInv
<1>2. /\ token' = [token EXCEPT ![t].issued = TRUE]
      /\ job' = [job EXCEPT ![w] = IdleJob]
      /\ UNCHANGED <<session, submission, events, record, request, correction, plans, newest, clock,
                     starts, faces, raced, overlapped>>
  BY DEF IssueToken, ghosts
<1>3. n \in Nat /\ IssuedTokens = 1..n
  BY IssuedTokensCounted
<1>4. /\ Cardinality(Validating) \in Nat /\ Cardinality(Validating) # 0
      /\ IsFiniteSet(Validating)
  BY <1>1, SetsOfWorkers, FS_EmptySet
<1>5. n + Cardinality(Validating) <= MaxTokens + Cardinality(Workers) - 1
  BY DEF AttendanceInv, IssuedInOrder
<1>6. t \in Tokens
  BY <1>3, <1>4, <1>5, Constants DEF Tokens
<1>7. /\ token' \in [Tokens -> Token] /\ t \in Tokens
      /\ \A u \in Tokens : /\ token'[u].attempts = token[u].attempts
                           /\ token'[u].consumed = token[u].consumed
                           /\ token'[u].issued = (token[u].issued \/ u = t)
  <2>1. token \in [Tokens -> Token]
    BY DEF AttendanceInv, TablesTyped
  <2> HIDE DEF t
  <2>2. QED
    BY <1>2, <1>6, <2>1 DEF Token
<1>8. IssuedTokens' = 1..t /\ Cardinality(IssuedTokens)' = t
  <2>1. IssuedTokens' = IssuedTokens \cup {t}
    <3> HIDE DEF t
    <3>1. QED
      BY <1>7 DEF IssuedTokens
  <2>2. IssuedTokens' = 1..t
    BY <1>3, <2>1
  <2>3. Cardinality(1..t) = t
    BY <1>3, FS_Interval
  <2>4. QED
    BY <2>2, <2>3
<1>9. \A v \in Workers : job'[v] = IF v = w THEN IdleJob ELSE job[v]
  BY <1>1, <1>2
<1>10. Validating' = Validating \ {w} /\ Cardinality(Validating)' = Cardinality(Validating) - 1
  <2>1. Validating' = Validating \ {w}
    BY <1>9, IdleFields, NotSteps DEF Validating
  <2>2. QED
    BY <2>1, <1>1, <1>4, CardinalityOneLess
<1>11. IssuedInOrder'
  <2>1. t + (Cardinality(Validating) - 1) <= MaxTokens + Cardinality(Workers) - 1
    BY <1>3, <1>4, <1>5, Constants
  <2>2. QED
    BY <2>1, <1>8, <1>10 DEF IssuedInOrder
<1> HIDE DEF t, n
<1>12. TablesTyped'
  BY <1>2, <1>7 DEF AttendanceInv, TablesTyped
<1>13. job' \in [Workers -> Job]
  BY <1>1, <1>2, IdleFields
<1>14. Routine(IdleJob) /\ Fitting(IdleJob)
  BY IdleIsFresh, FreshFits DEF AttendanceInv
<1>15. ASSUME NEW v \in Workers PROVE Routine(job[v])' /\ Fitting(job[v])'
  <2>1. Routine(job'[v]) /\ Fitting(job'[v])
    BY <1>9, <1>14 DEF AttendanceInv
  <2>2. QED
    BY <2>1, <1>2 DEF Routine, ReadsFirst, CountsFirst, Presents, Decides, Corrects, Fitting
<1>16. OneWriter'
  BY <1>9, IdleFields DEF OneWriter, AttendanceInv
<1>17. Clocked'
  <2>1. Appenders' \subseteq Appenders
    BY <1>9, IdleFields, NotSteps DEF Appenders
  <2>2. Cardinality(Appenders)' <= Cardinality(Appenders) /\ Cardinality(Appenders)' \in Nat
    BY <2>1, SetsOfWorkers, FS_Subset, FS_CardinalityType
  <2>3. clock + Cardinality(Appenders)' <= starts + 2
    BY <2>2, SetsOfWorkers DEF AttendanceInv, Clocked, TablesTyped
  <2>4. \A v \in Workers : job'[v].event.at <= clock
    BY <1>9, IdleFields DEF AttendanceInv, Clocked, TablesTyped, NoEvent
  <2>5. QED
    BY <1>2, <2>3, <2>4 DEF AttendanceInv, Clocked
<1>18. HasLatest' /\ FacesCounted' /\ RecordFollowsLedger' /\ CountedAsClaimed'
  BY <1>2, <1>7 DEF AttendanceInv, HasLatest, IsLatest, FacesCounted, RecordFollowsLedger, CountedAsClaimed, TablesTyped
<1>19. QED
  BY <1>11, <1>12, <1>13, <1>15, <1>16, <1>17, <1>18 DEF AttendanceInv

(***************************************************************************)
(* Commit                                                                  *)
(***************************************************************************)

LEMMA CommitReads ==
  ASSUME AttendanceInv, NEW w \in Workers, At(w, "commit")
  PROVE  /\ job[w].todo \notin LedgerRead
         /\ job[w].todo \notin {Counting, Facing, Verifying, Recounting, Noting, ApplySubmits, ApplyAppends}
         /\ job[w].event # NoEvent => "record" \in job[w].wrote
         /\ "record" \in job[w].wrote => job[w].latest \in Event
         /\ job[w].faced => "token" \in job[w].wrote
         /\ "token" \in job[w].wrote => job[w].kind = "mark" /\ job[w].token \in Tokens
                                        /\ job[w].seenAttempts + 1 \in 0..MaxAttempts
<1>1. Routine(job[w]) /\ job[w] \in Job
  BY JobTyped
<1>2. job[w].todo \in {Committing, ApplyCommits, ApplyEnds}
  BY AtCommit
<1>3. Head(job[w].todo) = "commit"
  BY <1>2, Heads
<1>4. /\ job[w].todo \notin LedgerRead
      /\ job[w].todo \notin {Counting, Facing, Verifying, Recounting, Noting, ApplySubmits, ApplyAppends}
  BY <1>3, Heads DEF LedgerRead
<1>5. job[w].event # NoEvent => "record" \in job[w].wrote
  BY <1>1, <1>4 DEF Routine, ReadsFirst
<1>6. "record" \in job[w].wrote => job[w].latest \in Event
  BY <1>1 DEF Routine, ReadsFirst, Job
<1>7. job[w].faced => "token" \in job[w].wrote
  BY <1>1, <1>4 DEF Routine, CountsFirst
<1>8. "token" \in job[w].wrote => job[w].kind = "mark" /\ job[w].token \in Tokens
                                  /\ job[w].seenAttempts < MaxAttempts
  BY <1>1 DEF Routine, CountsFirst
<1>9. job[w].seenAttempts \in 0..MaxAttempts
  BY <1>1 DEF Job
<1>10. QED
  BY <1>4, <1>5, <1>6, <1>7, <1>8, <1>9, Constants

LEMMA CommitSubmission ==
  ASSUME AttendanceInv, NEW w \in Workers, Commit(w)
  PROVE  /\ submission' \in SubmissionStatuses \cup {"none"}
         /\ submission # "none" => submission' # "none"
         /\ "submission" \notin job[w].wrote => submission' = submission
<1>1. "none" \notin SubmissionStatuses /\ submission \in SubmissionStatuses \cup {"none"}
  BY DEF SubmissionStatuses, AttendanceInv, TablesTyped
<1>2. submission' = OwnSubmission(w)
  BY DEF Commit
<1>3. "submission" \notin job[w].wrote => OwnSubmission(w) = submission
  BY DEF OwnSubmission
<1>4. QED
  BY <1>1, <1>2, <1>3, OwnIsDecided

LEMMA CommitEvents ==
  ASSUME AttendanceInv, NEW w \in Workers, Commit(w)
  PROVE  /\ events \subseteq events' /\ events' \subseteq Event
         /\ \A e \in events' : e.at <= clock
         /\ events' = events \/ (events' = events \cup {job[w].event} /\ job[w].event \in Event)
         /\ "record" \notin job[w].wrote => events' = events
         /\ job[w].event # NoEvent => job[w].event \in events'
<1>1. events' = events \cup ({job[w].event} \ {NoEvent}) /\ At(w, "commit")
  BY DEF Commit, OwnEvents
<1>2. job[w].event \in Event \cup {NoEvent} /\ job[w].event.at <= clock
  BY JobTyped DEF Job, AttendanceInv, Clocked
<1>3. events \subseteq Event /\ \A e \in events : e.at <= clock
  BY DEF AttendanceInv, TablesTyped, Clocked
<1>4. "record" \notin job[w].wrote => job[w].event = NoEvent
  BY <1>1, CommitReads
<1>5. CASE job[w].event = NoEvent
  <2>1. events' = events
    BY <1>1, <1>5
  <2>2. QED
    BY <2>1, <1>3, <1>5
<1>6. CASE job[w].event # NoEvent
  <2>1. events' = events \cup {job[w].event} /\ job[w].event \in Event
    BY <1>1, <1>2, <1>6
  <2>2. \A e \in events' : e.at <= clock
    BY <2>1, <1>2, <1>3
  <2>3. QED
    BY <2>1, <2>2, <1>3, <1>4, <1>6
<1>7. QED
  BY <1>5, <1>6

LEMMA CommitRecord ==
  ASSUME AttendanceInv, NEW w \in Workers, Commit(w)
  PROVE  /\ record' \in Record \cup {NoRecord}
         /\ record # NoRecord => record' # NoRecord
         /\ "record" \notin job[w].wrote => record' = record
         /\ "record" \in job[w].wrote /\ ~job[w].stale =>
              /\ IsLatest(job[w].latest, events')
              /\ record' = [status |-> job[w].latest.status, from |-> job[w].latest.at]
<1> DEFINE k == job[w]
           e == k.latest
<1>1. /\ record' = OwnRecord(w) /\ At(w, "commit") /\ events' = OwnEvents(w)
      /\ record \in Record \cup {NoRecord} /\ k \in Job /\ Fitting(k) /\ NoRecord \notin Record
  BY JobTyped, NoEventIsNone DEF Commit, AttendanceInv, TablesTyped
<1>2. CASE "record" \notin k.wrote
  BY <1>1, <1>2 DEF OwnRecord
<1>3. CASE "record" \in k.wrote
  <2>1. record' = ComputedRecord(w)
    BY <1>1, <1>3 DEF OwnRecord
  <2>2. e \in Event /\ e # NoEvent /\ e.status \in Attendance /\ e.at \in 1..MaxStarts + 2
    BY <1>1, <1>3, CommitReads, NoEventIsNone DEF Event
  <2>3. k.seenRecord \in Record \cup {NoRecord}
    BY <1>1 DEF Job
  <2>4. k.seenRecord = NoRecord => e.status # k.seenRecord.status /\ e.at # k.seenRecord.from
    BY <2>2, Constants DEF NoRecord, Attendance
  <2>5. k.seenRecord # NoRecord => record \in Record
    BY <1>1 DEF Fitting
  <2>6. /\ Put(e.status, k.seenRecord.status, record.status) \in Attendance
        /\ Put(e.at, k.seenRecord.from, record.from) \in 1..MaxStarts + 2
    BY <2>2, <2>4, <2>5 DEF Put, Record
  <2>7. ComputedRecord(w) \in Record
    BY <2>6 DEF ComputedRecord, Record
  <2>8. ASSUME ~k.stale
        PROVE  /\ IsLatest(e, events')
               /\ record' = [status |-> e.status, from |-> e.at]
    <3>1. k.seenRecord = record /\ IsLatest(e, events \cup ({k.event} \ {NoEvent}))
      BY <2>8, <2>2, <1>1 DEF Fitting
    <3>2. /\ Put(e.status, k.seenRecord.status, record.status) = e.status
          /\ Put(e.at, k.seenRecord.from, record.from) = e.at
      BY <3>1 DEF Put
    <3>3. ComputedRecord(w) = [status |-> e.status, from |-> e.at]
      BY <3>2 DEF ComputedRecord
    <3>4. IsLatest(e, events')
      BY <3>1, <1>1 DEF OwnEvents
    <3>5. QED
      BY <3>3, <3>4, <2>1
  <2>9. QED
    BY <2>1, <2>7, <2>8, <1>1, <1>3
<1>4. QED
  BY <1>2, <1>3

LEMMA CommitToken ==
  ASSUME AttendanceInv, NEW w \in Workers, Commit(w)
  PROVE  /\ token' \in [Tokens -> Token] /\ IssuedTokens' = IssuedTokens
         /\ \A t \in Tokens : token[t].consumed => token'[t].consumed
         /\ \A t \in Tokens : t # job[w].token \/ "token" \notin job[w].wrote => token'[t] = token[t]
         /\ "token" \in job[w].wrote =>
              /\ token'[job[w].token].attempts = job[w].seenAttempts + 1
              /\ job[w].putSubmission = "verified" => token'[job[w].token].consumed
<1> DEFINE k == job[w]
           u == k.token
<1>1. /\ token \in [Tokens -> Token] /\ At(w, "commit")
      /\ token' = IF "token" \in k.wrote THEN [token EXCEPT ![u] = TokenAfter(w)] ELSE token
  BY DEF Commit, Wrote, AttendanceInv, TablesTyped
<1>2. CASE "token" \notin k.wrote
  BY <1>1, <1>2 DEF IssuedTokens
<1>3. CASE "token" \in k.wrote
  <2>1. u \in Tokens /\ k.seenAttempts + 1 \in 0..MaxAttempts
    BY <1>1, <1>3, CommitReads
  <2>2. /\ TokenAfter(w) \in Token /\ TokenAfter(w).issued = token[u].issued
        /\ TokenAfter(w).attempts = k.seenAttempts + 1
        /\ TokenAfter(w).consumed = (token[u].consumed \/ k.putSubmission = "verified")
    <3>1. token[u] \in Token
      BY <1>1, <2>1
    <3> DEFINE a == k.seenAttempts + 1
               c == token[u].consumed \/ k.putSubmission = "verified"
    <3>2. TokenAfter(w) = [token[u] EXCEPT !.attempts = a, !.consumed = c]
      BY <3>1 DEF TokenAfter, Token
    <3>3. a \in 0..MaxAttempts /\ c \in BOOLEAN
      BY <2>1
    <3> HIDE DEF a, c
    <3>4. QED
      BY <3>1, <3>2, <3>3 DEF Token, a, c
  <2> DEFINE x == TokenAfter(w)
  <2> HIDE DEF x, u, k
  <2>3. token' = [token EXCEPT ![u] = x]
    BY <1>1, <1>3 DEF x
  <2>4. token' \in [Tokens -> Token] /\ token'[u] = x /\ \A t \in Tokens : t # u => token'[t] = token[t]
    BY <2>1, <2>2, <2>3, <1>1 DEF x
  <2>5. \A t \in Tokens : token'[t].issued = token[t].issued
    BY <2>1, <2>2, <2>4 DEF x
  <2>6. IssuedTokens' = IssuedTokens
    BY <2>5 DEF IssuedTokens
  <2>7. QED
    BY <2>1, <2>2, <2>4, <2>6, <1>3 DEF x, u, k
<1>4. QED
  BY <1>2, <1>3

LEMMA CommitTables ==
  ASSUME AttendanceInv, NEW w \in Workers, Commit(w)
  PROVE  TablesTyped'
<1> DEFINE k == job[w]
<1>1. TablesTyped /\ k \in Job /\ At(w, "commit")
  BY JobTyped DEF AttendanceInv, Commit
<1>2. UNCHANGED <<session, clock, starts>>
  BY DEF Commit
<1>3. request' \in RequestStatuses
  BY <1>1 DEF Commit, Put, Job, TablesTyped
<1>4. correction' \in CorrectionStatuses
  BY <1>1 DEF Commit, Job, TablesTyped
<1>5. plans' \in [PlanIds -> Risks \cup {NoRisk}] /\ newest' \in PlanIds
  <2>1. CASE k.plan = 0
    BY <2>1, <1>1 DEF Commit, TablesTyped
  <2>2. CASE k.plan # 0
    <3>1. k.plan \in PlanIds /\ k.putRisk \in Risks \cup {NoRisk} /\ newest' = k.plan
          /\ plans' = [plans EXCEPT ![k.plan] = PlanAfter(w)]
      BY <2>2, <1>1 DEF Job, Commit
    <3>2. PlanAfter(w) \in Risks \cup {NoRisk}
      BY <3>1, <1>1 DEF PlanAfter, Put, TablesTyped
    <3>3. QED
      BY <3>1, <3>2, <1>1 DEF TablesTyped
  <2>3. QED
    BY <2>1, <2>2
<1>6. faces' \in [Tokens -> Nat] /\ raced' \subseteq Tokens
  <2>1. k.faced => k.token \in Tokens
    BY <1>1, CommitReads
  <2>2. Wrote(w, "token") => k.token \in Tokens
    BY <1>1, CommitReads DEF Wrote
  <2>3. faces' \in [Tokens -> Nat]
    BY <2>1, <1>1 DEF Commit, TablesTyped
  <2>4. raced' \subseteq Tokens
    BY <2>2, <1>1 DEF Commit, TablesTyped
  <2>5. QED
    BY <2>3, <2>4
<1>7. overlapped' \in BOOLEAN
  BY <1>1 DEF Commit, Job, TablesTyped
<1>8. QED
  BY <1>1, <1>2, <1>3, <1>4, <1>5, <1>6, <1>7, CommitSubmission, CommitEvents, CommitRecord, CommitToken
     DEF TablesTyped

\* The transactions of the other threads still fit the tables: who has read the record
\* that is written now is told so by the stale flag.
LEMMA OthersFit ==
  ASSUME AttendanceInv, NEW w \in Workers, Commit(w), NEW v \in Workers \ {w},
         NEW j, j = [job[v] EXCEPT !.stale = @ \/ (Wrote(w, "record") /\ job[v].latest # NoEvent)]
  PROVE  /\ j \in Job /\ j.todo = job[v].todo /\ j.wrote = job[v].wrote /\ j.event = job[v].event
         /\ Routine(j) /\ Fitting(j)'
<1> DEFINE k == job[v]
           s == k.stale \/ ("record" \in job[w].wrote /\ k.latest # NoEvent)
<1>1. k \in Job /\ Routine(k) /\ Fitting(k) /\ s \in BOOLEAN
  BY JobTyped DEF Job
<1>2. j = [k EXCEPT !.stale = s]
  BY <1>1 DEF Wrote, Job
<1>20. s => k.stale \/ ("record" \in job[w].wrote /\ k.latest # NoEvent)
  OBVIOUS
<1>21. ~s /\ k.latest # NoEvent => ~k.stale /\ "record" \notin job[w].wrote
  OBVIOUS
<1>22. "submission" \in k.wrote => "submission" \notin job[w].wrote
  BY DEF AttendanceInv, OneWriter
<1> HIDE DEF s, k
<1>3. j \in Job
  BY <1>1, <1>2, Updated
<1>4. /\ j.kind = k.kind /\ j.todo = k.todo /\ j.wrote = k.wrote /\ j.token = k.token
      /\ j.seenAttempts = k.seenAttempts /\ j.faced = k.faced
      /\ j.seenSubmission = k.seenSubmission /\ j.putSubmission = k.putSubmission
      /\ j.putCorrection = k.putCorrection /\ j.status = k.status /\ j.event = k.event
      /\ j.latest = k.latest /\ j.seenRecord = k.seenRecord /\ j.stale = s
  BY <1>1, <1>2 DEF Job
<1>5. Routine(j)
  BY <1>1, <1>3, <1>4 DEF Routine, ReadsFirst, CountsFirst, Presents, Decides, Corrects
<1>6. /\ submission # "none" => submission' # "none"
      /\ "submission" \notin job[w].wrote => submission' = submission
      /\ events \subseteq events'
      /\ record # NoRecord => record' # NoRecord
      /\ "record" \notin job[w].wrote => events' = events /\ record' = record
  BY CommitSubmission, CommitEvents, CommitRecord
<1>7. /\ k.seenSubmission # "none" => submission' # "none"
      /\ "submission" \in k.wrote /\ k.seenSubmission = "none" => submission' = "none"
  BY <1>1, <1>6, <1>22 DEF Fitting
<1>8. k.seenRecord # NoRecord => record' # NoRecord
  BY <1>1, <1>6 DEF Fitting
<1>9. k.latest # NoEvent /\ ~s =>
        k.seenRecord = record' /\ IsLatest(k.latest, events' \cup ({k.event} \ {NoEvent}))
  BY <1>1, <1>6, <1>21 DEF Fitting
<1>10. k.putCorrection = "applied" /\ k.todo \in {Noting, Committing} =>
         \E e \in events' : e.by = "correction"
  BY <1>1, <1>6 DEF Fitting
<1>11. Fitting(j)'
  BY <1>4, <1>7, <1>8, <1>9, <1>10 DEF Fitting
<1>12. QED
  BY <1>3, <1>4, <1>5, <1>11 DEF k

\* What a thread goes on with after a commit: nothing, or the next transaction of a
\* correction.
LEMMA NextFits ==
  ASSUME AttendanceInv, NEW w \in Workers, Commit(w), NEW n, n = NextTransaction(w)
  PROVE  /\ n \in Job /\ n.wrote = {} /\ n.event = NoEvent /\ n.todo # Issuing
         /\ n.todo \in Appending => job[w].todo \in Appending
         /\ Routine(n) /\ Fitting(n)'
<1> DEFINE k == job[w]
<1>1. /\ \/ k.todo = Committing
         \/ k.todo \in {ApplyCommits, ApplyEnds} /\ k.kind = "correct"
      /\ k \in Job /\ Routine(k) /\ Fitting(k)
      /\ Tail(Committing) = <<>> /\ Tail(ApplyCommits) = ApplySubmits /\ Tail(ApplyEnds) = Noting
      /\ Noting # <<>> /\ ApplySubmits # <<>>
  <2>1. At(w, "commit")
    BY DEF Commit
  <2>2. Noting # <<>> /\ ApplySubmits # <<>>
    BY ProgramsNotEmpty DEF AllPrograms
  <2>3. QED
    BY <2>1, <2>2, AtCommit, JobTyped, Steppings
<1>2. CASE k.todo = Committing
  <2>1. n = IdleJob
    BY <1>1, <1>2 DEF NextTransaction
  <2>2. Routine(IdleJob)
    BY IdleIsFresh, FreshFits DEF AttendanceInv
  <2>3. Fitting(n)'
    BY <2>1, IdleFields DEF Fitting
  <2>4. QED
    BY <2>1, <2>2, <2>3, IdleFields, NotSteps
<1>3. CASE k.todo \in {ApplyCommits, ApplyEnds} /\ k.kind = "correct"
  <2> DEFINE p == Tail(k.todo)
             q == k.putSubmission
  <2>1. /\ p \in {ApplySubmits, Noting} /\ p # <<>> /\ p \in Seq(Steps)
        /\ p = ApplySubmits => k.todo = ApplyCommits
        /\ p = Noting => k.todo = ApplyEnds
    <3>1. ApplySubmits # Noting
      BY Heads
    <3>2. ApplySubmits \in Seq(Steps) /\ Noting \in Seq(Steps)
      BY ProgramSteps DEF AllPrograms
    <3>3. QED
      BY <3>1, <3>2, <1>1, <1>3
  <2>2. submission \in SubmissionStatuses \cup {"none"} /\ q \in SubmissionStatuses \cup {"none"}
    BY <1>1 DEF AttendanceInv, TablesTyped, Job
  <2>3. n = [IdleJob EXCEPT !.kind = "correct", !.todo = p, !.seenSubmission = submission,
                            !.putSubmission = q, !.putCorrection = "applied"]
    BY <1>3, <2>1 DEF NextTransaction
  <2>4. k.todo = ApplyCommits => q # "none"
    BY <1>1, <1>3 DEF Routine, Decides, Overriding
  <2>5. k.todo = ApplyEnds => \E e \in events' : e.by = "correction"
    <3>1. ASSUME k.todo = ApplyEnds PROVE k.event # NoEvent /\ k.event.by = "correction"
      BY <3>1, <1>1, <1>3 DEF Routine, Corrects, Overridden
    <3>2. k.event # NoEvent => k.event \in events'
      BY CommitEvents
    <3>3. QED
      BY <3>1, <3>2
  <2> HIDE DEF p, q, k
  <2>6. n \in Job
    <3>1. [IdleJob EXCEPT !.kind = "correct", !.todo = p, !.seenSubmission = submission] \in Job
      BY <2>1, <2>2, IdleFields, Updated DEF Kinds
    <3> DEFINE i == [IdleJob EXCEPT !.kind = "correct", !.todo = p, !.seenSubmission = submission]
    <3>2. n = [i EXCEPT !.putSubmission = q, !.putCorrection = "applied"]
      BY <2>3
    <3>3. i \in Job
      BY <3>1
    <3> HIDE DEF i
    <3>4. [i EXCEPT !.putSubmission = q] \in Job
      BY <2>2, <3>3, Updated
    <3> DEFINE h == [i EXCEPT !.putSubmission = q]
    <3>5. h \in Job /\ n = [h EXCEPT !.putCorrection = "applied"]
      BY <3>2, <3>4
    <3> HIDE DEF h
    <3>6. QED
      BY <3>5, Updated DEF CorrectionStatuses
  <2>7. /\ n.kind = "correct" /\ n.todo = p /\ n.seenSubmission = submission /\ n.putSubmission = q
        /\ n.putCorrection = "applied" /\ n.wrote = {} /\ n.event = NoEvent /\ n.latest = NoEvent
        /\ n.faced = FALSE /\ n.seenRecord = NoRecord /\ n.token = NoToken
    BY <2>3, <2>6, IdleFields DEF Job
  <2>8. /\ p \notin LedgerRead \cup Overridden
        /\ p \notin {Issuing, Counting, Facing, Recounting, ApplyAppends, Verifying, Reviewing, ReviewAppends}
        /\ ApplySubmits # Committing /\ Noting # Committing /\ ApplySubmits # Noting
        /\ p \in Programs("correct") /\ Noting \notin Overriding /\ Noting \notin Appending
        /\ ApplyCommits \in Appending
    <3>1. /\ ApplySubmits \notin LedgerRead \cup Overridden
          /\ Noting \notin LedgerRead \cup Overridden
      BY Heads DEF LedgerRead, Overridden
    <3>2. /\ ApplySubmits \notin {Issuing, Counting, Facing, Recounting, ApplyAppends, Verifying,
                                  Reviewing, ReviewAppends, Committing, Noting}
      BY Heads, ProgramsDiffer
    <3>3. /\ Noting \notin {Issuing, Counting, Facing, Recounting, ApplyAppends, Verifying,
                            Reviewing, ReviewAppends, Committing}
      BY Heads
    <3>4. Noting # Applying /\ Noting # ApplyNotes
      BY ProgramsDiffer
    <3>5. Noting \notin Overriding /\ Noting \notin Appending
      BY <3>4, Heads DEF Overriding, Appending
    <3>6. ApplySubmits \in Programs("correct") /\ Noting \in Programs("correct") /\ ApplyCommits \in Appending
      BY DEF Programs, Overriding, Appending
    <3>7. QED
      BY <3>1, <3>2, <3>3, <3>5, <3>6, <2>1
  <2>9. ReadsFirst(n) /\ CountsFirst(n)
    BY <2>7, <2>8 DEF ReadsFirst, CountsFirst
  <2>91. Presents(n)
    <3>1. q # "verified"
      BY <1>1, <1>3 DEF Routine, Presents, q
    <3>2. QED
      BY <3>1, <2>7 DEF Presents
  <2>10. Decides(n)
    BY <2>1, <2>4, <2>7, <2>8 DEF Decides
  <2>11. Corrects(n)
    BY <2>1, <2>7, <2>8 DEF Corrects
  <2>12. Routine(n)
    BY <2>6, <2>7, <2>8, <2>9, <2>91, <2>10, <2>11 DEF Routine
  <2>13. submission # "none" => submission' # "none"
    BY CommitSubmission
  <2>14. Fitting(n)'
    BY <2>1, <2>5, <2>7, <2>8, <2>13 DEF Fitting
  <2>15. n.todo # Issuing /\ (n.todo \in Appending => k.todo \in Appending)
    BY <2>1, <2>7, <2>8
  <2>16. QED
    BY <2>6, <2>7, <2>12, <2>14, <2>15 DEF k
<1>4. QED
  BY <1>1, <1>2, <1>3

LEMMA CommitJobs ==
  ASSUME AttendanceInv, NEW w \in Workers, Commit(w)
  PROVE  /\ job' \in [Workers -> Job]
         /\ \A v \in Workers : Routine(job[v])' /\ Fitting(job[v])'
         /\ OneWriter' /\ Clocked' /\ Validating' \subseteq Validating
<1>1. job' = [v \in Workers |->
               IF v = w THEN NextTransaction(w)
               ELSE [job[v] EXCEPT !.stale = @ \/ (Wrote(w, "record") /\ job[v].latest # NoEvent)]]
  BY DEF Commit
<1>2. PICK n : n = NextTransaction(w)
  OBVIOUS
<1>3. /\ n \in Job /\ n.wrote = {} /\ n.event = NoEvent /\ n.todo # Issuing
      /\ n.todo \in Appending => job[w].todo \in Appending
      /\ Routine(n) /\ Fitting(n)'
  BY <1>2, NextFits
<1>4. job'[w] = n
  BY <1>1, <1>2
<1>5. ASSUME NEW v \in Workers \ {w}
      PROVE  /\ job'[v] \in Job /\ job'[v].todo = job[v].todo /\ job'[v].wrote = job[v].wrote
             /\ job'[v].event = job[v].event
             /\ Routine(job[v])' /\ Fitting(job[v])'
  <2>1. PICK j : j = [job[v] EXCEPT !.stale = @ \/ (Wrote(w, "record") /\ job[v].latest # NoEvent)]
    OBVIOUS
  <2>2. job'[v] = j
    BY <1>1, <2>1
  <2>3. /\ j \in Job /\ j.todo = job[v].todo /\ j.wrote = job[v].wrote /\ j.event = job[v].event
        /\ Routine(j) /\ Fitting(j)'
    BY <2>1, OthersFit
  <2>4. Routine(job[v])'
    BY <2>2, <2>3 DEF Routine, ReadsFirst, CountsFirst, Presents, Decides, Corrects
  <2>5. Fitting(job[v])'
    BY <2>2, <2>3 DEF Fitting
  <2>6. QED
    BY <2>2, <2>3, <2>4, <2>5
<1>6. Routine(job[w])' /\ Fitting(job[w])'
  <2>1. Routine(job[w])'
    BY <1>3, <1>4 DEF Routine, ReadsFirst, CountsFirst, Presents, Decides, Corrects
  <2>2. Fitting(job[w])'
    BY <1>3, <1>4 DEF Fitting
  <2>3. QED
    BY <2>1, <2>2
<1>7. job' \in [Workers -> Job]
  <2>1. \A v \in Workers : job'[v] \in Job
    BY <1>3, <1>4, <1>5
  <2>2. QED
    BY <1>1, <2>1
<1>8. \A v \in Workers : Routine(job[v])' /\ Fitting(job[v])'
  BY <1>5, <1>6
<1>9. OneWriter'
  BY <1>3, <1>4, <1>5 DEF AttendanceInv, OneWriter
<1>10. Validating' \subseteq Validating /\ Appenders' \subseteq Appenders
  BY <1>3, <1>4, <1>5 DEF Validating, Appenders
<1>11. Clocked'
  <2>1. Cardinality(Appenders)' <= Cardinality(Appenders) /\ Cardinality(Appenders)' \in Nat
    BY <1>10, SetsOfWorkers, FS_Subset, FS_CardinalityType
  <2>2. clock + Cardinality(Appenders)' <= starts + 2 /\ clock \in Nat
    BY <2>1, SetsOfWorkers DEF AttendanceInv, Clocked, TablesTyped
  <2>3. \A v \in Workers : job'[v].event.at <= clock
    BY <2>2, <1>3, <1>4, <1>5 DEF AttendanceInv, Clocked, NoEvent
  <2>4. \A e \in events' : e.at <= clock
    BY CommitEvents
  <2>5. clock' = clock /\ starts' = starts
    BY DEF Commit
  <2>6. QED
    BY <2>2, <2>3, <2>4, <2>5 DEF Clocked
<1>12. QED
  BY <1>7, <1>8, <1>9, <1>10, <1>11

LEMMA CommitHasLatest ==
  ASSUME AttendanceInv, NEW w \in Workers, Commit(w)
  PROVE  HasLatest'
<1> DEFINE x == job[w].event
<1>1. /\ events \subseteq Event /\ \A e \in Event : e.at \in Nat
      /\ events # {} => \E e \in events : IsLatest(e, events)
  BY Constants DEF AttendanceInv, TablesTyped, HasLatest, Event
<1>2. events' = events \/ (events' = events \cup {x} /\ x \in Event)
  BY CommitEvents
<1> HIDE DEF x
<1>3. CASE events' = events
  BY <1>1, <1>3 DEF HasLatest, IsLatest
<1>4. CASE events' = events \cup {x} /\ x \in Event
  <2>1. CASE events = {}
    <3>1. x \in events' /\ \A f \in events' : f.at <= x.at
      BY <1>1, <1>4, <2>1
    <3>2. QED
      BY <3>1 DEF HasLatest, IsLatest
  <2>2. CASE events # {}
    <3>1. PICK e \in events : IsLatest(e, events)
      BY <1>1, <2>2
    <3>2. e \in Event /\ e.at \in Nat /\ x.at \in Nat /\ \A f \in events : f.at \in Nat /\ f.at <= e.at
      BY <1>1, <1>4, <3>1 DEF IsLatest
    <3>3. CASE x.at <= e.at
      <4>1. e \in events' /\ \A f \in events' : f.at <= e.at
        BY <1>4, <3>2, <3>3
      <4>2. QED
        BY <4>1 DEF HasLatest, IsLatest
    <3>4. CASE ~(x.at <= e.at)
      <4>1. x \in events' /\ \A f \in events' : f.at <= x.at
        BY <1>4, <3>2, <3>4
      <4>2. QED
        BY <4>1 DEF HasLatest, IsLatest
    <3>5. QED
      BY <3>3, <3>4
  <2>3. QED
    BY <2>1, <2>2
<1>5. QED
  BY <1>2, <1>3, <1>4

LEMMA CommitFaces ==
  ASSUME AttendanceInv, NEW w \in Workers, Commit(w)
  PROVE  FacesCounted'
<1> DEFINE k == job[w]
           u == k.token
<1>1. /\ faces' = IF k.faced THEN [faces EXCEPT ![u] = @ + 1] ELSE faces
      /\ raced' = IF "token" \in k.wrote /\ token[u].attempts # k.seenAttempts
                  THEN raced \cup {u} ELSE raced
      /\ faces \in [Tokens -> Nat] /\ token \in [Tokens -> Token] /\ token' \in [Tokens -> Token]
      /\ At(w, "commit")
  BY CommitToken DEF Commit, Wrote, AttendanceInv, TablesTyped
<1>2. k.faced => "token" \in k.wrote
  BY <1>1, CommitReads
<1>3. SUFFICES ASSUME NEW t \in Tokens, t \notin raced' PROVE faces'[t] <= token'[t].attempts
  BY DEF FacesCounted
<1>4. faces[t] <= token[t].attempts /\ faces[t] \in Nat /\ token[t].attempts \in Nat
  <2>1. t \notin raced
    BY <1>1, <1>3
  <2>2. QED
    BY <2>1, <1>1, Constants DEF AttendanceInv, FacesCounted, Token
<1>5. CASE "token" \in k.wrote /\ t = u
  <2>1. k.seenAttempts = token[t].attempts
    BY <1>1, <1>3, <1>5
  <2>2. token'[t].attempts = token[t].attempts + 1
    BY <2>1, <1>5, CommitToken
  <2>3. faces'[t] \in {faces[t], faces[t] + 1}
    BY <1>1, <1>5
  <2> HIDE DEF k, u
  <2>4. QED
    BY <2>2, <2>3, <1>4
<1>6. CASE ~("token" \in k.wrote /\ t = u)
  <2>1. token'[t] = token[t]
    BY <1>6, CommitToken
  <2>2. faces'[t] = faces[t]
    BY <1>1, <1>2, <1>6
  <2>3. QED
    BY <2>1, <2>2, <1>4
<1>7. QED
  BY <1>5, <1>6

LEMMA CommitFollows ==
  ASSUME AttendanceInv, NEW w \in Workers, Commit(w)
  PROVE  RecordFollowsLedger'
<1> DEFINE e == job[w].latest
<1>1. overlapped' = IF "record" \in job[w].wrote THEN job[w].stale ELSE overlapped
  BY DEF Commit, Wrote
<1>2. CASE "record" \notin job[w].wrote
  <2>1. overlapped' = overlapped /\ events' = events /\ record' = record
    BY <1>1, <1>2, CommitEvents, CommitRecord
  <2>2. QED
    BY <2>1 DEF RecordFollowsLedger, AttendanceInv
<1>3. CASE "record" \in job[w].wrote
  <2>1. SUFFICES ASSUME ~job[w].stale
                 PROVE  \E x \in events' : /\ \A f \in events' : f.at <= x.at
                                           /\ record' = [status |-> x.status, from |-> x.at]
    BY <1>1, <1>3 DEF RecordFollowsLedger
  <2>2. IsLatest(e, events') /\ record' = [status |-> e.status, from |-> e.at]
    BY <2>1, <1>3, CommitRecord
  <2>3. QED
    BY <2>2 DEF IsLatest
<1>4. QED
  BY <1>2, <1>3

LEMMA CommitClaims ==
  ASSUME AttendanceInv, NEW w \in Workers, Commit(w)
  PROVE  CountedAsClaimed'
<1> DEFINE k == job[w]
<1>1. /\ At(w, "commit") /\ Routine(k) /\ Fitting(k) /\ CountedAsClaimed
  BY JobTyped DEF Commit, AttendanceInv
<1>2. /\ events \subseteq events' /\ (k.event # NoEvent => k.event \in events')
      /\ \A t \in Tokens : token[t].consumed => token'[t].consumed
  BY CommitEvents, CommitToken
<1>3. ASSUME submission' = "verified"
      PROVE  /\ \E t \in Tokens : token'[t].consumed
             /\ \E e \in events' : e.status = "present"
  <2>1. submission = "verified" \/ ("submission" \in k.wrote /\ k.putSubmission = "verified")
    BY <1>3 DEF Commit, OwnSubmission, Put
  <2>2. CASE submission = "verified"
    BY <2>2, <1>1, <1>2 DEF CountedAsClaimed
  <2>3. CASE k.putSubmission = "verified"
    <3>1. k.todo \notin {Counting, Facing, Verifying, Recounting}
      BY <1>1, CommitReads
    <3>2. k.kind = "mark" /\ k.event # NoEvent /\ k.event.status = "present"
      BY <2>3, <3>1, <1>1 DEF Routine, Presents
    <3>3. "token" \in k.wrote /\ k.token \in Tokens
      BY <3>1, <3>2, <1>1 DEF Routine, CountsFirst
    <3>4. token'[k.token].consumed
      BY <2>3, <3>3, CommitToken
    <3>5. QED
      BY <3>2, <3>3, <3>4, <1>2
  <2>4. QED
    BY <2>1, <2>2, <2>3
<1>4. ASSUME correction' = "applied"
      PROVE  \E e \in events' : e.by = "correction"
  <2>1. correction = "applied" \/ ("correction" \in k.wrote /\ k.putCorrection = "applied")
    BY <1>4 DEF Commit, Wrote
  <2>2. CASE correction = "applied"
    BY <2>2, <1>1, <1>2 DEF CountedAsClaimed
  <2>3. CASE "correction" \in k.wrote /\ k.putCorrection = "applied"
    <3>1. k.todo \in {Noting, Committing}
      BY <2>3, <1>1 DEF Routine, Corrects
    <3>2. \E e \in events : e.by = "correction"
      BY <2>3, <3>1, <1>1 DEF Fitting
    <3>3. QED
      BY <3>2, <1>2
  <2>4. QED
    BY <2>1, <2>2, <2>3
<1>5. QED
  BY <1>3, <1>4 DEF CountedAsClaimed

LEMMA CommitStep ==
  ASSUME AttendanceInv, NEW w \in Workers, Commit(w)
  PROVE  AttendanceInv'
<1>1. IssuedInOrder'
  <2>1. IssuedTokens' = IssuedTokens /\ Validating' \subseteq Validating
    BY CommitToken, CommitJobs
  <2>2. Cardinality(Validating)' <= Cardinality(Validating) /\ Cardinality(Validating)' \in Nat
    BY <2>1, SetsOfWorkers, FS_Subset, FS_CardinalityType
  <2>3. Cardinality(IssuedTokens) + Cardinality(Validating)' <= MaxTokens + Cardinality(Workers) - 1
    BY <2>2, SetsOfWorkers, IssuedTokensCounted, Constants DEF AttendanceInv, IssuedInOrder
  <2>4. QED
    BY <2>1, <2>3, IssuedTokensCounted DEF IssuedInOrder
<1>2. QED
  BY <1>1, CommitTables, CommitJobs, CommitHasLatest, CommitFaces, CommitFollows, CommitClaims
     DEF AttendanceInv

(***************************************************************************)
(* The invariant holds                                                     *)
(***************************************************************************)

LEMMA InitTables ==
  ASSUME AttendanceInit
  PROVE  /\ TablesTyped /\ clock <= 2 /\ \A e \in events : e.at <= clock
         /\ HasLatest /\ RecordFollowsLedger /\ CountedAsClaimed
         /\ IssuedTokens \in {{}, {1}}
<1>1. Absence \in Event /\ Presence \in Event /\ Absence # Presence
      /\ Absence.at = 1 /\ Presence.at = 2 /\ Absence.status = "absent"
  BY Constants DEF Absence, Presence, Event, Attendance
<1>2. Cardinality({}) = 0 /\ Cardinality({Absence}) = 1 /\ Cardinality({Absence, Presence}) = 2
  <2>1. Cardinality({}) = 0 /\ Cardinality({Absence}) = 1 /\ IsFiniteSet({Absence})
    BY FS_EmptySet, FS_Singleton
  <2>2. Cardinality({Absence} \cup {Presence}) = 2
    <3>1. Presence \notin {Absence}
      BY <1>1
    <3>2. Cardinality({Absence} \cup {Presence}) = Cardinality({Absence}) + 1
      BY <2>1, <3>1, FS_AddElement
    <3>3. QED
      BY <2>1, <3>2
  <2>3. {Absence, Presence} = {Absence} \cup {Presence}
    OBVIOUS
  <2>4. QED
    BY <2>1, <2>2, <2>3
<1>3. PICK past \in Pasts :
       /\ session = IF past \in {"code", "old", "refused"} THEN "open" ELSE "none"
       /\ token = [t \in Tokens |->
                     [NoTokenRow EXCEPT !.issued = session = "open" /\ t = 1]]
       /\ submission = CASE past = "old" -> "pending" [] past = "refused" -> "rejected"
                         [] OTHER -> "none"
       /\ events = CASE past = "refused" -> {Absence}
                     [] past = "behind" -> {Absence, Presence} [] OTHER -> {}
       /\ record = IF events # {} THEN [status |-> "absent", from |-> 1] ELSE NoRecord
       /\ overlapped = (past = "behind")
       /\ clock = Cardinality(events)
       /\ request = IF past = "refused" THEN "pending" ELSE "none"
       /\ correction = IF past = "correction" THEN "pending" ELSE "none"
  BY DEF AttendanceInit
<1>4. /\ events \in {{}, {Absence}, {Absence, Presence}}
      /\ events = {Absence, Presence} => overlapped
      /\ submission \in {"none", "pending", "rejected"} /\ correction \in {"none", "pending"}
  <2>1. CASE past = "refused"
    BY <2>1, <1>1, <1>3
  <2>2. CASE past = "behind"
    BY <2>2, <1>3
  <2>3. CASE past \notin {"refused", "behind"}
    <3>1. events = {}
      BY <2>3, <1>3
    <3>2. submission \in {"none", "pending", "rejected"} /\ correction \in {"none", "pending"}
      BY <1>3
    <3>3. QED
      BY <3>1, <3>2
  <2>4. QED
    BY <2>1, <2>2, <2>3
<1>5. clock \in Nat /\ clock <= 2 /\ \A e \in events : e.at <= clock
  BY <1>1, <1>2, <1>3, <1>4, SMTT(60)
<1>6. HasLatest
  <2>1. events = {Absence} => IsLatest(Absence, events)
    BY <1>1 DEF IsLatest
  <2>2. events = {Absence, Presence} => IsLatest(Presence, events)
    BY <1>1 DEF IsLatest
  <2>3. QED
    BY <2>1, <2>2, <1>4 DEF HasLatest
<1>7. RecordFollowsLedger
  <2>1. SUFFICES ASSUME ~overlapped, events # {}
                 PROVE  \E e \in events : /\ \A f \in events : f.at <= e.at
                                          /\ record = [status |-> e.status, from |-> e.at]
    BY DEF RecordFollowsLedger
  <2>2. events = {Absence} /\ record = [status |-> "absent", from |-> 1]
    BY <2>1, <1>3, <1>4
  <2>3. QED
    BY <2>2, <1>1
<1>8. CountedAsClaimed
  BY <1>4 DEF CountedAsClaimed
<1>9. token \in [Tokens -> Token] /\ IssuedTokens \in {{}, {1}}
  <2>1. \A t \in Tokens : /\ token[t] = [NoTokenRow EXCEPT !.issued = session = "open" /\ t = 1]
                          /\ token[t].issued = (session = "open" /\ t = 1)
    BY <1>3 DEF NoTokenRow
  <2>2. \A t \in Tokens : token[t] \in Token
    <3>1. NoTokenRow \in Token
      BY Constants DEF Token, NoTokenRow
    <3>2. \A b \in BOOLEAN : [NoTokenRow EXCEPT !.issued = b] \in Token
      BY <3>1 DEF Token
    <3>3. QED
      BY <2>1, <3>2
  <2>3. 1 \in Tokens
    BY Constants DEF Tokens
  <2>4. IssuedTokens = IF session = "open" THEN {1} ELSE {}
    BY <2>1, <2>3, ZenonT(60) DEF IssuedTokens
  <2>5. QED
    BY <2>2, <2>4, <1>3
<1>10. record \in Record \cup {NoRecord}
  BY <1>3, Constants DEF Record, Attendance
<1>11. /\ plans \in [PlanIds -> Risks \cup {NoRisk}] /\ newest \in PlanIds
       /\ starts \in 0..MaxStarts /\ faces \in [Tokens -> Nat] /\ raced \subseteq Tokens
  BY Constants DEF AttendanceInit, PlanIds
<1>12. TablesTyped
  <2>1. events \subseteq Event
    BY <1>1, <1>4
  <2>2. session \in {"none", "open", "over"} /\ overlapped \in BOOLEAN
        /\ request \in RequestStatuses /\ correction \in CorrectionStatuses
        /\ submission \in SubmissionStatuses \cup {"none"}
    BY <1>3, <1>4 DEF RequestStatuses, CorrectionStatuses, SubmissionStatuses
  <2>3. QED
    BY <2>1, <2>2, <1>5, <1>9, <1>10, <1>11 DEF TablesTyped
<1>13. QED
  BY <1>5, <1>6, <1>7, <1>8, <1>9, <1>12

LEMMA InitHolds ==
  ASSUME AttendanceInit
  PROVE  AttendanceInv
<1>1. /\ TablesTyped /\ clock <= 2 /\ (\A e \in events : e.at <= clock)
      /\ HasLatest /\ RecordFollowsLedger /\ CountedAsClaimed /\ IssuedTokens \in {{}, {1}}
  BY InitTables
<1>2. job = [v \in Workers |-> IdleJob] /\ starts = 0 /\ clock \in Nat
  BY <1>1 DEF AttendanceInit, TablesTyped
<1>3. job \in [Workers -> Job] /\ \A v \in Workers : job[v] = IdleJob
  BY <1>2, IdleFields
<1>4. \A v \in Workers : Routine(job[v]) /\ Fitting(job[v])
  BY <1>1, <1>3, IdleIsFresh, FreshFits
<1>5. OneWriter
  BY <1>3, IdleFields DEF OneWriter
<1>6. Appenders = {} /\ Validating = {} /\ Cardinality({}) = 0
  BY <1>3, IdleFields, NotSteps, FS_EmptySet DEF Appenders, Validating
<1>7. Clocked
  BY <1>1, <1>2, <1>3, <1>6, IdleFields DEF Clocked, NoEvent
<1>8. IssuedInOrder
  <2>1. IssuedTokens = 1..Cardinality(IssuedTokens) /\ Cardinality(IssuedTokens) \in 0..1
    <3>1. Cardinality({}) = 0 /\ Cardinality({1}) = 1
      BY FS_EmptySet, FS_Singleton
    <3>2. 1..0 = {} /\ 1..1 = {1}
      OBVIOUS
    <3>3. CASE IssuedTokens = {}
      BY <3>1, <3>2, <3>3
    <3>4. CASE IssuedTokens = {1}
      <4>1. Cardinality(IssuedTokens) = 1
        BY <3>1, <3>4
      <4>2. QED
        BY <3>2, <3>4, <4>1
    <3>5. QED
      BY <1>1, <3>3, <3>4
  <2>2. QED
    BY <2>1, <1>6, Constants DEF IssuedInOrder
<1>9. FacesCounted
  BY <1>1, Constants DEF AttendanceInit, FacesCounted, TablesTyped, Token
<1>10. QED
  BY <1>1, <1>3, <1>4, <1>5, <1>7, <1>8, <1>9 DEF AttendanceInv

\* Opening the session and the end of its window touch nothing of the rest.
LEMMA WindowKeeps ==
  ASSUME AttendanceInv, OpenSession \/ CloseWindow
  PROVE  AttendanceInv'
<1>1. /\ session' \in {"open", "over"} /\ UNCHANGED <<tables, job, clock, starts, ghosts>>
  BY DEF OpenSession, CloseWindow
<1>2. UNCHANGED <<token, submission, events, record, request, correction, plans, newest, job, clock,
                  starts, faces, raced, overlapped>>
  BY <1>1 DEF tables, ghosts
<1>3. TablesTyped'
  BY <1>1, <1>2 DEF AttendanceInv, TablesTyped
<1>4. \A v \in Workers : Routine(job[v])' /\ Fitting(job[v])'
  BY <1>2 DEF AttendanceInv, Routine, ReadsFirst, CountsFirst, Presents, Decides, Corrects, Fitting, IsLatest
<1>5. OneWriter' /\ Clocked' /\ HasLatest' /\ IssuedInOrder'
  BY <1>2 DEF AttendanceInv, OneWriter, Clocked, Appenders, HasLatest, IsLatest, IssuedInOrder, IssuedTokens, Validating
<1>6. FacesCounted' /\ RecordFollowsLedger' /\ CountedAsClaimed' /\ (job \in [Workers -> Job])'
  BY <1>2 DEF AttendanceInv, FacesCounted, RecordFollowsLedger, CountedAsClaimed
<1>7. QED
  BY <1>3, <1>4, <1>5, <1>6 DEF AttendanceInv

LEMMA StutterKeeps ==
  ASSUME AttendanceInv, UNCHANGED vars
  PROVE  AttendanceInv'
<1>1. UNCHANGED <<session, token, submission, events, record, request, correction, plans, newest, job,
                  clock, starts, faces, raced, overlapped>>
  BY DEF vars, tables, ghosts
<1>2. TablesTyped' /\ (job \in [Workers -> Job])'
  BY <1>1 DEF AttendanceInv, TablesTyped
<1>3. \A v \in Workers : Routine(job[v])' /\ Fitting(job[v])'
  BY <1>1 DEF AttendanceInv, Routine, ReadsFirst, CountsFirst, Presents, Decides, Corrects, Fitting, IsLatest
<1>4. OneWriter' /\ Clocked' /\ HasLatest' /\ IssuedInOrder'
  BY <1>1 DEF AttendanceInv, OneWriter, Clocked, Appenders, HasLatest, IsLatest, IssuedInOrder, IssuedTokens, Validating
<1>5. FacesCounted' /\ RecordFollowsLedger' /\ CountedAsClaimed'
  BY <1>1 DEF AttendanceInv, FacesCounted, RecordFollowsLedger, CountedAsClaimed
<1>6. QED
  BY <1>2, <1>3, <1>4, <1>5 DEF AttendanceInv

LEMMA NextKeeps ==
  ASSUME AttendanceInv, AttendanceNext
  PROVE  AttendanceInv'
<1>1. CASE CloseWindow \/ OpenSession
  BY <1>1, WindowKeeps
<1>2. ASSUME NEW w \in Workers, Handler(w) PROVE AttendanceInv'
  BY <1>2, ValidateCodeBegins, RejectAtGateBegins, MarkAttendanceBegins, RequestRectificationBegins,
     ApproveRectificationBegins, RejectRectificationBegins, ReviewSubmissionBegins, MarkBulkBegins,
     OverrideAttendanceBegins, CreateCorrectionBegins, ReviewCorrectionBegins, RecomputeRecordBegins
     DEF Handler
<1>3. ASSUME NEW w \in Workers, Proceed(w) PROVE AttendanceInv'
  <2>1. CASE FaceUnavailable(w) \/ UniqueViolation(w) \/ DeadlockAbort(w)
    BY <2>1, RollbackKeeps DEF FaceUnavailable, UniqueViolation, DeadlockAbort
  <2>2. CASE IssueToken(w) \/ CountAttempt(w) \/ RejectLocation(w) \/ VerifyFace(w)
    BY <2>2, IssueTokenStep, CountAttemptStep, RejectLocationStep, VerifyFaceStep
  <2>3. CASE ReadSubmission(w) \/ WriteSubmission(w) \/ WriteRequest(w) \/ WriteCorrection(w)
    BY <2>3, ReadSubmissionStep, WriteSubmissionStep, WriteRequestStep, WriteCorrectionStep
  <2>4. CASE AppendEvent(w) \/ WriteRecord(w) \/ Commit(w)
    BY <2>4, AppendEventStep, WriteRecordStep, CommitStep
  <2>5. QED
    BY <1>3, <2>1, <2>2, <2>3, <2>4 DEF Proceed
<1>4. ASSUME NEW w \in Workers, Fail(w) \/ Autopilot(w) PROVE AttendanceInv'
  BY <1>4, RollbackKeeps, AutopilotStep DEF Fail
<1>5. QED
  BY <1>1, <1>2, <1>3, <1>4 DEF AttendanceNext

(***************************************************************************)
(* Theorems                                                                *)
(***************************************************************************)

\* The invariant the properties follow from: transactions carry what their steps call
\* for, what they have read is vouched for by a lock or the stale flag, and what is
\* committed was counted (attendance.py, attendance_ledger.py).
THEOREM AttendanceInvAlways == AttendanceSpec => []AttendanceInv
<1>1. AttendanceInit => AttendanceInv
  BY InitHolds
<1>2. AttendanceInv /\ [AttendanceNext]_vars => AttendanceInv'
  BY NextKeeps, StutterKeeps
<1>3. QED
  BY <1>1, <1>2, PTL DEF AttendanceSpec

\* Every variable keeps its type; the clock of the ledger stays within its bound, as an
\* event takes a handler that has begun.
THEOREM TypeCorrect == AttendanceSpec => []AttendanceTypeOK
<1>1. AttendanceInv => AttendanceTypeOK
  <2>1. SUFFICES ASSUME AttendanceInv PROVE AttendanceTypeOK
    OBVIOUS
  <2>2. clock \in 0..MaxStarts + 2
    BY <2>1, SetsOfWorkers, Constants DEF AttendanceInv, Clocked, TablesTyped
  <2>3. QED
    BY <2>1, <2>2 DEF AttendanceInv, TablesTyped, AttendanceTypeOK
<1>2. QED
  BY <1>1, AttendanceInvAlways, PTL

\* After a transaction whose reading of the day no other one outdated, the record is that
\* of the latest event (recompute_attendance_record).
THEOREM RecordFollowsLedgerAlways == AttendanceSpec => []RecordFollowsLedger
<1>1. AttendanceInv => RecordFollowsLedger
  BY DEF AttendanceInv
<1>2. QED
  BY <1>1, AttendanceInvAlways, PTL

\* A verified submission has used up a token and left a presence in the ledger, and a
\* correction is applied only with its event there (mark_realtime_attendance,
\* rms_review_attendance_correction).
THEOREM CountedAsClaimedAlways == AttendanceSpec => []CountedAsClaimed
<1>1. AttendanceInv => CountedAsClaimed
  BY DEF AttendanceInv
<1>2. QED
  BY <1>1, AttendanceInvAlways, PTL

\* The limit of tokens is exceeded by fewer than the threads, and a token on which no two
\* attempts counted from the same number allows its number of face checks
\* (_issue_attendance_attempt_token, _verify_attendance_attempt_token).
THEOREM AttemptsBoundedAlways == AttendanceSpec => []AttemptsBounded
<1>1. AttendanceInv => AttemptsBounded
  <2>1. SUFFICES ASSUME AttendanceInv PROVE AttemptsBounded
    OBVIOUS
  <2>2. Cardinality(IssuedTokens) <= MaxTokens + Cardinality(Workers) - 1
    BY <2>1, SetsOfWorkers, IssuedTokensCounted, Constants DEF AttendanceInv, IssuedInOrder
  <2>3. ASSUME NEW t \in Tokens \ raced PROVE faces[t] <= MaxAttempts
    <3>1. faces[t] <= token[t].attempts /\ faces[t] \in Nat
      BY <2>1 DEF AttendanceInv, FacesCounted, TablesTyped
    <3>2. token[t].attempts \in 0..MaxAttempts
      BY <2>1 DEF AttendanceInv, TablesTyped, Token
    <3>3. QED
      BY <3>1, <3>2, Constants
  <2>4. QED
    BY <2>2, <2>3 DEF AttemptsBounded
<1>2. QED
  BY <1>1, AttendanceInvAlways, PTL

\* The submission changes with a commit only.
LEMMA OnlyCommitsSubmit ==
  ASSUME [AttendanceNext]_vars, submission' # submission
  PROVE  \E w \in Workers : Commit(w)
<1>1. UNCHANGED <<submission>> \/ submission' # submission
  OBVIOUS
<1>2. ASSUME NEW w \in Workers, Handler(w) PROVE submission' = submission
  <2>1. UNCHANGED tables
    BY <1>2 DEF Handler, ValidateCode, RejectAtGate, MarkAttendance, RequestRectification,
       ApproveRectification, RejectRectification, ReviewSubmission, MarkBulk, OverrideAttendance,
       CreateCorrection, ReviewCorrection, RecomputeRecord, StaffBegins
  <2>2. QED
    BY <2>1 DEF tables
<1>3. ASSUME NEW w \in Workers, Proceed(w), ~Commit(w) PROVE submission' = submission
  <2>1. CASE IssueToken(w)
    BY <2>1 DEF IssueToken
  <2>2. CASE ~IssueToken(w)
    <3>1. UNCHANGED tables
      BY <1>3, <2>2 DEF Proceed, CountAttempt, RejectLocation, FaceUnavailable, VerifyFace,
         ReadSubmission, WriteSubmission, WriteRequest, WriteCorrection, AppendEvent, WriteRecord,
         UniqueViolation, DeadlockAbort, Rollback
    <3>2. QED
      BY <3>1 DEF tables
  <2>3. QED
    BY <2>1, <2>2
<1>4. ASSUME NEW w \in Workers, Fail(w) \/ Autopilot(w) PROVE submission' = submission
  BY <1>4 DEF Fail, Rollback, Autopilot, tables
<1>5. CloseWindow \/ OpenSession \/ UNCHANGED vars => submission' = submission
  BY DEF CloseWindow, OpenSession, vars, tables
<1>6. QED
  BY <1>2, <1>3, <1>4, <1>5 DEF AttendanceNext

LEMMA CreditKept ==
  ASSUME AttendanceInv, NEW w \in Workers, Commit(w), Credited(submission), ~Credited(submission')
  PROVE  /\ At(w, "commit")
         /\ \/ job[w].kind \in Staff
            \/ job[w].seenSubmission = "pending" \/ Credited(job[w].seenSubmission)
<1> DEFINE k == job[w]
<1>1. At(w, "commit") /\ Routine(k) /\ Fitting(k) /\ k \in Job
  BY JobTyped DEF Commit
<1>2. /\ "submission" \in k.wrote /\ k.putSubmission # k.seenSubmission
      /\ submission' = k.putSubmission
  BY DEF Commit, OwnSubmission, Put
<1>3. k.kind \in Staff \cup {"audit", "mark"} /\ k.putSubmission # "none"
  BY <1>1, <1>2 DEF Routine, Decides
<1>4. CASE k.kind \in {"audit", "mark"}
  <2>1. k.putSubmission \in {"none", "rejected", "verified"}
    BY <1>1, <1>4 DEF Routine, Decides
  <2>2. k.putSubmission = "rejected"
    BY <2>1, <1>2, <1>3 DEF Credited
  <2>3. k.seenSubmission # "none"
    BY <1>1, <1>2 DEF Fitting, Credited
  <2>4. k.seenSubmission \in {"pending", "verified", "approved"}
    BY <2>2, <2>3, <1>1, <1>2 DEF Job, SubmissionStatuses
  <2>5. QED
    BY <2>4, <1>1 DEF Credited
<1>5. QED
  BY <1>1, <1>3, <1>4

\* No mark and no recorded refusal takes back a credit it has not read: it locks the row it
\* found, or finds that another one was inserted (_upsert_location_rejected_submission,
\* mark_realtime_attendance).
THEOREM CreditOnlyLostToStaffAlways == AttendanceSpec => CreditOnlyLostToStaff
<1>1. AttendanceInv /\ [AttendanceNext]_vars =>
        [Credited(submission) /\ ~Credited(submission') =>
           \E w \in Workers :
             /\ At(w, "commit")
             /\ \/ job[w].kind \in Staff
                \/ job[w].seenSubmission = "pending" \/ Credited(job[w].seenSubmission)]_vars
  BY OnlyCommitsSubmit, CreditKept
<1>2. QED
  BY <1>1, AttendanceInvAlways, PTL DEF AttendanceSpec, CreditOnlyLostToStaff
=============================================================================
