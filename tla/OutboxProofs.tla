---------------------------- MODULE OutboxProofs ----------------------------
(***************************************************************************)
(* The outbox delivers at least once and loses nothing that was accepted,  *)
(* for every set of writes, threads, batch limit and number of faults.     *)
(*                                                                         *)
(* The invariant that carries both results says of a batch in progress     *)
(* what the table says once it is committed: a row is marked sent only     *)
(* when its write has arrived, or was swallowed by the bus, and it is      *)
(* never the row of a write nobody queued.                                 *)
(***************************************************************************)
EXTENDS Outbox, TLAPS

Queued(d) == row[d].status # "none"

\* Writes that have arrived, and events the bus has swallowed.
Done == delivered \cup swallowed

\* What is sent or queued is a write.
Addressed ==
  \A w \in Workers : job[w].stage \in {"sending", "queueing"} => job[w].write \in Writes

\* Every write in the system was submitted by a request; events alone are swallowed.
Origin ==
  /\ delivered \subseteq submitted
  /\ swallowed \subseteq submitted /\ \A d \in swallowed : IsEvent(d)
  /\ \A d \in Writes : Queued(d) => d \in submitted
  /\ \A w \in Workers : job[w].write # NoWrite => job[w].write \in submitted

\* The table marks nothing as sent that is not done.
TableHonest == \A d \in Durable : row[d].status = "sent" => d \in Done

\* Nor does a batch, whose rows are all rows of the table.
HonestBatch(w) ==
  /\ job[w].todo \subseteq job[w].batch
  /\ \A d \in job[w].batch :
       /\ Queued(d)
       /\ job[w].rows[d].status # "none"
       /\ d \in Durable /\ job[w].rows[d].status = "sent" => d \in Done

BatchHonest == \A w \in Workers : HonestBatch(w)

\* A thread past the queueing of its write has it in the table; before, it means
\* to answer "ok" for an event or an optional write only.
QueuedWrite(w) ==
  /\ job[w].stage \in {"selecting", "dispatching"} /\ job[w].write # NoWrite
       => Queued(job[w].write)
  /\ job[w].stage = "queueing" /\ job[w].write \in Durable /\ job[w].answer = "ok"
       => IsEvent(job[w].write)

WriteQueued == \A w \in Workers : QueuedWrite(w)

\* What a caller was told is well is done or in the table.
HonestAnswer(d) == answered[d] = "ok" => d \in Done \/ Queued(d)

AnswerHonest == \A d \in Durable : HonestAnswer(d)

IInv ==
  /\ TypeOK
  /\ Addressed
  /\ Origin
  /\ TableHonest
  /\ BatchHonest
  /\ WriteQueued
  /\ AnswerHonest

(***************************************************************************)
(* Type correctness                                                        *)
(***************************************************************************)

LEMMA NoRowsType == NoRow \in Row /\ NoRows \in [Writes -> Row]
BY OutboxAssumption DEF NoRow, NoRows, Row

LEMMA IdleJobType == IdleJob \in Job
BY NoRowsType DEF IdleJob, Job, Answers

\* A job that starts with a write, or with none, is a job.
LEMMA BeginType ==
  ASSUME NEW stage \in {"idle", "sending", "queueing", "selecting", "dispatching"},
         NEW d \in Writes \cup {NoWrite}
  PROVE  [IdleJob EXCEPT !.stage = stage, !.write = d] \in Job
BY NoRowsType DEF IdleJob, Job, Answers

LEMMA DeferredType ==
  ASSUME NEW j \in Job, NEW answer \in Answers
  PROVE  [j EXCEPT !.stage = "queueing", !.answer = answer] \in Job
<1>1. [j EXCEPT !.stage = "queueing"] \in Job
  BY DEF Job
<1> QED
  BY <1>1 DEF Job

LEMMA SelectedType ==
  ASSUME NEW j \in Job, NEW batch \in SUBSET Writes, NEW rows \in [Writes -> Row]
  PROVE  [j EXCEPT !.stage = "dispatching", !.batch = batch, !.todo = batch, !.rows = rows] \in Job
<1>1. [j EXCEPT !.stage = "dispatching"] \in Job
  BY DEF Job
<1>2. [j EXCEPT !.stage = "dispatching", !.batch = batch] \in Job
  BY <1>1 DEF Job
<1>3. [j EXCEPT !.stage = "dispatching", !.batch = batch, !.todo = batch] \in Job
  BY <1>2 DEF Job
<1> QED
  BY <1>3 DEF Job

LEMMA TriedType ==
  ASSUME NEW j \in Job, NEW d \in Writes, NEW r \in Row
  PROVE  [j EXCEPT !.todo = @ \ {d}, !.rows[d] = r] \in Job
<1>1. [j EXCEPT !.todo = @ \ {d}] \in Job
  BY DEF Job
<1>2. [[j EXCEPT !.todo = @ \ {d}].rows EXCEPT ![d] = r] \in [Writes -> Row]
  BY <1>1 DEF Job
<1> QED
  BY <1>1, <1>2 DEF Job

LEMMA AfterTryType ==
  ASSUME NEW read \in Row, NEW d \in Writes, NEW quiet
  PROVE  AfterTry(read, d, quiet) \in Row /\ AfterTry(read, d, quiet).status # "none"
<1>1. read.attempts \in 0..MaxAttempts
  BY DEF Row
<1>2. (IF read.attempts < MaxAttempts THEN read.attempts + 1 ELSE MaxAttempts) \in 0..MaxAttempts
  BY <1>1, OutboxAssumption
<1> QED
  BY <1>2 DEF AfterTry, Row

LEMMA TryType ==
  ASSUME TypeOK, NEW d \in Writes, NEW quiet, Try(d, quiet)
  PROVE  /\ delivered' \subseteq Writes /\ swallowed' \subseteq Writes
         /\ link' \in {"open", "closed", "cooling"}
         /\ delivered \subseteq delivered' /\ swallowed \subseteq swallowed'
         /\ delivered' \subseteq delivered \cup {d}
         /\ swallowed' \subseteq swallowed \cup {d}
         /\ swallowed' = swallowed \/ IsEvent(d)
         /\ Succeeds(d) \/ quiet => d \in Done'
<1>1. quiet \in BOOLEAN /\ (quiet => IsEvent(d))
  BY OutboxAssumption DEF Try
<1>2. swallowed' = (IF quiet THEN swallowed \cup {d} ELSE swallowed)
  BY DEF Try
<1>3. /\ swallowed' \subseteq Writes /\ swallowed \subseteq swallowed'
      /\ swallowed' \subseteq swallowed \cup {d}
      /\ swallowed' = swallowed \/ IsEvent(d)
      /\ quiet => d \in swallowed'
  BY <1>1, <1>2 DEF TypeOK
<1>4. /\ delivered' \subseteq Writes /\ delivered \subseteq delivered'
      /\ delivered' \subseteq delivered \cup {d}
      /\ Succeeds(d) => d \in delivered'
  BY DEF Try, TypeOK
<1>5. link' \in {"open", "closed", "cooling"}
  BY DEF Try, TypeOK
<1> QED
  BY <1>3, <1>4, <1>5 DEF Done

LEMMA FinishType ==
  ASSUME TypeOK, NEW w \in Workers, NEW answer \in Answers, Finish(w, answer)
  PROVE  job' \in [Workers -> Job] /\ answered' \in [Writes -> Answers]
BY IdleJobType DEF Finish, TypeOK

LEMMA FinishAddressed ==
  ASSUME TypeOK, Addressed, NEW w \in Workers, NEW answer, Finish(w, answer)
  PROVE  Addressed'
BY DEF Finish, TypeOK, Addressed, IdleJob

LEMMA StartType ==
  ASSUME TypeOK, NEW w \in Workers, Start(w)
  PROVE  /\ job' \in [Workers -> Job]
         /\ UNCHANGED <<row, delivered, swallowed, up, submitted, answered>>
         /\ link' = "closed"
<1>1. [IdleJob EXCEPT !.stage = "selecting"] \in Job
  BY NoRowsType DEF IdleJob, Job, Answers
<1> QED
  BY <1>1, IdleJobType DEF Start

\* Every step of the outbox keeps the types, and sends only writes.
LEMMA TypeStep == TypeOK /\ Addressed /\ [Next]_vars => TypeOK' /\ Addressed'
<1> SUFFICES ASSUME TypeOK, Addressed, [Next]_vars PROVE TypeOK' /\ Addressed'
  OBVIOUS
<1> USE DEF TypeOK, Addressed
<1>1. ASSUME NEW w \in Workers, NEW d \in Writes, Submit(w, d) PROVE TypeOK' /\ Addressed'
  <2>1. [IdleJob EXCEPT !.stage = "sending", !.write = d] \in Job
    BY BeginType
  <2>2. [IdleJob EXCEPT !.stage = "sending", !.write = d].write = d
    BY DEF IdleJob
  <2> QED
    BY <1>1, <2>1, <2>2 DEF Submit
<1>2. ASSUME NEW w \in Workers, Send(w) PROVE TypeOK' /\ Addressed'
  <2>1. job[w].write \in Writes
    BY <1>2 DEF Send, SendNow, SendRefused, SendDeferred
  <2>2. \E quiet : Try(job[w].write, quiet)
    BY <1>2 DEF Send, SendNow, SendRefused, SendDeferred
  <2>3. /\ delivered' \subseteq Writes /\ swallowed' \subseteq Writes
        /\ link' \in {"open", "closed", "cooling"}
    BY <2>1, <2>2, TryType
  <2>4. CASE SendNow(w)
    <3>1. Finish(w, "ok")
      BY <2>4 DEF SendNow
    <3> QED
      BY <2>3, <2>4, <3>1, FinishType, FinishAddressed DEF SendNow, Answers
  <2>5. CASE SendRefused(w)
    <3>1. Finish(w, "error")
      BY <2>5 DEF SendRefused
    <3> QED
      BY <2>3, <2>5, <3>1, FinishType, FinishAddressed DEF SendRefused, Answers
  <2>6. CASE SendDeferred(w)
    <3>1. PICK answer \in Answers :
            job' = [job EXCEPT ![w] = [@ EXCEPT !.stage = "queueing", !.answer = answer]]
      BY <2>6 DEF SendDeferred, Answers
    <3>2. job'[w] \in Job
      BY <3>1, DeferredType
    <3> QED
      BY <2>1, <2>3, <2>6, <3>1, <3>2 DEF SendDeferred, Job
  <2> QED
    BY <1>2, <2>4, <2>5, <2>6 DEF Send
<1>3. ASSUME NEW w \in Workers, Queue(w) PROVE TypeOK' /\ Addressed'
  <2>1. [status |-> "pending", attempts |-> 0, due |-> TRUE] \in Row
    BY OutboxAssumption DEF Row
  <2>2. [job[w] EXCEPT !.stage = "selecting"] \in Job
    BY DEF Job
  <2> QED
    BY <1>3, <2>1, <2>2 DEF Queue, Job
<1>4. ASSUME NEW w \in Workers, QueueFails(w) PROVE TypeOK' /\ Addressed'
  <2>1. job[w].answer \in Answers
    BY DEF Job
  <2>2. PICK answer \in Answers : Finish(w, answer)
    BY <1>4, <2>1 DEF QueueFails, Answers
  <2>3. faults' \in 0..MaxFaults
    BY <1>4, OutboxAssumption DEF QueueFails
  <2> QED
    BY <1>4, <2>2, <2>3, FinishType, FinishAddressed DEF QueueFails
<1>5. ASSUME NEW w \in Workers, Select(w) PROVE TypeOK' /\ Addressed'
  <2>1. Selected(w) \subseteq Writes
    BY DEF Selected, DueRows
  <2>2. [d \in Writes |-> IF d \in Selected(w) THEN row[d] ELSE NoRow] \in [Writes -> Row]
    BY NoRowsType
  <2>3. job'[w] \in Job
    BY <1>5, <2>1, <2>2, SelectedType DEF Select
  <2>4. job'[w].stage = "dispatching"
    BY <1>5 DEF Select, Job
  <2>5. job' \in [Workers -> Job] /\ Addressed'
    BY <1>5, <2>3, <2>4 DEF Select
  <2> QED
    BY <1>5, <2>5 DEF Select
<1>6. ASSUME NEW w \in Workers, NEW d \in Writes, DispatchOne(w, d)
      PROVE  TypeOK' /\ Addressed'
  <2>1. PICK quiet \in BOOLEAN :
          /\ Try(d, quiet)
          /\ job' = [job EXCEPT ![w].todo = @ \ {d}, ![w].rows[d] = AfterTry(@, d, quiet)]
    BY <1>6 DEF DispatchOne
  <2>2. AfterTry(job[w].rows[d], d, quiet) \in Row
    BY AfterTryType DEF Job
  <2>3. job'[w] \in Job
    BY <2>1, <2>2, TriedType
  <2>4. /\ delivered' \subseteq Writes /\ swallowed' \subseteq Writes
        /\ link' \in {"open", "closed", "cooling"}
    BY <2>1, TryType
  <2> QED
    BY <1>6, <2>1, <2>3, <2>4 DEF DispatchOne, Job
<1>7. ASSUME NEW w \in Workers, Commit(w) PROVE TypeOK' /\ Addressed'
  <2>1. job[w].answer \in Answers /\ job[w].rows \in [Writes -> Row]
    BY DEF Job
  <2>2. row' \in [Writes -> Row]
    BY <1>7, <2>1 DEF Commit
  <2> QED
    BY <1>7, <2>1, <2>2, FinishType, FinishAddressed DEF Commit
<1>8. ASSUME NEW w \in Workers, RollBack(w) PROVE TypeOK' /\ Addressed'
  <2>1. job[w].answer \in Answers
    BY DEF Job
  <2>2. faults' \in 0..MaxFaults
    BY <1>8, OutboxAssumption DEF RollBack
  <2> QED
    BY <1>8, <2>1, <2>2, FinishType, FinishAddressed DEF RollBack
<1>9. ASSUME NEW w \in Workers, Restart(w) \/ Crash(w) PROVE TypeOK' /\ Addressed'
  <2>1. Start(w)
    BY <1>9 DEF Restart, Crash
  <2>2. faults' \in 0..MaxFaults
    BY <1>9, OutboxAssumption DEF Restart, Crash
  <2>3. \A v \in Workers : job'[v].stage \in {"idle", "selecting"}
    BY <2>1 DEF Start, IdleJob
  <2> QED
    BY <2>1, <2>2, <2>3, StartType
<1>10. ASSUME NEW d \in Writes, ComeDue(d) PROVE TypeOK' /\ Addressed'
  BY <1>10 DEF ComeDue, Row
<1>11. CASE CoolDown \/ Connect
  BY <1>11 DEF CoolDown, Connect
<1>12. ASSUME NEW x \in {"mongo", "bus"}, Fail(x) \/ Recover(x) PROVE TypeOK' /\ Addressed'
  <2>1. up' \in [{"mongo", "bus"} -> BOOLEAN]
    BY <1>12 DEF Fail, Recover
  <2>2. faults' \in 0..MaxFaults
    BY <1>12, OutboxAssumption DEF Fail, Recover
  <2> QED
    BY <1>12, <2>1, <2>2 DEF Fail, Recover
<1>13. CASE UNCHANGED vars
  BY <1>13 DEF vars
<1> QED
  BY <1>1, <1>2, <1>3, <1>4, <1>5, <1>6, <1>7, <1>8, <1>9, <1>10, <1>11, <1>12, <1>13
  DEF Next, Proceed, Dispatch

LEMMA TypeInit == Init => TypeOK /\ Addressed
<1>1. Init => TypeOK
  BY OutboxAssumption, NoRowsType, IdleJobType DEF Init, TypeOK, Answers
<1>2. Init => Addressed
  BY DEF Init, Addressed, IdleJob
<1> QED
  BY <1>1, <1>2

\* Every reachable state is well typed: in particular no row stays "processing"
\* outside the transaction that tries it (outbox.py 122-152).
THEOREM TypeCorrect == Spec => []TypeOK
<1>1. TypeOK /\ Addressed /\ [Next]_vars => (TypeOK /\ Addressed)'
  BY TypeStep
<1> QED
  BY <1>1, TypeInit, PTL DEF Spec

(***************************************************************************)
(* The inductive invariant                                                 *)
(***************************************************************************)

\* How a step of one thread's write ends, or hands it on to the queue.
LEMMA SendEffect ==
  ASSUME TypeOK, Addressed, NEW w \in Workers, Send(w)
  PROVE  /\ job[w].stage = "sending"
         /\ job[w].write \in Writes
         /\ \E quiet : Try(job[w].write, quiet)
         /\ UNCHANGED <<row, submitted>>
         /\ \/ Finish(w, "ok") /\ job[w].write \in Done'
            \/ Finish(w, "error")
            \/ /\ UNCHANGED answered
               /\ \E answer \in Answers :
                    /\ job' = [job EXCEPT ![w] = [@ EXCEPT !.stage = "queueing", !.answer = answer]]
                    /\ answer = "ok" => Kind[job[w].write] # "required"
<1>1. CASE SendNow(w)
  <2>1. PICK quiet : Try(job[w].write, quiet) /\ (Succeeds(job[w].write) \/ quiet)
    BY <1>1 DEF SendNow
  <2>2. job[w].write \in Writes
    BY <1>1 DEF SendNow, Addressed
  <2>3. job[w].write \in Done'
    BY <2>1, <2>2, TryType
  <2> QED
    BY <1>1, <2>1, <2>2, <2>3 DEF SendNow
<1>2. CASE SendRefused(w)
  BY <1>2 DEF SendRefused, Addressed
<1>3. CASE SendDeferred(w)
  <2>1. PICK answer \in Answers :
          /\ job' = [job EXCEPT ![w] = [@ EXCEPT !.stage = "queueing", !.answer = answer]]
          /\ answer = "ok" => Kind[job[w].write] # "required"
    BY <1>3 DEF SendDeferred, Answers
  <2> QED
    BY <1>3, <2>1 DEF SendDeferred, Addressed
<1> QED
  BY <1>1, <1>2, <1>3 DEF Send

\* A job that is handed on to the queue keeps all but its stage and its answer.
LEMMA DeferredFields ==
  ASSUME TypeOK, NEW w \in Workers, NEW answer \in Answers,
         job' = [job EXCEPT ![w] = [@ EXCEPT !.stage = "queueing", !.answer = answer]]
  PROVE  /\ \A v \in Workers : /\ job'[v].write = job[v].write
                              /\ job'[v].batch = job[v].batch
                              /\ job'[v].todo = job[v].todo
                              /\ job'[v].rows = job[v].rows
         /\ \A v \in Workers \ {w} : job'[v] = job[v]
         /\ job'[w].stage = "queueing"
         /\ job'[w].answer = answer
BY DEF TypeOK, Job

LEMMA FinishEffect ==
  ASSUME TypeOK, NEW w \in Workers, NEW answer, Finish(w, answer)
  PROVE  /\ job'[w] = IdleJob
         /\ \A v \in Workers \ {w} : job'[v] = job[v]
         /\ IdleJob.write = NoWrite /\ IdleJob.batch = {} /\ IdleJob.todo = {}
         /\ IdleJob.stage = "idle"
         /\ \A d \in Writes : answered'[d] = IF d = job[w].write THEN answer ELSE answered[d]
BY DEF TypeOK, Finish, IdleJob

LEMMA StartEffect ==
  ASSUME NEW w \in Workers, Start(w)
  PROVE  \A v \in Workers : job'[v].write = NoWrite /\ job'[v].batch = {} /\ job'[v].todo = {}
                           /\ job'[v].stage \in {"idle", "selecting"}
BY DEF Start, IdleJob

LEMMA OriginStep ==
  ASSUME TypeOK, Addressed, Origin, BatchHonest, [Next]_vars
  PROVE  Origin'
<1> USE DEF TypeOK, Origin
<1>1. ASSUME NEW w \in Workers, NEW d \in Writes, Submit(w, d) PROVE Origin'
  BY <1>1, OutboxAssumption DEF Submit, IdleJob, Queued
<1>2. ASSUME NEW w \in Workers, Send(w) PROVE Origin'
  <2>1. job[w].write \in submitted
    BY <1>2, SendEffect, OutboxAssumption, ZenonT(60)
  <2>2. delivered' \subseteq submitted /\ swallowed' \subseteq submitted
        /\ \A d \in swallowed' : IsEvent(d)
    BY <1>2, <2>1, SendEffect, TryType
  <2>3. \A v \in Workers : job'[v].write \in {job[v].write, NoWrite}
    BY <1>2, SendEffect, FinishEffect, DeferredFields
  <2> QED
    BY <1>2, <2>2, <2>3, SendEffect DEF Queued
<1>3. ASSUME NEW w \in Workers, Queue(w) PROVE Origin'
  <2>1. job[w].write \in submitted
    BY <1>3, OutboxAssumption DEF Addressed, Queue
  <2> QED
    BY <1>3, <2>1 DEF Queue, Queued
<1>4. ASSUME NEW w \in Workers, QueueFails(w) \/ RollBack(w) PROVE Origin'
  BY <1>4 DEF QueueFails, RollBack, Finish, IdleJob, Queued
<1>5. ASSUME NEW w \in Workers, Select(w) PROVE Origin'
  BY <1>5 DEF Select, Queued
<1>6. ASSUME NEW w \in Workers, NEW d \in Writes, DispatchOne(w, d) PROVE Origin'
  <2>1. d \in submitted
    BY <1>6 DEF DispatchOne, Turn, BatchHonest, HonestBatch, Queued
  <2>2. delivered' \subseteq submitted /\ swallowed' \subseteq submitted
        /\ \A e \in swallowed' : IsEvent(e)
    BY <1>6, <2>1, TryType DEF DispatchOne
  <2> QED
    BY <1>6, <2>2 DEF DispatchOne, Queued
<1>7. ASSUME NEW w \in Workers, Commit(w) PROVE Origin'
  <2>1. \A d \in Writes : Queued(d)' => Queued(d)
    BY <1>7 DEF Commit, BatchHonest, HonestBatch, Queued
  <2>2. \A v \in Workers : job'[v].write \in {job[v].write, NoWrite}
    BY <1>7 DEF Commit, Finish, IdleJob
  <2> QED
    BY <1>7, <2>1, <2>2 DEF Commit
<1>8. ASSUME NEW w \in Workers, Restart(w) \/ Crash(w) PROVE Origin'
  <2>1. Start(w)
    BY <1>8 DEF Restart, Crash
  <2>2. \A v \in Workers : job'[v].write = NoWrite
    BY <2>1 DEF Start, IdleJob
  <2> QED
    BY <2>1, <2>2 DEF Start, Queued
<1>9. ASSUME NEW d \in Writes, ComeDue(d) PROVE Origin'
  BY <1>9 DEF ComeDue, Queued
<1>10. ASSUME NEW x \in {"mongo", "bus"}, Fail(x) \/ Recover(x) PROVE Origin'
  BY <1>10 DEF Fail, Recover, Queued
<1>11. CASE CoolDown \/ Connect \/ UNCHANGED vars
  BY <1>11 DEF CoolDown, Connect, vars, Queued
<1> QED
  BY <1>1, <1>2, <1>3, <1>4, <1>5, <1>6, <1>7, <1>8, <1>9, <1>10, <1>11
  DEF Next, Proceed, Dispatch

\* What no step takes back: what has arrived, and that a write was queued.
LEMMA Monotone ==
  ASSUME TypeOK, Addressed, BatchHonest, [Next]_vars
  PROVE  /\ Done \subseteq Done'
         /\ \A d \in Writes : Queued(d) => Queued(d)'
<1> USE DEF TypeOK, Queued, Done
<1>1. ASSUME NEW w \in Workers, NEW d \in Writes, Submit(w, d)
      PROVE  UNCHANGED <<delivered, swallowed, row>>
  BY <1>1 DEF Submit
<1>2. ASSUME NEW w \in Workers, Send(w)
      PROVE  UNCHANGED row /\ Done \subseteq Done'
  BY <1>2, SendEffect, TryType
<1>3. ASSUME NEW w \in Workers, Queue(w)
      PROVE  UNCHANGED <<delivered, swallowed>> /\ \A d \in Writes : Queued(d) => Queued(d)'
  BY <1>3 DEF Queue
<1>4. ASSUME NEW w \in Workers, Select(w) \/ QueueFails(w) \/ RollBack(w)
      PROVE  UNCHANGED <<delivered, swallowed, row>>
  BY <1>4 DEF Select, QueueFails, RollBack
<1>5. ASSUME NEW w \in Workers, NEW d \in Writes, DispatchOne(w, d)
      PROVE  UNCHANGED row /\ Done \subseteq Done'
  BY <1>5, TryType DEF DispatchOne
<1>6. ASSUME NEW w \in Workers, Commit(w)
      PROVE  UNCHANGED <<delivered, swallowed>> /\ \A d \in Writes : Queued(d) => Queued(d)'
  BY <1>6 DEF Commit, BatchHonest, HonestBatch
<1>7. ASSUME NEW w \in Workers, Restart(w) \/ Crash(w)
      PROVE  UNCHANGED <<delivered, swallowed, row>>
  BY <1>7 DEF Restart, Crash, Start
<1>8. ASSUME NEW d \in Writes, ComeDue(d)
      PROVE  UNCHANGED <<delivered, swallowed>> /\ \A e \in Writes : Queued(e) => Queued(e)'
  BY <1>8 DEF ComeDue
<1>9. ASSUME NEW x \in {"mongo", "bus"}, Fail(x) \/ Recover(x)
      PROVE  UNCHANGED <<delivered, swallowed, row>>
  BY <1>9 DEF Fail, Recover
<1>10. CASE CoolDown \/ Connect \/ UNCHANGED vars
  BY <1>10 DEF CoolDown, Connect, vars
<1> QED
  BY <1>1, <1>2, <1>3, <1>4, <1>5, <1>6, <1>7, <1>8, <1>9, <1>10
  DEF Next, Proceed, Dispatch

\* A step leaves a thread's batch alone, or empties it, unless the thread reads
\* a new one or tries a row.
LEMMA BatchKept ==
  ASSUME TypeOK, Addressed, BatchHonest, [Next]_vars, NEW v \in Workers,
         /\ job'[v].batch = {} /\ job'[v].todo = {}
         \/ /\ job'[v].batch = job[v].batch
            /\ job'[v].todo = job[v].todo
            /\ job'[v].rows = job[v].rows
  PROVE  HonestBatch(v)'
<1>1. job[v].batch \subseteq Writes
  BY DEF TypeOK, Job
<1>2. HonestBatch(v)
  BY DEF BatchHonest
<1> QED
  BY <1>1, <1>2, Monotone DEF HonestBatch, Queued, Durable

\* A tried row is sent only when its write is done.
LEMMA AfterTryHonest ==
  ASSUME TypeOK, NEW read, NEW d \in Durable, NEW quiet, Try(d, quiet),
         AfterTry(read, d, quiet).status = "sent"
  PROVE  d \in Done'
<1>1. Succeeds(d) \/ quiet
  BY OutboxAssumption DEF AfterTry, Durable
<1> QED
  BY <1>1, TryType DEF Durable

LEMMA HonestStep ==
  ASSUME TypeOK, Addressed, TableHonest, BatchHonest, [Next]_vars
  PROVE  TableHonest' /\ BatchHonest'
<1> USE DEF TypeOK
<1> DEFINE Kept(v) == \/ job'[v].batch = {} /\ job'[v].todo = {}
                      \/ /\ job'[v].batch = job[v].batch
                         /\ job'[v].todo = job[v].todo
                         /\ job'[v].rows = job[v].rows
<1>a. ASSUME NEW v \in Workers, Kept(v) PROVE HonestBatch(v)'
  BY <1>a, BatchKept
<1>b. UNCHANGED row => TableHonest'
  BY Monotone DEF TableHonest, Durable
<1> HIDE DEF Kept
<1>1. ASSUME NEW w \in Workers, NEW d \in Writes, Submit(w, d)
      PROVE  TableHonest' /\ BatchHonest'
  <2>1. \A v \in Workers : Kept(v)
    BY <1>1 DEF Submit, IdleJob, Kept
  <2> QED
    BY <1>1, <2>1, <1>a, <1>b DEF BatchHonest, Submit
<1>2. ASSUME NEW w \in Workers, Send(w) PROVE TableHonest' /\ BatchHonest'
  <2>1. \A v \in Workers : Kept(v)
    BY <1>2, SendEffect, FinishEffect, DeferredFields DEF Kept
  <2> QED
    BY <1>2, <2>1, <1>a, <1>b, SendEffect DEF BatchHonest
<1>3. ASSUME NEW w \in Workers, Queue(w) PROVE TableHonest' /\ BatchHonest'
  <2>1. \A v \in Workers : Kept(v)
    BY <1>3 DEF Queue, Job, Kept
  <2>2. TableHonest'
    BY <1>3 DEF Queue, TableHonest, Durable, Done
  <2> QED
    BY <2>1, <2>2, <1>a DEF BatchHonest
<1>4. ASSUME NEW w \in Workers, QueueFails(w) \/ RollBack(w) PROVE TableHonest' /\ BatchHonest'
  <2>1. UNCHANGED row /\ \E answer : Finish(w, answer)
    BY <1>4 DEF QueueFails, RollBack
  <2>2. \A v \in Workers : Kept(v)
    BY <2>1, FinishEffect DEF Kept
  <2> QED
    BY <2>1, <2>2, <1>a, <1>b DEF BatchHonest
<1>5. ASSUME NEW w \in Workers, Select(w) PROVE TableHonest' /\ BatchHonest'
  <2>1. \A v \in Workers \ {w} : Kept(v)
    BY <1>5 DEF Select, Kept
  <2>2. /\ job'[w].batch = Selected(w)
        /\ job'[w].todo = Selected(w)
        /\ job'[w].rows = [d \in Writes |-> IF d \in Selected(w) THEN row[d] ELSE NoRow]
    BY <1>5 DEF Select, Job
  <2>3. \A d \in Selected(w) : d \in Writes /\ row[d].status \in {"pending", "failed"}
    BY DEF Selected, DueRows, Dispatchable
  <2>4. UNCHANGED <<row, delivered, swallowed>>
    BY <1>5 DEF Select
  <2>5. \A d \in job'[w].batch :
          /\ Queued(d)'
          /\ job'[w].rows[d].status = row[d].status
          /\ row[d].status \in {"pending", "failed"}
    BY <2>2, <2>3, <2>4 DEF Queued
  <2>6. HonestBatch(w)'
    BY <2>2, <2>5 DEF HonestBatch, Queued
  <2> QED
    BY <2>1, <2>4, <2>6, <1>a, <1>b DEF BatchHonest
<1>6. ASSUME NEW w \in Workers, NEW d \in Writes, DispatchOne(w, d)
      PROVE  TableHonest' /\ BatchHonest'
  <2>0. PICK quiet \in BOOLEAN :
          /\ Try(d, quiet)
          /\ job' = [job EXCEPT ![w].todo = @ \ {d}, ![w].rows[d] = AfterTry(@, d, quiet)]
    BY <1>6 DEF DispatchOne
  <2> DEFINE r == AfterTry(job[w].rows[d], d, quiet)
  <2>1. \A v \in Workers \ {w} : Kept(v)
    BY <2>0 DEF Kept
  <2>2. /\ job'[w].batch = job[w].batch
        /\ job'[w].todo = job[w].todo \ {d}
        /\ job'[w].rows = [job[w].rows EXCEPT ![d] = r]
    BY <2>0 DEF Job
  <2>3. UNCHANGED row /\ Done \subseteq Done'
    BY <1>6, Monotone DEF DispatchOne
  <2>4. r.status # "none" /\ (d \in Durable /\ r.status = "sent" => d \in Done')
    BY <2>0, AfterTryType, AfterTryHonest DEF Job, Durable
  <2>5. d \in job[w].todo /\ job[w].rows \in [Writes -> Row] /\ job[w].batch \subseteq Writes
    BY <1>6 DEF DispatchOne, Turn, Job
  <2> HIDE DEF r
  <2>6. \A e \in job'[w].batch :
          /\ Queued(e)'
          /\ job'[w].rows[e].status # "none"
          /\ e \in Durable /\ job'[w].rows[e].status = "sent" => e \in Done'
    BY <2>2, <2>3, <2>4, <2>5 DEF BatchHonest, HonestBatch, Queued
  <2>7. HonestBatch(w)'
    BY <2>2, <2>6 DEF BatchHonest, HonestBatch, Durable
  <2> QED
    BY <2>1, <2>3, <2>7, <1>a, <1>b DEF BatchHonest
<1>7. ASSUME NEW w \in Workers, Commit(w) PROVE TableHonest' /\ BatchHonest'
  <2>1. \A v \in Workers : Kept(v)
    BY <1>7, FinishEffect DEF Commit, Kept
  <2>2. TableHonest'
    BY <1>7 DEF Commit, TableHonest, BatchHonest, HonestBatch, Durable, Done
  <2> QED
    BY <2>1, <2>2, <1>a DEF BatchHonest
<1>8. ASSUME NEW w \in Workers, Restart(w) \/ Crash(w) PROVE TableHonest' /\ BatchHonest'
  <2>1. Start(w) /\ UNCHANGED row
    BY <1>8 DEF Restart, Crash, Start
  <2>2. \A v \in Workers : Kept(v)
    BY <2>1, StartEffect DEF Kept
  <2> QED
    BY <2>1, <2>2, <1>a, <1>b DEF BatchHonest
<1>9. ASSUME NEW d \in Writes, ComeDue(d) PROVE TableHonest' /\ BatchHonest'
  <2>1. \A v \in Workers : Kept(v)
    BY <1>9 DEF ComeDue, Kept
  <2>2. \A e \in Writes : row'[e].status = row[e].status
    BY <1>9 DEF ComeDue, Row
  <2>3. TableHonest'
    BY <1>9, <2>2 DEF ComeDue, TableHonest, Durable, Done
  <2> QED
    BY <2>1, <2>3, <1>a DEF BatchHonest
<1>10. ASSUME NEW x \in {"mongo", "bus"}, Fail(x) \/ Recover(x)
       PROVE  TableHonest' /\ BatchHonest'
  <2>1. \A v \in Workers : Kept(v)
    BY <1>10 DEF Fail, Recover, Kept
  <2> QED
    BY <1>10, <2>1, <1>a, <1>b DEF BatchHonest, Fail, Recover
<1>11. CASE CoolDown \/ Connect \/ UNCHANGED vars
  <2>1. \A v \in Workers : Kept(v)
    BY <1>11 DEF CoolDown, Connect, vars, Kept
  <2> QED
    BY <1>11, <2>1, <1>a, <1>b DEF BatchHonest, CoolDown, Connect, vars
<1> QED
  BY <1>1, <1>2, <1>3, <1>4, <1>5, <1>6, <1>7, <1>8, <1>9, <1>10, <1>11
  DEF Next, Proceed, Dispatch

LEMMA WriteQueuedStep ==
  ASSUME TypeOK, Addressed, BatchHonest, WriteQueued, [Next]_vars
  PROVE  WriteQueued'
<1> USE DEF TypeOK
<1> DEFINE Kept(v) == \/ job'[v].write = NoWrite /\ job'[v].stage # "queueing"
                      \/ /\ job'[v].write = job[v].write
                         /\ job'[v].stage = job[v].stage
                         /\ job'[v].answer = job[v].answer
<1>a. ASSUME NEW v \in Workers, Kept(v) PROVE QueuedWrite(v)'
  <2>1. job[v].write \in Writes \cup {NoWrite}
    BY DEF Job
  <2>2. QueuedWrite(v)
    BY DEF WriteQueued
  <2> QED
    BY <1>a, <2>1, <2>2, Monotone, OutboxAssumption DEF QueuedWrite, Queued, IsEvent, Durable
<1>b. (\A v \in Workers : Kept(v)) => WriteQueued'
  BY <1>a DEF WriteQueued
<1> HIDE DEF Kept
<1>1. ASSUME NEW w \in Workers, NEW d \in Writes, Submit(w, d) PROVE WriteQueued'
  <2>1. \A v \in Workers \ {w} : Kept(v)
    BY <1>1 DEF Submit, Kept
  <2>2. job'[w].stage = "sending"
    BY <1>1 DEF Submit, IdleJob
  <2>3. QueuedWrite(w)'
    BY <2>2 DEF QueuedWrite
  <2> QED
    BY <2>1, <2>3, <1>a DEF WriteQueued
<1>2. ASSUME NEW w \in Workers, Send(w) PROVE WriteQueued'
  <2>1. CASE \E answer : Finish(w, answer)
    <3>1. \A v \in Workers : Kept(v)
      BY <2>1, FinishEffect DEF Kept
    <3> QED
      BY <3>1, <1>b
  <2>2. CASE \E answer \in Answers :
               /\ job' = [job EXCEPT ![w] = [@ EXCEPT !.stage = "queueing", !.answer = answer]]
               /\ answer = "ok" => Kind[job[w].write] # "required"
    <3>1. \A v \in Workers \ {w} : Kept(v)
      BY <2>2, DeferredFields DEF Kept
    <3>2. job'[w].stage = "queueing" /\ job'[w].write = job[w].write
      BY <2>2, DeferredFields
    <3>3. job'[w].answer = "ok" => Kind[job[w].write] # "required"
      BY <2>2, DeferredFields
    <3>4. job'[w].write \in Durable /\ job'[w].answer = "ok" => IsEvent(job'[w].write)
      BY <3>2, <3>3, OutboxAssumption DEF Durable, IsEvent, Kinds
    <3>5. QueuedWrite(w)'
      BY <3>2, <3>4 DEF QueuedWrite, Durable, IsEvent
    <3> QED
      BY <3>1, <3>5, <1>a DEF WriteQueued
  <2> QED
    BY <1>2, <2>1, <2>2, SendEffect
<1>3. ASSUME NEW w \in Workers, Queue(w) PROVE WriteQueued'
  <2>1. \A v \in Workers \ {w} : Kept(v)
    BY <1>3 DEF Queue, Kept
  <2>2. job'[w].stage = "selecting" /\ job'[w].write = job[w].write /\ job[w].write \in Writes
    BY <1>3 DEF Queue, Job, Addressed
  <2>3. row'[job[w].write].status = "pending"
    BY <1>3, <2>2 DEF Queue
  <2>4. QueuedWrite(w)'
    BY <2>2, <2>3 DEF QueuedWrite, Queued
  <2> QED
    BY <2>1, <2>4, <1>a DEF WriteQueued
<1>4. ASSUME NEW w \in Workers, QueueFails(w) \/ RollBack(w) \/ Commit(w) PROVE WriteQueued'
  <2>1. \E answer : Finish(w, answer)
    BY <1>4 DEF QueueFails, RollBack, Commit
  <2>2. \A v \in Workers : Kept(v)
    BY <2>1, FinishEffect DEF Kept
  <2> QED
    BY <2>2, <1>b
<1>5. ASSUME NEW w \in Workers, Select(w) PROVE WriteQueued'
  <2>1. \A v \in Workers \ {w} : Kept(v)
    BY <1>5 DEF Select, Kept
  <2>2. job'[w].stage = "dispatching" /\ job'[w].write = job[w].write /\ job[w].stage = "selecting"
    BY <1>5 DEF Select, Job
  <2>3. job[w].write \in Writes \cup {NoWrite} /\ UNCHANGED row
    BY <1>5 DEF Job, Select
  <2>4. QueuedWrite(w)
    BY DEF WriteQueued
  <2>5. QueuedWrite(w)'
    BY <2>2, <2>3, <2>4 DEF QueuedWrite, Queued
  <2> QED
    BY <2>1, <2>5, <1>a DEF WriteQueued
<1>6. ASSUME NEW w \in Workers, NEW d \in Writes, DispatchOne(w, d) PROVE WriteQueued'
  <2>1. \A v \in Workers : Kept(v)
    BY <1>6 DEF DispatchOne, Job, Kept
  <2> QED
    BY <2>1, <1>b
<1>7. ASSUME NEW w \in Workers, Restart(w) \/ Crash(w) PROVE WriteQueued'
  <2>1. Start(w)
    BY <1>7 DEF Restart, Crash
  <2>2. \A v \in Workers : Kept(v)
    BY <2>1, StartEffect DEF Kept
  <2> QED
    BY <2>2, <1>b
<1>8. ASSUME UNCHANGED job PROVE WriteQueued'
  <2>1. \A v \in Workers : Kept(v)
    BY <1>8 DEF Kept
  <2> QED
    BY <2>1, <1>b
<1>9. ASSUME NEW d \in Writes, ComeDue(d) PROVE UNCHANGED job
  BY <1>9 DEF ComeDue
<1>10. ASSUME NEW x \in {"mongo", "bus"}, Fail(x) \/ Recover(x) PROVE UNCHANGED job
  BY <1>10 DEF Fail, Recover
<1>11. CASE CoolDown \/ Connect \/ UNCHANGED vars
  BY <1>8, <1>11 DEF CoolDown, Connect, vars
<1> QED
  BY <1>1, <1>2, <1>3, <1>4, <1>5, <1>6, <1>7, <1>8, <1>9, <1>10, <1>11
  DEF Next, Proceed, Dispatch

LEMMA AnswerStep ==
  ASSUME TypeOK, Addressed, BatchHonest, WriteQueued, AnswerHonest, [Next]_vars
  PROVE  AnswerHonest'
<1> USE DEF TypeOK
<1>a. ASSUME NEW d \in Durable, answered'[d] = answered[d] PROVE HonestAnswer(d)'
  BY <1>a, Monotone DEF AnswerHonest, HonestAnswer, Queued, Durable
<1>b. UNCHANGED answered => AnswerHonest'
  BY <1>a DEF AnswerHonest, Durable
<1>c. ASSUME NEW w \in Workers, NEW answer, Finish(w, answer),
             job[w].write \in Durable /\ answer = "ok"
               => job[w].write \in Done' \/ Queued(job[w].write)
      PROVE  AnswerHonest'
  <2>1. ASSUME NEW d \in Durable, d = job[w].write PROVE HonestAnswer(d)'
    <3>1. answered'[d] = answer
      BY <1>c, <2>1, FinishEffect DEF Durable
    <3>2. Queued(d) => Queued(d)'
      BY Monotone DEF Durable
    <3> QED
      BY <1>c, <2>1, <3>1, <3>2 DEF HonestAnswer, Queued
  <2>2. ASSUME NEW d \in Durable, d # job[w].write PROVE HonestAnswer(d)'
    <3>1. answered'[d] = answered[d]
      BY <1>c, <2>2, FinishEffect DEF Durable
    <3> QED
      BY <3>1, <1>a
  <2> QED
    BY <2>1, <2>2 DEF AnswerHonest, Durable
<1>1. ASSUME NEW w \in Workers, NEW d \in Writes, Submit(w, d) PROVE AnswerHonest'
  BY <1>1, <1>b DEF Submit
<1>2. ASSUME NEW w \in Workers, Send(w) PROVE AnswerHonest'
  <2>1. CASE Finish(w, "ok") /\ job[w].write \in Done'
    BY <2>1, <1>c
  <2>2. CASE Finish(w, "error")
    BY <2>2, <1>c
  <2>3. CASE UNCHANGED answered
    BY <2>3, <1>b
  <2> QED
    BY <1>2, <2>1, <2>2, <2>3, SendEffect
<1>3. ASSUME NEW w \in Workers, QueueFails(w) PROVE AnswerHonest'
  <2>1. Finish(w, IF IsEvent(job[w].write) THEN "error" ELSE job[w].answer)
    BY <1>3 DEF QueueFails
  <2>2. job[w].stage = "queueing" /\ QueuedWrite(w)
    BY <1>3 DEF QueueFails, WriteQueued
  <2>3. ~(job[w].write \in Durable /\ (IF IsEvent(job[w].write) THEN "error" ELSE job[w].answer) = "ok")
    BY <2>2 DEF QueuedWrite
  <2> QED
    BY <2>1, <2>3, <1>c
<1>4. ASSUME NEW w \in Workers, Commit(w) \/ RollBack(w) PROVE AnswerHonest'
  <2>1. Finish(w, job[w].answer)
    BY <1>4 DEF Commit, RollBack
  <2>2. job[w].stage = "dispatching" /\ QueuedWrite(w)
    BY <1>4 DEF Commit, RollBack, Batched, WriteQueued
  <2>3. job[w].write \in Durable => Queued(job[w].write)
    BY <2>2, OutboxAssumption DEF QueuedWrite, Durable
  <2> QED
    BY <2>1, <2>3, <1>c
<1>5. ASSUME NEW w \in Workers, Queue(w) \/ Select(w) PROVE AnswerHonest'
  BY <1>5, <1>b DEF Queue, Select
<1>6. ASSUME NEW w \in Workers, NEW d \in Writes, DispatchOne(w, d) PROVE AnswerHonest'
  BY <1>6, <1>b DEF DispatchOne
<1>7. ASSUME NEW w \in Workers, Restart(w) \/ Crash(w) PROVE AnswerHonest'
  BY <1>7, <1>b DEF Restart, Crash, Start
<1>8. ASSUME NEW d \in Writes, ComeDue(d) PROVE AnswerHonest'
  BY <1>8, <1>b DEF ComeDue
<1>9. ASSUME NEW x \in {"mongo", "bus"}, Fail(x) \/ Recover(x) PROVE AnswerHonest'
  BY <1>9, <1>b DEF Fail, Recover
<1>10. CASE CoolDown \/ Connect \/ UNCHANGED vars
  BY <1>10, <1>b DEF CoolDown, Connect, vars
<1> QED
  BY <1>1, <1>2, <1>3, <1>4, <1>5, <1>6, <1>7, <1>8, <1>9, <1>10
  DEF Next, Proceed, Dispatch

LEMMA InvInit == Init => IInv
<1> SUFFICES ASSUME Init PROVE IInv
  OBVIOUS
<1>1. \A w \in Workers : job[w] = IdleJob
  BY DEF Init
<1>2. IdleJob.write = NoWrite /\ IdleJob.batch = {} /\ IdleJob.todo = {} /\ IdleJob.stage = "idle"
  BY DEF IdleJob
<1>3. \A d \in Writes : row[d].status = "none" /\ answered[d] = "none"
  BY DEF Init, NoRows, NoRow
<1>4. Origin /\ TableHonest
  BY <1>1, <1>2, <1>3 DEF Init, Origin, Queued, TableHonest, Durable
<1>5. BatchHonest /\ WriteQueued
  BY <1>1, <1>2 DEF BatchHonest, HonestBatch, WriteQueued, QueuedWrite
<1>6. AnswerHonest
  BY <1>3 DEF AnswerHonest, HonestAnswer, Durable
<1> QED
  BY <1>4, <1>5, <1>6, TypeInit DEF IInv

LEMMA InvStep == IInv /\ [Next]_vars => IInv'
BY TypeStep, OriginStep, HonestStep, WriteQueuedStep, AnswerStep DEF IInv

LEMMA Invariant == Spec => []IInv
BY InvInit, InvStep, PTL DEF Spec

(***************************************************************************)
(* The results                                                             *)
(***************************************************************************)

\* Whichever of the direct path, the queue and the batch fails, a required write
\* or an event whose caller was told all is well has arrived, or waits in the
\* table with a status that dispatch_outbox_batch looks for (outbox.py 112); the
\* exception are events whose publication failed without an error, because Redis
\* is not required or its quota is used up (redis_client.py 552-569).
THEOREM AcceptedIsNeverLost == Spec => []AcceptedIsNotLost
<1>1. IInv => AcceptedIsNotLost
  <2> SUFFICES ASSUME IInv, NEW d \in Durable, answered[d] = "ok"
               PROVE  d \in delivered \/ InPlay(d) \/ (IsEvent(d) /\ d \in swallowed)
    BY DEF AcceptedIsNotLost
  <2>1. d \in Done \/ row[d].status # "none"
    BY DEF IInv, AnswerHonest, HonestAnswer, Queued
  <2>2. row[d].status = "sent" => d \in Done
    BY DEF IInv, TableHonest
  <2>3. row[d].status \in {"none", "pending", "failed", "sent"}
    BY DEF IInv, TypeOK, Row, Durable
  <2>4. d \in swallowed => IsEvent(d)
    BY DEF IInv, Origin
  <2> QED
    BY <2>1, <2>2, <2>3, <2>4 DEF InPlay, Done
<1> QED
  BY <1>1, Invariant, PTL

\* Where Redis is required and its quota is not used up, no event passes for
\* published that is not: what was accepted has arrived or waits in the table,
\* without an exception (redis_client.py 161-162, 567-568).
THEOREM RequiredBusLosesNothing ==
  QuietFailures = {FALSE} /\ Spec
    => [](\A d \in Durable : answered[d] = "ok" => d \in delivered \/ InPlay(d))
<1> DEFINE NoneSwallowed == QuietFailures = {FALSE} /\ swallowed = {}
<1>1. QuietFailures = {FALSE} /\ Init => NoneSwallowed
  BY DEF Init
<1>2. NoneSwallowed /\ [Next]_vars => NoneSwallowed'
  <2> SUFFICES ASSUME NoneSwallowed, [Next]_vars PROVE swallowed' = swallowed
    OBVIOUS
  <2>1. \A d, quiet : Try(d, quiet) => swallowed' = swallowed
    BY DEF Try
  <2>2. ASSUME NEW w \in Workers, Proceed(w) PROVE swallowed' = swallowed
    BY <2>1, <2>2 DEF Proceed, Send, SendNow, SendRefused, SendDeferred, Queue, Dispatch,
                      Select, DispatchOne, Commit
  <2>3. ASSUME NEW w \in Workers, NEW d \in Writes, Submit(w, d) PROVE swallowed' = swallowed
    BY <2>3 DEF Submit
  <2>4. ASSUME NEW w \in Workers, QueueFails(w) \/ RollBack(w) \/ Restart(w) \/ Crash(w)
        PROVE  swallowed' = swallowed
    BY <2>4 DEF QueueFails, RollBack, Restart, Crash, Start
  <2>5. ASSUME NEW d \in Writes, ComeDue(d) PROVE swallowed' = swallowed
    BY <2>5 DEF ComeDue
  <2>6. ASSUME NEW x \in {"mongo", "bus"}, Fail(x) \/ Recover(x) PROVE swallowed' = swallowed
    BY <2>6 DEF Fail, Recover
  <2>7. CASE CoolDown \/ Connect \/ UNCHANGED vars
    BY <2>7 DEF CoolDown, Connect, vars
  <2> QED
    BY <2>2, <2>3, <2>4, <2>5, <2>6, <2>7 DEF Next
<1>3. AcceptedIsNotLost /\ NoneSwallowed
        => \A d \in Durable : answered[d] = "ok" => d \in delivered \/ InPlay(d)
  BY DEF AcceptedIsNotLost
<1> HIDE DEF NoneSwallowed
<1> QED
  BY <1>1, <1>2, <1>3, AcceptedIsNeverLost, PTL DEF Spec

\* A step that neither submits nor delivers at most changes what counts as sent.
LEMMA AccountStep ==
  ASSUME TableHonest', Origin', delivered \subseteq Writes,
         UNCHANGED <<delivered, swallowed, submitted>>
  PROVE  D!Account
BY DEF TableHonest, Origin, D!Account, Sent, Durable, Done

\* A try is a delivery, or the loss of an event.
LEMMA DeliverStep ==
  ASSUME TypeOK, NEW d \in submitted, UNCHANGED <<row, submitted>>, NEW quiet, Try(d, quiet)
  PROVE  D!Next \/ UNCHANGED <<submitted \cap Durable, delivered \cap Durable, swallowed, Sent \cap Durable>>
<1>0. /\ d \in Writes /\ d \in submitted
      /\ delivered \subseteq delivered' /\ delivered' \subseteq delivered \cup {d}
      /\ swallowed \subseteq swallowed' /\ swallowed' \subseteq swallowed \cup {d}
      /\ swallowed' = swallowed \/ IsEvent(d)
  BY TryType DEF TypeOK
<1>1. UNCHANGED <<submitted \cap Durable, Sent \cap Durable>>
  BY DEF Sent
<1>2. \/ (delivered \cap Durable)' = delivered \cap Durable
      \/ d \in Durable /\ (delivered \cap Durable)' = (delivered \cap Durable) \cup {d}
  <2>1. delivered' = delivered \/ delivered' = delivered \cup {d}
    BY <1>0
  <2> QED
    BY <1>0, <2>1 DEF Durable
<1>3. CASE swallowed' # swallowed
  <2>1. d \in submitted \cap Durable /\ d \in {e \in Writes : IsEvent(e)}
    BY <1>0, <1>3 DEF Durable, IsEvent
  <2>2. swallowed' = swallowed \cup {d}
    BY <1>0, <1>3
  <2>3. D!Drop(d)
    BY <1>1, <1>2, <2>1, <2>2 DEF D!Drop
  <2> QED
    BY <2>1, <2>3 DEF D!Next
<1>4. CASE swallowed' = swallowed /\ (delivered \cap Durable)' = delivered \cap Durable
  BY <1>1, <1>4
<1>5. CASE /\ swallowed' = swallowed /\ d \in Durable
           /\ (delivered \cap Durable)' = (delivered \cap Durable) \cup {d}
  <2>1. D!Deliver(d)
    BY <1>1, <1>5 DEF D!Deliver
  <2> QED
    BY <1>5, <2>1 DEF D!Next
<1> QED
  BY <1>2, <1>3, <1>4, <1>5

\* Every step of the outbox is a step of Delivery or leaves its variables alone.
LEMMA RefinementStep ==
  ASSUME IInv, IInv', [Next]_vars
  PROVE  D!Next \/ UNCHANGED <<submitted \cap Durable, delivered \cap Durable, swallowed, Sent \cap Durable>>
<1> USE DEF IInv, TypeOK
<1>a. UNCHANGED <<delivered, swallowed, submitted>> => D!Next
  BY AccountStep DEF D!Next
<1>1. ASSUME NEW w \in Workers, NEW d \in Writes, Submit(w, d)
      PROVE  D!Next \/ UNCHANGED <<submitted \cap Durable, delivered \cap Durable, swallowed, Sent \cap Durable>>
  <2>1. UNCHANGED <<delivered, swallowed, row>> /\ submitted' = submitted \cup {d}
    BY <1>1 DEF Submit
  <2>2. UNCHANGED <<delivered \cap Durable, swallowed, Sent \cap Durable>>
    BY <2>1 DEF Sent
  <2>3. CASE d \in Durable
    <3>1. (submitted \cap Durable)' = (submitted \cap Durable) \cup {d}
      BY <2>1, <2>3 DEF Durable
    <3> QED
      BY <2>2, <2>3, <3>1 DEF D!Next, D!Accept
  <2>4. CASE d \notin Durable
    <3>1. (submitted \cap Durable)' = submitted \cap Durable
      BY <2>1, <2>4 DEF Durable
    <3> QED
      BY <2>2, <3>1
  <2> QED
    BY <2>3, <2>4
<1>2. ASSUME NEW w \in Workers, Send(w)
      PROVE  D!Next \/ UNCHANGED <<submitted \cap Durable, delivered \cap Durable, swallowed, Sent \cap Durable>>
  <2>1. job[w].write \in submitted
    BY <1>2, SendEffect, OutboxAssumption DEF Origin
  <2> QED
    BY <1>2, <2>1, SendEffect, TryType, DeliverStep
<1>3. ASSUME NEW w \in Workers, NEW d \in Writes, DispatchOne(w, d)
      PROVE  D!Next \/ UNCHANGED <<submitted \cap Durable, delivered \cap Durable, swallowed, Sent \cap Durable>>
  <2>1. d \in submitted
    BY <1>3 DEF DispatchOne, Turn, BatchHonest, HonestBatch, Origin
  <2> QED
    BY <1>3, <2>1, TryType, DeliverStep DEF DispatchOne
<1>4. ASSUME NEW w \in Workers,
             \/ Queue(w) \/ QueueFails(w) \/ Select(w) \/ Commit(w)
             \/ RollBack(w) \/ Restart(w) \/ Crash(w)
      PROVE  D!Next
  BY <1>4, <1>a DEF Queue, QueueFails, Select, Commit, RollBack, Restart, Crash, Start
<1>5. ASSUME NEW d \in Writes, ComeDue(d) PROVE D!Next
  BY <1>5, <1>a DEF ComeDue
<1>6. ASSUME NEW x \in {"mongo", "bus"}, Fail(x) \/ Recover(x) PROVE D!Next
  BY <1>6, <1>a DEF Fail, Recover
<1>7. CASE CoolDown \/ Connect \/ UNCHANGED vars
  BY <1>7, <1>a DEF CoolDown, Connect, vars
<1> QED
  BY <1>1, <1>2, <1>3, <1>4, <1>5, <1>6, <1>7 DEF Next, Proceed, Dispatch

\* The outbox implements Delivery: whatever crashes, rollbacks, outages, lost
\* answers and second dispatchers come in between, a required write is marked
\* sent only after it has arrived, an event after it has arrived or after a
\* publication of it failed without an error, and nothing that has arrived is
\* taken back (outbox.py 106-156, redis_client.py 552-569).
THEOREM ImplementsDelivery == Spec => DeliversAtLeastOnce
<1>1. Init => D!Init
  BY DEF Init, D!Init, Sent, Durable, NoRows, NoRow
<1>2. IInv /\ IInv' /\ [Next]_vars
        => [D!Next]_<<submitted \cap Durable, delivered \cap Durable, swallowed, Sent \cap Durable>>
  BY RefinementStep
<1> QED
  BY <1>1, <1>2, Invariant, PTL DEF Spec, DeliversAtLeastOnce, D!Spec
=============================================================================
