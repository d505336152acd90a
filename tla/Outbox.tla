------------------------------- MODULE Outbox -------------------------------
(***************************************************************************)
(* The SQL outbox of app/outbox.py behind the MongoDB mirror of            *)
(* app/mongo.py and the event bus of app/realtime_bus.py.                  *)
(*                                                                         *)
(* A request first tries its write directly.  When that fails the write    *)
(* may be queued as a row of outbox_events, and the same request then      *)
(* dispatches a batch of due rows; a starting process dispatches one too.  *)
(* There is no other dispatcher.  A batch is one transaction: it reads the *)
(* rows, tries them in the order of their ids, each after an UPDATE that   *)
(* locks the row, and commits at its end.                                  *)
(***************************************************************************)
EXTENDS Naturals, FiniteSets

CONSTANTS
  Writes,        \* ids of the rows the writes get when they are queued
  Kind,          \* [Writes -> Kinds]
  Workers,       \* threads of the process
  MaxAttempts,   \* _OUTBOX_MAX_ATTEMPTS
  BatchLimit,    \* rows a request dispatches
  StartupLimit,  \* rows a starting process dispatches
  QuietFailures, \* {FALSE} if a publish that fails is an error (REDIS_REQUIRED), {TRUE}
                 \* if not, both if Redis is required but its quota may be used up
  MaxFaults,     \* bound: crashes, failures of the SQL database and outages
  NoWrite        \* the dispatch of a starting process

\* Mirror writes that must persist, mirror writes that need not, bus events.
Kinds == {"required", "optional", "event"}

Durable == {d \in Writes : Kind[d] # "optional"}

ASSUME OutboxAssumption ==
  /\ Writes \subseteq Nat
  /\ Kind \in [Writes -> Kinds]
  /\ MaxAttempts \in Nat \ {0}
  /\ BatchLimit \in Nat \ {0}
  /\ StartupLimit \in Nat \ {0}
  /\ QuietFailures \in SUBSET BOOLEAN \ {{}}
  /\ MaxFaults \in Nat
  /\ NoWrite \notin Writes

VARIABLES
  row,        \* outbox_events
  delivered,  \* writes MongoDB or the bus holds
  swallowed,  \* history: events whose publication failed and passed for a success
  up,         \* which of the two can be reached
  link,       \* the process's connection to MongoDB
  job,        \* what each thread does
  submitted,  \* writes requests have begun
  answered,   \* what mirror_document or publish told its caller
  faults

vars == <<row, delivered, swallowed, up, link, job, submitted, answered, faults>>

\* "processing" is a status only within a batch's transaction; attempts counts no
\* further than MaxAttempts, where it stops to matter.
Row == [status : {"none", "pending", "failed", "sent"}, attempts : 0..MaxAttempts,
        due : BOOLEAN]

NoRow == [status |-> "none", attempts |-> 0, due |-> FALSE]

Answers == {"none", "ok", "error"}

\* batch: the rows read; todo: those of them not tried yet; rows: what the
\* transaction read of them, then what it wrote.
Job == [stage : {"idle", "sending", "queueing", "selecting", "dispatching"},
        write : Writes \cup {NoWrite}, answer : Answers,
        batch : SUBSET Writes, todo : SUBSET Writes, rows : [Writes -> Row]]

NoRows == [d \in Writes |-> NoRow]

IdleJob == [stage |-> "idle", write |-> NoWrite, answer |-> "none",
            batch |-> {}, todo |-> {}, rows |-> NoRows]

TypeOK ==
  /\ row \in [Writes -> Row]
  /\ delivered \subseteq Writes
  /\ swallowed \subseteq Writes
  /\ up \in [{"mongo", "bus"} -> BOOLEAN]
  /\ link \in {"open", "closed", "cooling"}
  /\ job \in [Workers -> Job]
  /\ submitted \subseteq Writes
  /\ answered \in [Writes -> Answers]
  /\ faults \in 0..MaxFaults

Init ==
  /\ row = NoRows
  /\ delivered = {}
  /\ swallowed = {}
  /\ up = [x \in {"mongo", "bus"} |-> TRUE]
  /\ link = "closed"
  /\ job = [w \in Workers |-> IdleJob]
  /\ submitted = {}
  /\ answered = [d \in Writes |-> "none"]
  /\ faults = 0

Free(w) == job[w].stage = "idle"

(***************************************************************************)
(* One try at a destination                                                *)
(***************************************************************************)

IsEvent(d) == Kind[d] = "event"

Succeeds(d) == IF IsEvent(d) THEN up["bus"] ELSE up["mongo"] /\ link # "cooling"

\* get_mongo_db has no connection: the server does not answer the attempt to
\* open one, or the last attempt is too recent to make another.
Unconnected(d) == ~IsEvent(d) /\ (link = "cooling" \/ (link = "closed" /\ ~up["mongo"]))

\* The operation is under way when it fails.
Breaks(d) == ~Succeeds(d) /\ ~Unconnected(d)

\* A broken operation may have been applied.  It closes the connection, which
\* may be opened again at once; a failed attempt to open one starts a cooldown.
\* If quiet, publish_json has returned False instead of raising the error, which
\* _publish_backend_event takes for a success.
Try(d, quiet) ==
  /\ quiet \in IF IsEvent(d) /\ ~Succeeds(d) THEN QuietFailures ELSE {FALSE}
  /\ swallowed' = IF quiet THEN swallowed \cup {d} ELSE swallowed
  /\ delivered' \in IF Succeeds(d) THEN {delivered \cup {d}}
                    ELSE IF Breaks(d) THEN {delivered, delivered \cup {d}}
                    ELSE {delivered}
  /\ link' = IF IsEvent(d) THEN link
             ELSE IF Succeeds(d) THEN "open"
             ELSE IF Breaks(d) THEN "closed" ELSE "cooling"

(***************************************************************************)
(* A request with a write                                                  *)
(***************************************************************************)

Submit(w, d) ==
  /\ Free(w)
  /\ d \notin submitted
  /\ submitted' = submitted \cup {d}
  /\ job' = [job EXCEPT ![w] = [IdleJob EXCEPT !.stage = "sending", !.write = d]]
  /\ UNCHANGED <<row, delivered, swallowed, up, link, answered, faults>>

Finish(w, answer) ==
  /\ job' = [job EXCEPT ![w] = IdleJob]
  /\ answered' = [d \in Writes |-> IF d = job[w].write THEN answer ELSE answered[d]]

SendNow(w) ==
  LET d == job[w].write IN
  /\ job[w].stage = "sending"
  /\ \E quiet \in BOOLEAN : Try(d, quiet) /\ (Succeeds(d) \/ quiet)
  /\ Finish(w, "ok")
  /\ UNCHANGED <<row, up, submitted, faults>>

\* Variant: a required write that finds no connection is answered like another.
SendRefusedQuietly(w) ==
  LET d == job[w].write IN
  /\ job[w].stage = "sending"
  /\ Kind[d] = "required"
  /\ Unconnected(d)
  /\ Try(d, FALSE)
  /\ Finish(w, "ok")
  /\ UNCHANGED <<row, up, submitted, faults>>

\* get_mongo_db(required=True) raises before anything is queued.
SendRefused(w) ==
  LET d == job[w].write IN
  /\ job[w].stage = "sending"
  /\ Kind[d] = "required"
  /\ Unconnected(d)
  /\ Try(d, FALSE)
  /\ Finish(w, "error")
  /\ UNCHANGED <<row, up, submitted, faults>>

\* The write goes to the outbox; a required one raises nevertheless.
SendDeferred(w) ==
  LET d == job[w].write IN
  /\ job[w].stage = "sending"
  /\ Breaks(d) \/ (Unconnected(d) /\ Kind[d] = "optional")
  /\ Try(d, FALSE)
  /\ job' = [job EXCEPT ![w].stage = "queueing",
                        ![w].answer = IF Kind[d] = "required" THEN "error" ELSE "ok"]
  /\ UNCHANGED <<row, up, submitted, answered, faults>>

Queue(w) ==
  /\ job[w].stage = "queueing"
  /\ row' = [row EXCEPT ![job[w].write] =
               [status |-> "pending", attempts |-> 0, due |-> TRUE]]
  /\ job' = [job EXCEPT ![w].stage = "selecting"]
  /\ UNCHANGED <<delivered, swallowed, up, link, submitted, answered, faults>>

\* The SQL database refuses the row.  Only publish tells its caller.
QueueFails(w) ==
  /\ job[w].stage = "queueing"
  /\ faults < MaxFaults
  /\ faults' = faults + 1
  /\ Finish(w, IF IsEvent(job[w].write) THEN "error" ELSE job[w].answer)
  /\ UNCHANGED <<row, delivered, swallowed, up, link, submitted>>

(***************************************************************************)
(* dispatch_outbox_batch                                                   *)
(***************************************************************************)

\* Variant: rows out of attempts are given up.
DispatchablePendingOnly == {"pending"}

Dispatchable == {"pending", "failed"}

Limit(w) == IF job[w].write = NoWrite THEN StartupLimit ELSE BatchLimit

DueRows == {d \in Writes : row[d].status \in Dispatchable /\ row[d].due}

\* ORDER BY id LIMIT.
Selected(w) == {d \in DueRows : Cardinality({e \in DueRows : e < d}) < Limit(w)}

Select(w) ==
  /\ job[w].stage = "selecting"
  /\ job' = [job EXCEPT ![w].stage = "dispatching", ![w].batch = Selected(w),
                        ![w].todo = Selected(w),
                        ![w].rows = [d \in Writes |-> IF d \in Selected(w) THEN row[d] ELSE NoRow]]
  /\ UNCHANGED <<row, delivered, swallowed, up, link, submitted, answered, faults>>

\* Variant: the rows come in any order.
TurnAnyOrder(w, d) == d \in job[w].todo

\* d is the next row of the batch.
Turn(w, d) == d \in job[w].todo /\ \A e \in job[w].todo : d <= e

\* Rows w's transaction has updated, and so locked.
Locks(w) == job[w].batch \ job[w].todo

\* Variant: a row counts as sent whether or not its destination raised.
AfterTrySwallowed(read, d, quiet) ==
  [status |-> IF Breaks(d) /\ ~quiet THEN "pending" ELSE "sent",
   attempts |-> read.attempts, due |-> FALSE]

\* The row after a try.  An optional mirror write does not raise, nor does a
\* quiet publication: they count as sent whether or not they were written.  A sent
\* row's due is of no account.
AfterTry(read, d, quiet) ==
  LET attempts == IF read.attempts < MaxAttempts THEN read.attempts + 1 ELSE MaxAttempts IN
  [status |-> IF Succeeds(d) \/ quiet \/ Kind[d] = "optional" THEN "sent"
              ELSE IF attempts = MaxAttempts THEN "failed" ELSE "pending",
   attempts |-> attempts, due |-> FALSE]

DispatchOne(w, d) ==
  /\ job[w].stage = "dispatching"
  /\ Turn(w, d)
  /\ \A v \in Workers \ {w} : d \notin Locks(v)
  /\ \E quiet \in BOOLEAN :
       /\ Try(d, quiet)
       /\ job' = [job EXCEPT ![w].todo = @ \ {d}, ![w].rows[d] = AfterTry(@, d, quiet)]
  /\ UNCHANGED <<row, up, submitted, answered, faults>>

Batched(w) == job[w].stage = "dispatching" /\ job[w].todo = {}

Commit(w) ==
  /\ Batched(w)
  /\ row' = [d \in Writes |-> IF d \in job[w].batch THEN job[w].rows[d] ELSE row[d]]
  /\ Finish(w, job[w].answer)
  /\ UNCHANGED <<delivered, swallowed, up, link, submitted, faults>>

\* The SQL database fails: the batch is rolled back, and nobody is told.
RollBack(w) ==
  /\ job[w].stage = "dispatching"
  /\ faults < MaxFaults
  /\ faults' = faults + 1
  /\ Finish(w, job[w].answer)
  /\ UNCHANGED <<row, delivered, swallowed, up, link, submitted>>

(***************************************************************************)
(* The process and the world around                                        *)
(***************************************************************************)

\* A process starts: w dispatches, other threads have nothing to do.
Start(w) ==
  /\ job' = [v \in Workers |-> IF v = w THEN [IdleJob EXCEPT !.stage = "selecting"]
                               ELSE IdleJob]
  /\ link' = "closed"
  /\ UNCHANGED <<row, delivered, swallowed, up, submitted, answered>>

Restart(w) ==
  /\ \A v \in Workers : Free(v)
  /\ Start(w)
  /\ UNCHANGED faults

Crash(w) ==
  /\ faults < MaxFaults
  /\ faults' = faults + 1
  /\ Start(w)

\* _OUTBOX_RETRY_SECONDS have passed.
ComeDue(d) ==
  /\ row[d].status \in {"pending", "failed"}
  /\ ~row[d].due
  /\ row' = [row EXCEPT ![d].due = TRUE]
  /\ UNCHANGED <<delivered, swallowed, up, link, job, submitted, answered, faults>>

CoolDown ==
  /\ link = "cooling"
  /\ link' = "closed"
  /\ UNCHANGED <<row, delivered, swallowed, up, job, submitted, answered, faults>>

\* init_mongo, called by whatever else uses MongoDB.
Connect ==
  /\ link = "closed"
  /\ link' = IF up["mongo"] THEN "open" ELSE "cooling"
  /\ UNCHANGED <<row, delivered, swallowed, up, job, submitted, answered, faults>>

Fail(x) ==
  /\ up[x]
  /\ faults < MaxFaults
  /\ faults' = faults + 1
  /\ up' = [up EXCEPT ![x] = FALSE]
  /\ UNCHANGED <<row, delivered, swallowed, link, job, submitted, answered>>

Recover(x) ==
  /\ ~up[x]
  /\ up' = [up EXCEPT ![x] = TRUE]
  /\ UNCHANGED <<row, delivered, swallowed, link, job, submitted, answered, faults>>

Send(w) == SendNow(w) \/ SendRefused(w) \/ SendDeferred(w)

Dispatch(w) == Select(w) \/ (\E d \in Writes : DispatchOne(w, d)) \/ Commit(w)

Proceed(w) == Send(w) \/ Queue(w) \/ Dispatch(w)

Next ==
  \/ \E w \in Workers :
       \/ \E d \in Writes : Submit(w, d)
       \/ Proceed(w)
       \/ QueueFails(w)
       \/ RollBack(w)
       \/ Restart(w)
       \/ Crash(w)
  \/ \E d \in Writes : ComeDue(d)
  \/ CoolDown
  \/ Connect
  \/ \E x \in {"mongo", "bus"} : Fail(x) \/ Recover(x)

Spec == Init /\ [][Next]_vars

\* Threads run, and time passes.
Fairness ==
  /\ \A w \in Workers : WF_vars(Proceed(w))
  /\ \A d \in Writes : WF_vars(ComeDue(d))
  /\ WF_vars(CoolDown)

LiveSpec == Spec /\ Fairness

(***************************************************************************)
(* Properties                                                              *)
(***************************************************************************)

Sent == {d \in Writes : row[d].status = "sent"}

InPlay(d) == row[d].status \in {"pending", "failed"}

D == INSTANCE Delivery WITH
  Writes <- Durable,
  Droppable <- {d \in Writes : IsEvent(d)},
  accepted <- submitted \cap Durable,
  delivered <- delivered \cap Durable,
  dropped <- swallowed,
  settled <- Sent \cap Durable

\* The outbox delivers required writes and events at least once: a row is marked
\* sent only when its destination has it, whatever crashes, rollbacks, outages
\* and second dispatchers come in between (outbox.py 106-156), or when it is an
\* event whose publication failed without an error (redis_client.py 552-569).
DeliversAtLeastOnce == D!Spec

\* A caller that was told all is well has its write at the destination, or in
\* the outbox where a dispatcher will find it: for required writes and events,
\* whichever of the direct path, the queue and the batch failed.  What is lost is
\* an event the bus failed to take at a time when its failures are no errors.
AcceptedIsNotLost ==
  \A d \in Durable :
    answered[d] = "ok" => d \in delivered \/ InPlay(d) \/ (IsEvent(d) /\ d \in swallowed)

\* A queued write is delivered in the end if processes keep being started and
\* the destinations stay up, unless the bus swallowed it before: rows out of
\* attempts are still dispatched, and a stale second dispatcher only repeats a
\* delivery.
RestartsDeliver ==
  ([]<><<\E w \in Workers : Restart(w)>>_vars /\ <>[](up["mongo"] /\ up["bus"]))
    => \A d \in Durable : InPlay(d) ~> d \in delivered \cup swallowed

\* Every request and dispatch ends: dispatchers that meet on the same rows lock
\* them in the same order (ORDER BY id, outbox.py 115).
JobEnds == \A w \in Workers : ~Free(w) ~> Free(w)

(***************************************************************************)
(* A claim of the repository that the code does not keep                   *)
(***************************************************************************)

\* tests/test_snapshot_outbox.py: mirror writes are queued "when mongo
\* [is] unavailable"; a queued optional write leaves the queue only when written.
QueuedUntilWritten == \A d \in Sent : d \in delivered
=============================================================================
