----------------------------- MODULE OtpDispatch -----------------------------
(***************************************************************************)
(* Sending one-time codes and queueing background work (app/workers.py,    *)
(* app/otp_delivery.py).  A request stores its code, hands it to a Celery  *)
(* worker or sends it itself, and waits for the answer; a worker may die   *)
(* or answer late, a broker or a mail server may take what it reports as   *)
(* failed.                                                                 *)
(***************************************************************************)
EXTENDS Naturals

CONSTANTS
  CodeRequests,   \* requests for a code
  Notices,        \* notifications, recomputations and face checks that are queued
  MailSetups      \* the configurations that are looked at
ASSUME DispatchAssumption ==
  MailSetups \subseteq [direct : BOOLEAN, required : BOOLEAN, fallback : BOOLEAN, threads : BOOLEAN,
                        mode : {"smtp", "graph", "sendgrid"}, sendgrid : BOOLEAN, gmail : BOOLEAN]

VARIABLES
  setup,       \* OTP_DELIVERY_DIRECT_SYNC, WORKER_REQUIRED, OTP_INLINE_FALLBACK_ENABLED, ...
  codes,       \* auth_otps row of each request: "none", "live" or "used"
  mailedCodes, \* requests whose code a mail server has taken
  sending,     \* a request: where it is, may it send inline, its task
  tasks,       \* tasks of each request: "none", "queued", "sent", "failed" or "lost"
  notices      \* what became of each notice

dispatchVars == <<setup, codes, mailedCodes, sending, tasks, notices>>

Attempts == {1, 2}
IdleSending == [pc |-> "idle", inline |-> FALSE, task |-> 1]

DispatchTypeOK ==
  /\ setup \in MailSetups
  /\ codes \in [CodeRequests -> {"none", "live", "used"}]
  /\ mailedCodes \subseteq CodeRequests
  /\ sending \in [CodeRequests ->
       [pc : {"idle", "dispatch", "enqueue", "wait", "inline", "confirm", "fail", "sent", "refused"},
        inline : BOOLEAN, task : Attempts]]
  /\ tasks \in [CodeRequests -> [Attempts -> {"none", "queued", "sent", "failed", "lost"}]]
  /\ notices \in [Notices -> {"none", "queued", "thread", "refused"}]

DispatchInit ==
  /\ setup \in MailSetups
  /\ codes = [r \in CodeRequests |-> "none"] /\ mailedCodes = {}
  /\ sending = [r \in CodeRequests |-> IdleSending]
  /\ tasks = [r \in CodeRequests |-> [k \in Attempts |-> "none"]]
  /\ notices = [n \in Notices |-> "none"]

(***************************************************************************)
(* Mail servers                                                            *)
(***************************************************************************)

\* What a send may come to: taken, refused, or taken and then reported as failed.
Sends == {[taken |-> TRUE, ok |-> TRUE], [taken |-> FALSE, ok |-> FALSE], [taken |-> TRUE, ok |-> FALSE]}

\* The first way, and the second if the first fails.
OrElse(first, second) ==
  {s \in first : s.ok} \cup
  {[taken |-> s.taken \/ t.taken, ok |-> t.ok] : s \in {f \in first : ~f.ok}, t \in second}

\* _send_via_smtp: for Gmail once more over SSL.
SmtpSends == IF setup.gmail THEN OrElse(Sends, Sends) ELSE Sends

\* send_login_otp
OtpSends ==
  IF setup.mode = "smtp" /\ setup.sendgrid THEN OrElse(SmtpSends, Sends)
  ELSE IF setup.mode = "smtp" THEN SmtpSends ELSE Sends

Mailed(r, s) == mailedCodes' = IF s.taken THEN mailedCodes \cup {r} ELSE mailedCodes

(***************************************************************************)
(* A request for a code                                                    *)
(***************************************************************************)
Goto(r, pc) == sending' = [sending EXCEPT ![r].pc = pc]

\* The code is stored before it is sent (AuthSessions has the rest of the request).
RequestCode(r) ==
  /\ sending[r].pc = "idle"
  /\ codes' = [codes EXCEPT ![r] = "live"]
  /\ Goto(r, "dispatch")
  /\ UNCHANGED <<setup, mailedCodes, tasks, notices>>

\* dispatch_login_otp, sent by the request itself.
SendDirectly(r) ==
  /\ sending[r].pc = "dispatch" /\ setup.direct
  /\ \E s \in OtpSends : Mailed(r, s) /\ Goto(r, IF s.ok THEN "confirm" ELSE "fail")
  /\ UNCHANGED <<setup, codes, tasks, notices>>

\* A worker that Redis has no quota left for is not required, and may be done without.
MayInline(allowed, quotaOut) == ~(setup.required /\ ~quotaOut) /\ (allowed \/ quotaOut)

\* No live worker, or no broker, sends the request straight to its fallback.
BeginDispatch(r) ==
  /\ sending[r].pc = "dispatch" /\ ~setup.direct
  /\ \E quotaOut \in BOOLEAN, next \in {"enqueue", "inline"} :
       sending' = [sending EXCEPT ![r].pc = next, ![r].inline = MayInline(setup.fallback, quotaOut)]
  /\ UNCHANGED <<setup, codes, mailedCodes, tasks, notices>>

\* send_task: an error, after which the task may be queued all the same, is
\* answered by a second try with a new connection, once.
SendTask(r) ==
  LET k == sending[r].task
  IN  /\ sending[r].pc = "enqueue"
      /\ \/ /\ tasks' = [tasks EXCEPT ![r][k] = "queued"]
            /\ Goto(r, "wait")
         \/ /\ \E left \in {"none", "queued"} : tasks' = [tasks EXCEPT ![r][k] = left]
            /\ \/ k = 1 /\ sending' = [sending EXCEPT ![r].task = 2]
               \/ Goto(r, "inline")
      /\ UNCHANGED <<setup, codes, mailedCodes, notices>>

\* send_login_otp_task on a worker, which the task's time limit may kill.
RunTask(r, k) ==
  /\ tasks[r][k] = "queued"
  /\ \E s \in OtpSends :
       /\ Mailed(r, s)
       /\ \E left \in {IF s.ok THEN "sent" ELSE "failed", "lost"} : tasks' = [tasks EXCEPT ![r][k] = left]
  /\ UNCHANGED <<setup, codes, sending, notices>>

\* _validated_otp_delivery_payload: only a result that names a channel.
Confirms(task) == task = "sent"

\* _get_result_with_retry: the result, an error, or none in time.
GetResult(r) ==
  /\ sending[r].pc = "wait"
  /\ \/ Confirms(tasks[r][sending[r].task]) /\ Goto(r, "confirm")
     \/ ~Confirms(tasks[r][sending[r].task]) /\ Goto(r, "inline")
     \/ Goto(r, "inline")
  /\ UNCHANGED <<setup, codes, mailedCodes, tasks, notices>>

\* _run_inline_fallback
RunInline(r) ==
  /\ sending[r].pc = "inline"
  /\ \/ ~sending[r].inline /\ Goto(r, "fail") /\ UNCHANGED mailedCodes
     \/ /\ sending[r].inline
        /\ \E s \in OtpSends : Mailed(r, s) /\ Goto(r, IF s.ok THEN "confirm" ELSE "fail")
  /\ UNCHANGED <<setup, codes, tasks, notices>>

\* The code is spent by a verification, as it may be before its request is answered, or
\* retired by a later request of the account.
SpendCode(r) ==
  /\ codes[r] = "live"
  /\ codes' = [codes EXCEPT ![r] = "used"]
  /\ UNCHANGED <<setup, mailedCodes, sending, tasks, notices>>

\* The user is told; a code that was not delivered, so far as is known, is used up.
Answer(r) ==
  /\ \/ sending[r].pc = "confirm" /\ Goto(r, "sent") /\ UNCHANGED codes
     \/ sending[r].pc = "fail" /\ Goto(r, "refused") /\ codes' = [codes EXCEPT ![r] = "used"]
  /\ UNCHANGED <<setup, mailedCodes, tasks, notices>>

(***************************************************************************)
(* Background work                                                         *)
(***************************************************************************)

\* enqueue_notification and the like: queued, or run by a thread of the process
\* unless workers are required; nobody waits for it.
EnqueueNotice(n) ==
  /\ notices[n] = "none"
  /\ \E quotaOut \in BOOLEAN, taken \in BOOLEAN :
       notices' = [notices EXCEPT ![n] =
                     IF taken THEN "queued"
                     ELSE IF MayInline(setup.threads, quotaOut) THEN "thread" ELSE "refused"]
  /\ UNCHANGED <<setup, codes, mailedCodes, sending, tasks>>

DispatchNext ==
  \/ \E r \in CodeRequests :
       \/ RequestCode(r) \/ SendDirectly(r) \/ BeginDispatch(r) \/ SendTask(r)
       \/ GetResult(r) \/ RunInline(r) \/ SpendCode(r) \/ Answer(r)
       \/ \E k \in Attempts : RunTask(r, k)
  \/ \E n \in Notices : EnqueueNotice(n)

(***************************************************************************)
(* Property                                                                *)
(***************************************************************************)

\* "OTP requests must confirm delivery before succeeding" (workers.py): the user
\* is told of a code only when a mail server has taken it.  (It may be spent by then.)
ConfirmedIsMailed == \A r \in CodeRequests : sending[r].pc = "sent" => r \in mailedCodes
=============================================================================
