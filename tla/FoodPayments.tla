---------------------------- MODULE FoodPayments ----------------------------
(***************************************************************************)
(* Orders of the food hall and the payments that cover them, as the        *)
(* handlers of app/routers/food.py change them: payment intents, Razorpay  *)
(* webhooks, the browser's verify and failure callbacks, dismissal, demo   *)
(* completion, cancellation, delivery, staff updates and the timeout.      *)
(*                                                                         *)
(* A request runs on one worker thread in one READ COMMITTED transaction   *)
(* that takes no row lock.  It reads the payment row, later the order      *)
(* rows, and commits; SQLAlchemy then writes only the attributes whose     *)
(* value differs from the value read.  Requests of several workers         *)
(* interleave between these steps.  The gateway is Razorpay: attempts to   *)
(* pay one intent, and the webhook events they cause, delivered in any     *)
(* order and any number of times.  payment_webhook also serves notices     *)
(* that name another provider, "sandbox" by default: these bear no         *)
(* signature, and X-Webhook-Token is all that is asked of their sender.    *)
(***************************************************************************)
EXTENDS Naturals, FiniteSets, FoodStatuses

CONSTANTS
  Orders,        \* orders of one student, already placed
  Payments,      \* references of the payments the student may open
  Attempts,      \* payment ids the gateway hands out while one payment is tried
  Workers,       \* request threads of the API
  StaffTargets,  \* statuses staff ask for in update_order_status
  DemoMode,      \* _food_demo_mode_enabled
  NoticeStatuses, \* what sandbox notices report that pass the check of X-Webhook-Token:
                 \* {} where FOOD_PAYMENT_WEBHOOK_TOKEN is set and nobody else has it
  MaxRequests,   \* bound: requests of clients and staff, webhooks not counted
  MaxAborts,     \* bound: requests that die before they commit
  NoRef,         \* order.payment_reference is None
  NoId,          \* provider_payment_id is None
  DemoId,        \* the generated "demo_paid_..." payment id
  SandboxId      \* the payment id a sandbox notice carries

(***************************************************************************)
(* Rows                                                                    *)
(***************************************************************************)

PaymentLabels == {"pending", "created", "attempted", "failed", "paid", "cancelled"}

PaymentStatuses == {"absent", "created", "attempted", "failed", "paid", "dismissed"}

PaymentIds == Attempts \cup {NoId, DemoId, SandboxId}

OrderRow == [status : FoodOrderStatus, paymentStatus : PaymentLabels,
             ref : Payments \cup {NoRef}]

PaymentRow == [status : PaymentStatuses, pid : PaymentIds, orders : SUBSET Orders]

EventStatuses == {"authorized", "failed", "captured"}

\* A webhook as payment_webhook_events tells it from others.  attempt = NoId is
\* Razorpay's order.paid event, whose payload need not name the payment; a
\* sandbox notice bears an id of its sender's making.
Event ==
  [provider : {"razorpay"}, payment : Payments, attempt : Attempts \cup {NoId},
   status : EventStatuses]
    \cup
  [provider : {"sandbox"}, payment : Payments, attempt : {SandboxId},
   status : EventStatuses]

NoEvent == [provider |-> "none", payment |-> NoRef, attempt |-> NoId, status |-> "none"]

Effects == {"none", "pay", "attempted", "failed", "report", "dismiss"}

ASSUME ConstantsAssumption ==
  /\ DemoMode \in BOOLEAN
  /\ MaxRequests \in Nat
  /\ MaxAborts \in Nat
  /\ NoticeStatuses \subseteq EventStatuses
  /\ NoRef \notin Payments
  /\ NoId \notin Attempts
  /\ DemoId \notin Attempts
  /\ SandboxId \notin Attempts
  /\ StaffTargets \subseteq FoodOrderStatus

(***************************************************************************)
(* State                                                                   *)
(***************************************************************************)

VARIABLES
  orders,      \* committed food_orders rows
  payments,    \* committed food_payments rows
  gateway,     \* what each attempt to pay an intent went through at Razorpay
  registered,  \* payment_webhook_events: events the deduplication has stored
  job,         \* the request each worker runs
  requests,    \* requests of clients and staff so far
  aborts       \* requests that died so far

vars == <<orders, payments, gateway, registered, job, requests, aborts>>

NewOrder == [status |-> "placed", paymentStatus |-> "pending", ref |-> NoRef]

AbsentPayment == [status |-> "absent", pid |-> NoId, orders |-> {}]

\* stage "loaded": the payment row is read, the order rows are not yet;
\* "ready": all is read and the new rows are computed, the commit is to come.
Job == [stage : {"idle", "loaded", "ready"}, effect : Effects,
        payment : Payments \cup {NoRef}, event : Event \cup {NoEvent},
        payRead : PaymentRow, payNew : PaymentRow,
        ordRead : [Orders -> OrderRow], ordNew : [Orders -> OrderRow]]

NoOrders == [o \in Orders |-> NewOrder]

IdleJob == [stage |-> "idle", effect |-> "none", payment |-> NoRef, event |-> NoEvent,
            payRead |-> AbsentPayment, payNew |-> AbsentPayment,
            ordRead |-> NoOrders, ordNew |-> NoOrders]

TypeOK ==
  /\ orders \in [Orders -> OrderRow]
  /\ payments \in [Payments -> PaymentRow]
  /\ gateway \in [Payments -> [Attempts -> SUBSET {"authorized", "failed", "captured"}]]
  /\ registered \subseteq Event
  /\ job \in [Workers -> Job]
  /\ requests \in 0..MaxRequests
  /\ aborts \in 0..MaxAborts

Init ==
  /\ orders = [o \in Orders |-> NewOrder]
  /\ payments = [p \in Payments |-> AbsentPayment]
  /\ gateway = [p \in Payments |-> [a \in Attempts |-> {}]]
  /\ registered = {}
  /\ job = [w \in Workers |-> IdleJob]
  /\ requests = 0
  /\ aborts = 0

Free(w) == job[w].stage = "idle"

\* A client or a member of staff sends a request that w serves.
Request(w) ==
  /\ Free(w)
  /\ requests < MaxRequests
  /\ requests' = requests + 1

IsOrderFinal(o) == orders[o].status \in FinalStatuses

IsPaymentPaid(p) == payments[p].status = "paid"

(***************************************************************************)
(* The gateway (Razorpay)                                                  *)
(***************************************************************************)

Captured(p) == \E a \in Attempts : "captured" \in gateway[p][a]

\* Checkout hands the browser a signature for an authorised payment.
Signed(p, a) == "authorized" \in gateway[p][a]

Emitted(e) ==
  IF e.attempt = NoId
  THEN e.status = "captured" /\ Captured(e.payment)
  ELSE e.status \in gateway[e.payment][e.attempt]

GatewayStep(p, a, status) ==
  /\ payments[p].status # "absent"
  /\ ~Captured(p)
  /\ status \notin gateway[p][a]
  /\ gateway' = [gateway EXCEPT ![p][a] = @ \cup {status}]
  /\ UNCHANGED <<orders, payments, registered, job, requests, aborts>>

GatewayFail(p, a) == gateway[p][a] = {} /\ GatewayStep(p, a, "failed")

\* A failed attempt may still be authorised late.
GatewayAuthorize(p, a) == GatewayStep(p, a, "authorized")

GatewayCapture(p, a) == Signed(p, a) /\ GatewayStep(p, a, "captured")

\* Where a webhook comes from: from Razorpay, which tells what an attempt went
\* through, or from a sandbox sender, who names a payment it knows of and says
\* of it what it likes.  The latter count as requests of clients.
Arrives(w, e) ==
  \/ /\ e.provider = "razorpay"
     /\ Emitted(e)
     /\ Free(w)
     /\ UNCHANGED requests
  \/ /\ e.provider = "sandbox"
     /\ e.status \in NoticeStatuses
     /\ payments[e.payment].status # "absent"
     /\ Request(w)

(***************************************************************************)
(* What a handler makes of an order row                                    *)
(***************************************************************************)

\* Variant: a payment always verifies its order.
PaidOrderAlwaysVerified(row, p) ==
  [status |-> "verified", paymentStatus |-> "paid", ref |-> p]

\* Variant: a payment leaves the order's status to the shop.
PaidOrderStatusKept(row, p) ==
  [status |-> row.status, paymentStatus |-> "paid", ref |-> p]

PaidOrder(row, p) ==
  [status |-> IF row.status = "placed" THEN "verified" ELSE row.status,
   paymentStatus |-> "paid", ref |-> p]

\* Variant: the reference is updated outside the guard.
UnpaidByWebhookRef(row, p, label) ==
  [row EXCEPT !.ref = p,
              !.paymentStatus = IF row.paymentStatus = "paid" THEN "paid" ELSE label]

UnpaidByWebhook(row, p, label) ==
  IF row.paymentStatus = "paid" THEN row
  ELSE [row EXCEPT !.paymentStatus = label, !.ref = p]

ReportedFailed(row, p) == [row EXCEPT !.paymentStatus = "failed", !.ref = p]

DismissedOrder(row, p) ==
  IF row.paymentStatus = "paid" \/ row.status \in FinalStatuses THEN row
  ELSE [status |-> "cancelled", paymentStatus |-> "cancelled", ref |-> p]

EffectOn(row, effect, p) ==
  CASE effect = "pay"       -> PaidOrder(row, p)
    [] effect = "attempted" -> UnpaidByWebhook(row, p, "attempted")
    [] effect = "failed"    -> UnpaidByWebhook(row, p, "failed")
    [] effect = "report"    -> ReportedFailed(row, p)
    [] effect = "dismiss"   -> DismissedOrder(row, p)
    [] OTHER                -> row

\* Variant: whatever is not an authorisation is a capture.
WebhookStatusOptimistic(status) == IF status = "authorized" THEN "attempted" ELSE "paid"

\* _normalize_webhook_payment_state: the status a webhook asks for.
WebhookStatus(status) ==
  CASE status = "captured"   -> "paid"
    [] status = "authorized" -> "attempted"
    [] OTHER                 -> "failed"

(***************************************************************************)
(* Requests that start from a payment row                                  *)
(***************************************************************************)

\* The request of w has read the row of p and will write new to it.
Load(w, p, event, effect, new) ==
  job' = [job EXCEPT ![w] = [IdleJob EXCEPT
            !.stage = "loaded", !.effect = effect, !.payment = p, !.event = event,
            !.payRead = payments[p], !.payNew = new]]

PaidBy(p, pid) == [payments[p] EXCEPT !.status = "paid", !.pid = pid]

\* An event seen before gets its 2xx answer and changes nothing.
WebhookReplayed(w, e) ==
  /\ Arrives(w, e)
  /\ e \in registered
  /\ UNCHANGED <<orders, payments, gateway, registered, job, aborts>>

\* As WebhookStale, but the status is not compared: a payload whose
\* payment id is the row's, or that has none, is old news.
WebhookStaleById(e) ==
  LET row  == payments[e.payment]
      next == WebhookStatus(e.status)
  IN  \/ row.status = "paid" /\ next # "paid"
      \/ e.attempt \in {NoId, row.pid}

\* The payload changes nothing: the payment is captured and the news is not,
\* or status and payment id are already these.
WebhookStale(e) ==
  LET row  == payments[e.payment]
      next == WebhookStatus(e.status)
  IN  \/ row.status = "paid" /\ next # "paid"
      \/ row.status = next /\ e.attempt \in {NoId, row.pid}

WebhookIgnored(w, e) ==
  /\ Arrives(w, e)
  /\ e \notin registered
  /\ WebhookStale(e)
  /\ registered' = registered \cup {e}
  /\ UNCHANGED <<orders, payments, gateway, job, aborts>>

WebhookAccepted(w, e) ==
  LET p    == e.payment
      next == WebhookStatus(e.status)
      pid  == IF e.attempt = NoId THEN payments[p].pid ELSE e.attempt
  IN  /\ Arrives(w, e)
      /\ e \notin registered
      /\ ~WebhookStale(e)
      /\ registered' = registered \cup {e}
      /\ Load(w, p, e, IF next = "paid" THEN "pay" ELSE next,
              [payments[p] EXCEPT !.status = next, !.pid = pid])
      /\ UNCHANGED <<orders, payments, gateway, aborts>>

VerifyPayment(w, p, a) ==
  /\ Request(w)
  /\ Signed(p, a)
  /\ ~IsPaymentPaid(p)
  /\ Load(w, p, NoEvent, "pay", PaidBy(p, a))
  /\ UNCHANGED <<orders, payments, gateway, registered, aborts>>

\* The payment was captured by an event without an id: keep the browser's.
VerifyBackfill(w, p, a) ==
  /\ Request(w)
  /\ Signed(p, a)
  /\ IsPaymentPaid(p)
  /\ payments[p].pid = NoId
  /\ Load(w, p, NoEvent, "none", [payments[p] EXCEPT !.pid = a])
  /\ UNCHANGED <<orders, payments, gateway, registered, aborts>>

\* Variant: a failure report does not look whether the payment is captured.
ReportFailureUnguarded(w, p, a) ==
  /\ Request(w)
  /\ payments[p].status # "absent"
  /\ Load(w, p, NoEvent, "report", [payments[p] EXCEPT !.status = "failed", !.pid = a])
  /\ UNCHANGED <<orders, payments, gateway, registered, aborts>>

\* The browser reports a failed attempt, whose id it may not know.  A repeat
\* of the failure on record is a no-op, so it need not start a request; the
\* text of the failure is not kept here, so a repeat may also carry a new one.
ReportFailure(w, p, a) ==
  /\ Request(w)
  /\ payments[p].status \notin {"absent", "paid"}
  /\ Load(w, p, NoEvent, "report", [payments[p] EXCEPT !.status = "failed", !.pid = a])
  /\ UNCHANGED <<orders, payments, gateway, registered, aborts>>

DismissPayment(w, p) ==
  /\ Request(w)
  /\ payments[p].status \in {"failed", "attempted", "created"}
  /\ Load(w, p, NoEvent, "dismiss", [payments[p] EXCEPT !.status = "dismissed"])
  /\ UNCHANGED <<orders, payments, gateway, registered, aborts>>

CompleteDemoPayment(w, p) ==
  /\ Request(w)
  /\ DemoMode
  /\ payments[p].status \notin {"absent", "paid"}
  /\ Load(w, p, NoEvent, "pay",
          PaidBy(p, IF payments[p].pid = NoId THEN DemoId ELSE payments[p].pid))
  /\ UNCHANGED <<orders, payments, gateway, registered, aborts>>

\* The order rows of the payment are read and their new values computed.
ReadOrders(w, effect, payNew) ==
  /\ job[w].stage = "loaded"
  /\ job' = [job EXCEPT ![w] = [@ EXCEPT
       !.stage = "ready", !.effect = effect, !.payNew = payNew,
       !.ordRead = orders,
       !.ordNew = [o \in Orders |->
         IF o \in job[w].payRead.orders THEN EffectOn(orders[o], effect, job[w].payment)
         ELSE orders[o]]]]
  /\ UNCHANGED <<orders, payments, gateway, registered, requests, aborts>>

LoadOrders(w) == ReadOrders(w, job[w].effect, job[w].payNew)

\* A failure report asks the gateway before it reads the orders, and turns
\* into a capture when the gateway has one.  An unreachable gateway answers
\* nothing, and the report goes on as LoadOrders.
ReconcileFailure(w, a) ==
  /\ job[w].effect = "report"
  /\ "captured" \in gateway[job[w].payment][a]
  /\ ReadOrders(w, "pay", [job[w].payNew EXCEPT !.status = "paid", !.pid = a])

(***************************************************************************)
(* Requests that start from order rows                                     *)
(***************************************************************************)

CreatePaymentIntent(w, p, os) ==
  /\ Request(w)
  /\ payments[p].status = "absent"
  /\ \A v \in Workers : job[v].payment # p
  /\ os # {}
  /\ \A o \in os : ~IsOrderFinal(o)
  /\ job' = [job EXCEPT ![w] = [IdleJob EXCEPT
       !.stage = "ready", !.payment = p,
       !.payNew = [status |-> "created", pid |-> NoId, orders |-> os],
       !.ordRead = orders,
       !.ordNew = [o \in Orders |->
         IF o \in os THEN [orders[o] EXCEPT !.paymentStatus = "created", !.ref = p]
         ELSE orders[o]]]]
  /\ UNCHANGED <<orders, payments, gateway, registered, aborts>>

\* The request of w has read the orders and moves those of os to status.
ApplyStatus(w, os, status) ==
  /\ Request(w)
  /\ job' = [job EXCEPT ![w] = [IdleJob EXCEPT
       !.stage = "ready",
       !.ordRead = orders,
       !.ordNew = [o \in Orders |->
         IF o \in os THEN [orders[o] EXCEPT !.status = status] ELSE orders[o]]]]
  /\ UNCHANGED <<orders, payments, gateway, registered, aborts>>

StudentCancel(w, o) ==
  /\ orders[o].status \in {"placed", "verified", "preparing"}
  /\ ApplyStatus(w, {o}, "cancelled")

\* An admin cancels an order whatever its status.
AdminCancel(w, o) == ApplyStatus(w, {o}, "cancelled")

ConfirmOrderDelivery(w, o) ==
  /\ orders[o].status = "verified"
  /\ orders[o].paymentStatus = "paid"
  /\ ApplyStatus(w, {o}, "delivered")

UpdateOrderStatus(w, o, status) ==
  /\ StatusTransitionAllowed(orders[o].status, status)
  /\ ApplyStatus(w, {o}, status)

\* list_orders cancels the listed orders whose verification timed out.
EnforceOrderTimeout(w, os) ==
  /\ os # {}
  /\ \A o \in os : orders[o].status = "placed"
  /\ ApplyStatus(w, os, "cancelled")

(***************************************************************************)
(* The end of a request                                                    *)
(***************************************************************************)

\* The UPDATE the session emits: only attributes that differ from those read.
WriteBack(row, read, new) ==
  [f \in DOMAIN row |-> IF new[f] = read[f] THEN row[f] ELSE new[f]]

Commit(w) ==
  LET j == job[w] IN
  /\ j.stage = "ready"
  /\ orders' = [o \in Orders |-> WriteBack(orders[o], j.ordRead[o], j.ordNew[o])]
  /\ payments' = [p \in Payments |->
                    IF p = j.payment THEN WriteBack(payments[p], j.payRead, j.payNew)
                    ELSE payments[p]]
  /\ job' = [job EXCEPT ![w] = IdleJob]
  /\ UNCHANGED <<gateway, registered, requests, aborts>>

\* The request dies before its commit: the transaction rolls back, what it
\* wrote to MongoDB stays.
Abort(w) ==
  /\ ~Free(w)
  /\ aborts < MaxAborts
  /\ aborts' = aborts + 1
  /\ job' = [job EXCEPT ![w] = IdleJob]
  /\ UNCHANGED <<orders, payments, gateway, registered, requests>>

(***************************************************************************)
(* Specification                                                           *)
(***************************************************************************)

GatewayNext ==
  \E p \in Payments, a \in Attempts :
    GatewayFail(p, a) \/ GatewayAuthorize(p, a) \/ GatewayCapture(p, a)

DeliverWebhook(w) ==
  \E e \in Event : WebhookReplayed(w, e) \/ WebhookIgnored(w, e) \/ WebhookAccepted(w, e)

PaymentRequest(w) ==
  \E p \in Payments :
    \/ \E a \in Attempts : VerifyPayment(w, p, a) \/ VerifyBackfill(w, p, a)
    \/ \E a \in Attempts \cup {NoId} : ReportFailure(w, p, a)
    \/ DismissPayment(w, p)
    \/ CompleteDemoPayment(w, p)
    \/ \E os \in SUBSET Orders : CreatePaymentIntent(w, p, os)

OrderRequest(w) ==
  \/ \E o \in Orders :
       \/ StudentCancel(w, o)
       \/ AdminCancel(w, o)
       \/ ConfirmOrderDelivery(w, o)
       \/ \E status \in StaffTargets : UpdateOrderStatus(w, o, status)
  \/ \E os \in SUBSET Orders : EnforceOrderTimeout(w, os)

Proceed(w) == LoadOrders(w) \/ (\E a \in Attempts : ReconcileFailure(w, a)) \/ Commit(w)

Next ==
  \/ GatewayNext
  \/ \E w \in Workers :
       DeliverWebhook(w) \/ PaymentRequest(w) \/ OrderRequest(w) \/ Proceed(w) \/ Abort(w)

Spec == Init /\ [][Next]_vars

FirstDelivery(e) == \E w \in Workers : WebhookIgnored(w, e) \/ WebhookAccepted(w, e)

\* The order.paid event: all a payment's capture needs to reach the ledger.
OrderPaidEvent(p) ==
  [provider |-> "razorpay", payment |-> p, attempt |-> NoId, status |-> "captured"]

\* Requests run to their end, and Razorpay sends the order.paid event again
\* until it is answered, so that one of its deliveries meets a free worker.
Fairness ==
  /\ \A w \in Workers : WF_vars(Proceed(w))
  /\ \A p \in Payments : SF_vars(FirstDelivery(OrderPaidEvent(p)))

LiveSpec == Spec /\ Fairness

(***************************************************************************)
(* Properties that hold whatever the requests in flight                    *)
(***************************************************************************)

\* A sandbox notice on record says that p is captured.
SandboxPaid(p) ==
  \E e \in registered : e.provider = "sandbox" /\ e.payment = p /\ e.status = "captured"

\* Whatever handlers race, "paid" has one of three sources: the gateway accepted
\* an attempt at this payment, demo mode stands in for it, or a sandbox notice
\* kept in payment_webhook_events says that this payment was captured (food.py
\* 3514-3759, 4702-4831, 4834-5040).  A failure, an authorisation of another
\* payment or a mix of two requests' columns is none.
PaidNeedsGateway ==
  \A p \in Payments : IsPaymentPaid(p) =>
    DemoMode \/ SandboxPaid(p) \/ \E a \in Attempts : Signed(p, a)

\* No order covered by a paid payment still waits for verification, so
\* the verification timeout can never pick it up afresh.
PaidLeavesPlaced ==
  \A p \in Payments : IsPaymentPaid(p) =>
    \A o \in payments[p].orders : orders[o].status # "placed"

\* Money the gateway captured is recorded: as long as an event that tells of the
\* capture is not used up, the payment is marked paid at some later moment, if
\* no request dies half way.
CaptureReachesLedger ==
  \A p \in Payments :
    Captured(p) /\ OrderPaidEvent(p) \notin registered ~> IsPaymentPaid(p) \/ aborts > 0

(***************************************************************************)
(* Properties of requests served one after the other                       *)
(***************************************************************************)

\* "Webhook ignored: payment already captured": no late failure, dismissal or
\* attempt takes a payment out of "paid".
PaidPaymentStaysPaid ==
  [][\A p \in Payments : IsPaymentPaid(p) => IsPaymentPaid(p)']_vars

\* An order marked paid names the payment that paid it: that payment is paid
\* and covers the order, whichever intents were opened and failed meanwhile.
PaidOrderNamesPayment ==
  \A o \in Orders : orders[o].paymentStatus = "paid" =>
    /\ orders[o].ref \in Payments
    /\ IsPaymentPaid(orders[o].ref)
    /\ o \in payments[orders[o].ref].orders

\* An order that was delivered, cancelled, rejected or refunded never comes
\* back to the kitchen: a late payment marks it paid but does not reopen it.
SettledOrderNeverReopens ==
  [][\A o \in Orders :
       orders[o].status \in FinalStatuses \cup {"refund_pending"} =>
         orders'[o].status \in FinalStatuses \cup {"refund_pending"}]_vars

\* README 853, "replay-safe payment webhook handling": a capture event that the
\* deduplication would answer as already processed has been processed, or its
\* first delivery is still at work.
ReplaySafeWebhook ==
  \A e \in registered : e.status = "captured" =>
    IsPaymentPaid(e.payment) \/ \E w \in Workers : job[w].event = e

(***************************************************************************)
(* Claims of the repository that the code does not keep                    *)
(***************************************************************************)

\* tests/test_food_payment_hardening.py: dismissing a payment "cancels unpaid
\* orders"; an order cancelled by a dismissal was not paid by another payment.
DismissalCancelsUnpaid ==
  \A o \in Orders : orders[o].paymentStatus = "cancelled" =>
    ~\E p \in Payments : IsPaymentPaid(p) /\ o \in payments[p].orders
=============================================================================
