------------------------- MODULE FoodPaymentsProofs -------------------------
(***************************************************************************)
(* Proofs about FoodPayments, for every set of orders, payments, attempts  *)
(* and workers and every bound.                                            *)
(***************************************************************************)
EXTENDS FoodPayments, TLAPS

(***************************************************************************)
(* Type correctness                                                        *)
(***************************************************************************)

\* What the session writes back to a food_orders row is a food_orders row.
LEMMA WriteBackOrder ==
  ASSUME NEW row \in OrderRow, NEW read \in OrderRow, NEW new \in OrderRow
  PROVE  /\ WriteBack(row, read, new) \in OrderRow
         /\ WriteBack(row, read, new).status
              = IF new.status = read.status THEN row.status ELSE new.status
         /\ WriteBack(row, read, new).paymentStatus
              = IF new.paymentStatus = read.paymentStatus THEN row.paymentStatus
                ELSE new.paymentStatus
         /\ WriteBack(row, read, new).ref
              = IF new.ref = read.ref THEN row.ref ELSE new.ref
  BY DEF WriteBack, OrderRow

\* The same for a food_payments row.
LEMMA WriteBackPayment ==
  ASSUME NEW row \in PaymentRow, NEW read \in PaymentRow, NEW new \in PaymentRow
  PROVE  /\ WriteBack(row, read, new) \in PaymentRow
         /\ WriteBack(row, read, new).status
              = IF new.status = read.status THEN row.status ELSE new.status
         /\ WriteBack(row, read, new).pid
              = IF new.pid = read.pid THEN row.pid ELSE new.pid
         /\ WriteBack(row, read, new).orders
              = IF new.orders = read.orders THEN row.orders ELSE new.orders
  BY DEF WriteBack, PaymentRow

\* Each handler's view of an order turns a row into a row.
LEMMA EffectOnType ==
  ASSUME NEW row \in OrderRow, NEW effect \in Effects, NEW p \in Payments
  PROVE  EffectOn(row, effect, p) \in OrderRow
  BY DEF OrderRow, Effects, EffectOn, PaidOrder, UnpaidByWebhook, ReportedFailed,
         DismissedOrder, FoodOrderStatus, PaymentLabels, FinalStatuses

\* A request that has read a payment row knows its reference.
LoadedHasPayment == \A w \in Workers : job[w].stage = "loaded" => job[w].payment \in Payments

TypeInv == TypeOK /\ LoadedHasPayment

LEMMA IdleJobType ==
  /\ IdleJob \in Job
  /\ AbsentPayment \in PaymentRow
  /\ NewOrder \in OrderRow
  /\ NoOrders \in [Orders -> OrderRow]
  BY DEF IdleJob, Job, AbsentPayment, NoOrders, NewOrder, OrderRow, PaymentRow, Effects,
         PaymentIds, PaymentStatuses, PaymentLabels, FoodOrderStatus

\* Starting from a payment row keeps the types.
LEMMA LoadType ==
  ASSUME TypeInv, NEW w \in Workers, NEW p \in Payments, NEW event \in Event \cup {NoEvent},
         NEW effect \in Effects, NEW new \in PaymentRow,
         Load(w, p, event, effect, new)
  PROVE  /\ job' \in [Workers -> Job]
         /\ LoadedHasPayment'
  <1> DEFINE j == [IdleJob EXCEPT
            !.stage = "loaded", !.effect = effect, !.payment = p, !.event = event,
            !.payRead = payments[p], !.payNew = new]
  <1>1. payments[p] \in PaymentRow
    BY DEF TypeInv, TypeOK
  <1>2. j \in Job /\ j.stage = "loaded" /\ j.payment = p
    BY <1>1, IdleJobType DEF IdleJob, Job
  <1>3. job' = [job EXCEPT ![w] = j]
    BY DEF Load
  <1> HIDE DEF j
  <1>4. job' \in [Workers -> Job]
    BY <1>2, <1>3 DEF TypeInv, TypeOK
  <1>5. LoadedHasPayment'
    BY <1>2, <1>3 DEF TypeInv, TypeOK, LoadedHasPayment
  <1> QED
    BY <1>4, <1>5

\* Preparing new order rows, with or without a new payment, keeps the types.
LEMMA ReadyType ==
  ASSUME TypeInv, NEW w \in Workers, NEW j \in Job, j.stage # "loaded",
         job' = [job EXCEPT ![w] = j]
  PROVE  /\ job' \in [Workers -> Job]
         /\ LoadedHasPayment'
  BY DEF TypeInv, TypeOK, LoadedHasPayment

\* The fields of a webhook event.
LEMMA EventFields ==
  ASSUME NEW e \in Event
  PROVE  /\ e.payment \in Payments
         /\ e.attempt \in Attempts \cup {NoId, SandboxId}
  BY DEF Event

\* A webhook that counts as a request counts within its bound.
LEMMA ArrivesType ==
  ASSUME TypeInv, NEW w \in Workers, NEW e, Arrives(w, e)
  PROVE  requests' \in 0..MaxRequests
  BY ConstantsAssumption DEF Arrives, Request, TypeInv, TypeOK

LEMMA WebhookType ==
  ASSUME TypeInv, NEW w \in Workers, NEW e \in Event,
         WebhookReplayed(w, e) \/ WebhookIgnored(w, e) \/ WebhookAccepted(w, e)
  PROVE  TypeInv'
  <1>1. CASE WebhookReplayed(w, e)
    BY <1>1, ArrivesType DEF WebhookReplayed, TypeInv, TypeOK, LoadedHasPayment
  <1>2. CASE WebhookIgnored(w, e)
    BY <1>2, ArrivesType DEF WebhookIgnored, TypeInv, TypeOK, LoadedHasPayment
  <1>3. CASE WebhookAccepted(w, e)
    <2> DEFINE p == e.payment
               next == WebhookStatus(e.status)
               pid == IF e.attempt = NoId THEN payments[p].pid ELSE e.attempt
               new == [payments[p] EXCEPT !.status = next, !.pid = pid]
    <2>1. p \in Payments /\ e.attempt \in Attempts \cup {NoId, SandboxId}
      BY EventFields
    <2>2. payments[p] \in PaymentRow
      BY <2>1 DEF TypeInv, TypeOK
    <2>3. next \in {"paid", "attempted", "failed"}
      BY DEF WebhookStatus
    <2>4. new \in PaymentRow
      BY <2>1, <2>2, <2>3 DEF PaymentRow, PaymentStatuses, PaymentIds
    <2>5. (IF next = "paid" THEN "pay" ELSE next) \in Effects
      BY <2>3 DEF Effects
    <2>6. Load(w, p, e, IF next = "paid" THEN "pay" ELSE next, new)
      BY <1>3 DEF WebhookAccepted
    <2> HIDE DEF next, new
    <2>7. job' \in [Workers -> Job] /\ LoadedHasPayment'
      BY <2>1, <2>4, <2>5, <2>6, LoadType
    <2> QED
      BY <1>3, <2>7, ArrivesType DEF WebhookAccepted, TypeInv, TypeOK
  <1> QED
    BY <1>1, <1>2, <1>3

\* A request counts within its bound.
LEMMA RequestType ==
  ASSUME TypeInv, NEW w \in Workers, Request(w)
  PROVE  requests' \in 0..MaxRequests
  BY ConstantsAssumption DEF Request, TypeInv, TypeOK

LEMMA PaymentRequestType ==
  ASSUME TypeInv, NEW w \in Workers, PaymentRequest(w)
  PROVE  TypeInv'
  <1> PICK p \in Payments :
        \/ \E a \in Attempts : VerifyPayment(w, p, a) \/ VerifyBackfill(w, p, a)
        \/ \E a \in Attempts \cup {NoId} : ReportFailure(w, p, a)
        \/ DismissPayment(w, p)
        \/ CompleteDemoPayment(w, p)
        \/ \E os \in SUBSET Orders : CreatePaymentIntent(w, p, os)
    BY DEF PaymentRequest
  <1> payments[p] \in PaymentRow
    BY DEF TypeInv, TypeOK
  <1>1. ASSUME NEW a \in Attempts, VerifyPayment(w, p, a)  PROVE TypeInv'
    <2>1. PaidBy(p, a) \in PaymentRow
      BY DEF PaidBy, PaymentRow, PaymentStatuses, PaymentIds
    <2>2. job' \in [Workers -> Job] /\ LoadedHasPayment'
      BY <1>1, <2>1, LoadType DEF VerifyPayment, Effects
    <2> QED
      BY <1>1, <2>2, RequestType DEF VerifyPayment, TypeInv, TypeOK
  <1>2. ASSUME NEW a \in Attempts, VerifyBackfill(w, p, a)  PROVE TypeInv'
    <2>1. [payments[p] EXCEPT !.pid = a] \in PaymentRow
      BY DEF PaymentRow, PaymentIds
    <2>2. job' \in [Workers -> Job] /\ LoadedHasPayment'
      BY <1>2, <2>1, LoadType DEF VerifyBackfill, Effects
    <2> QED
      BY <1>2, <2>2, RequestType DEF VerifyBackfill, TypeInv, TypeOK
  <1>3. ASSUME NEW a \in Attempts \cup {NoId}, ReportFailure(w, p, a)  PROVE TypeInv'
    <2>1. [payments[p] EXCEPT !.status = "failed", !.pid = a] \in PaymentRow
      BY DEF PaymentRow, PaymentIds, PaymentStatuses
    <2>2. job' \in [Workers -> Job] /\ LoadedHasPayment'
      BY <1>3, <2>1, LoadType DEF ReportFailure, Effects
    <2> QED
      BY <1>3, <2>2, RequestType DEF ReportFailure, TypeInv, TypeOK
  <1>4. CASE DismissPayment(w, p)
    <2>1. [payments[p] EXCEPT !.status = "dismissed"] \in PaymentRow
      BY DEF PaymentRow, PaymentStatuses
    <2>2. job' \in [Workers -> Job] /\ LoadedHasPayment'
      BY <1>4, <2>1, LoadType DEF DismissPayment, Effects
    <2> QED
      BY <1>4, <2>2, RequestType DEF DismissPayment, TypeInv, TypeOK
  <1>5. CASE CompleteDemoPayment(w, p)
    <2> DEFINE pid == IF payments[p].pid = NoId THEN DemoId ELSE payments[p].pid
    <2>1. PaidBy(p, pid) \in PaymentRow
      BY DEF PaidBy, PaymentRow, PaymentStatuses, PaymentIds
    <2>2. job' \in [Workers -> Job] /\ LoadedHasPayment'
      BY <1>5, <2>1, LoadType DEF CompleteDemoPayment, Effects
    <2> QED
      BY <1>5, <2>2, RequestType DEF CompleteDemoPayment, TypeInv, TypeOK
  <1>6. ASSUME NEW os \in SUBSET Orders, CreatePaymentIntent(w, p, os)  PROVE TypeInv'
    <2> DEFINE new == [status |-> "created", pid |-> NoId, orders |-> os]
               rows == [o \in Orders |->
                 IF o \in os THEN [orders[o] EXCEPT !.paymentStatus = "created", !.ref = p]
                 ELSE orders[o]]
               j == [IdleJob EXCEPT
                 !.stage = "ready", !.payment = p, !.payNew = new,
                 !.ordRead = orders, !.ordNew = rows]
    <2>1. new \in PaymentRow
      BY DEF PaymentRow, PaymentStatuses, PaymentIds
    <2>2. orders \in [Orders -> OrderRow]
      BY DEF TypeInv, TypeOK
    <2>3. rows \in [Orders -> OrderRow]
      BY <2>2 DEF OrderRow, PaymentLabels
    <2>4. job' = [job EXCEPT ![w] = j]
      BY <1>6 DEF CreatePaymentIntent
    <2> HIDE DEF new, rows
    <2>5. j \in Job /\ j.stage # "loaded"
      BY <2>1, <2>2, <2>3, IdleJobType DEF Job, IdleJob
    <2> HIDE DEF j
    <2>6. job' \in [Workers -> Job] /\ LoadedHasPayment'
      BY <2>4, <2>5, ReadyType
    <2> QED
      BY <1>6, <2>6, RequestType DEF CreatePaymentIntent, TypeInv, TypeOK
  <1> QED
    BY <1>1, <1>2, <1>3, <1>4, <1>5, <1>6

LEMMA ApplyStatusType ==
  ASSUME TypeInv, NEW w \in Workers, NEW os \in SUBSET Orders, NEW status \in FoodOrderStatus,
         ApplyStatus(w, os, status)
  PROVE  TypeInv'
  <1> DEFINE rows == [o \in Orders |->
               IF o \in os THEN [orders[o] EXCEPT !.status = status] ELSE orders[o]]
             j == [IdleJob EXCEPT !.stage = "ready", !.ordRead = orders, !.ordNew = rows]
  <1>1. orders \in [Orders -> OrderRow]
    BY DEF TypeInv, TypeOK
  <1>2. rows \in [Orders -> OrderRow]
    BY <1>1 DEF OrderRow
  <1>3. job' = [job EXCEPT ![w] = j]
    BY DEF ApplyStatus
  <1> HIDE DEF rows
  <1>4. j \in Job /\ j.stage # "loaded"
    BY <1>1, <1>2, IdleJobType DEF Job, IdleJob
  <1> HIDE DEF j
  <1>5. job' \in [Workers -> Job] /\ LoadedHasPayment'
    BY <1>3, <1>4, ReadyType
  <1> QED
    BY <1>5, RequestType DEF ApplyStatus, TypeInv, TypeOK

LEMMA OrderRequestType ==
  ASSUME TypeInv, NEW w \in Workers, OrderRequest(w)
  PROVE  TypeInv'
  <1>1. ASSUME NEW o \in Orders, StudentCancel(w, o)  PROVE TypeInv'
    BY <1>1, ApplyStatusType DEF StudentCancel, FoodOrderStatus
  <1>2. ASSUME NEW o \in Orders, AdminCancel(w, o)  PROVE TypeInv'
    BY <1>2, ApplyStatusType DEF AdminCancel, FoodOrderStatus
  <1>3. ASSUME NEW o \in Orders, ConfirmOrderDelivery(w, o)  PROVE TypeInv'
    BY <1>3, ApplyStatusType DEF ConfirmOrderDelivery, FoodOrderStatus
  <1>4. ASSUME NEW o \in Orders, NEW status \in StaffTargets, UpdateOrderStatus(w, o, status)
        PROVE TypeInv'
    BY <1>4, ApplyStatusType, ConstantsAssumption DEF UpdateOrderStatus
  <1>5. ASSUME NEW os \in SUBSET Orders, EnforceOrderTimeout(w, os)  PROVE TypeInv'
    BY <1>5, ApplyStatusType DEF EnforceOrderTimeout, FoodOrderStatus
  <1> QED
    BY <1>1, <1>2, <1>3, <1>4, <1>5 DEF OrderRequest

LEMMA ReadOrdersType ==
  ASSUME TypeInv, NEW w \in Workers, NEW effect \in Effects, NEW payNew \in PaymentRow,
         ReadOrders(w, effect, payNew)
  PROVE  TypeInv'
  <1> DEFINE rows == [o \in Orders |->
               IF o \in job[w].payRead.orders THEN EffectOn(orders[o], effect, job[w].payment)
               ELSE orders[o]]
             j == [job[w] EXCEPT !.stage = "ready", !.effect = effect, !.payNew = payNew,
                                 !.ordRead = orders, !.ordNew = rows]
  <1>1. orders \in [Orders -> OrderRow] /\ job[w] \in Job /\ job \in [Workers -> Job]
    BY DEF TypeInv, TypeOK
  <1>2. job[w].payment \in Payments
    BY DEF ReadOrders, TypeInv, LoadedHasPayment
  <1>3. rows \in [Orders -> OrderRow]
    BY <1>1, <1>2, EffectOnType
  <1>4. job' = [job EXCEPT ![w] = j]
    BY <1>1 DEF ReadOrders
  <1> HIDE DEF rows
  <1>5. j \in Job /\ j.stage # "loaded"
    BY <1>1, <1>3 DEF Job
  <1> HIDE DEF j
  <1>6. job' \in [Workers -> Job] /\ LoadedHasPayment'
    BY <1>4, <1>5, ReadyType
  <1> QED
    BY <1>6 DEF ReadOrders, TypeInv, TypeOK

LEMMA CommitType ==
  ASSUME TypeInv, NEW w \in Workers, Commit(w)
  PROVE  TypeInv'
  <1>1. job[w] \in Job /\ orders \in [Orders -> OrderRow] /\ payments \in [Payments -> PaymentRow]
    BY DEF TypeInv, TypeOK
  <1>2. /\ job[w].ordRead \in [Orders -> OrderRow] /\ job[w].ordNew \in [Orders -> OrderRow]
        /\ job[w].payRead \in PaymentRow /\ job[w].payNew \in PaymentRow
    BY <1>1 DEF Job
  <1>3. orders' \in [Orders -> OrderRow]
    BY <1>1, <1>2, WriteBackOrder DEF Commit
  <1>4. payments' \in [Payments -> PaymentRow]
    BY <1>1, <1>2, WriteBackPayment DEF Commit
  <1>5. IdleJob \in Job /\ IdleJob.stage # "loaded"
    BY IdleJobType DEF IdleJob
  <1>6. job' \in [Workers -> Job] /\ LoadedHasPayment'
    BY <1>5, ReadyType DEF Commit
  <1> QED
    BY <1>3, <1>4, <1>6 DEF Commit, TypeInv, TypeOK

LEMMA ProceedType ==
  ASSUME TypeInv, NEW w \in Workers, Proceed(w) \/ Abort(w)
  PROVE  TypeInv'
  <1>1. job[w] \in Job
    BY DEF TypeInv, TypeOK
  <1>2. CASE LoadOrders(w)
    BY <1>1, <1>2, ReadOrdersType DEF LoadOrders, Job
  <1>3. ASSUME NEW a \in Attempts, ReconcileFailure(w, a)  PROVE TypeInv'
    <2>1. [job[w].payNew EXCEPT !.status = "paid", !.pid = a] \in PaymentRow
      BY <1>1 DEF Job, PaymentRow, PaymentStatuses, PaymentIds
    <2> QED
      BY <1>3, <2>1, ReadOrdersType DEF ReconcileFailure, Effects
  <1>4. CASE Commit(w)
    BY <1>4, CommitType
  <1>5. CASE Abort(w)
    <2>1. IdleJob \in Job /\ IdleJob.stage # "loaded"
      BY IdleJobType DEF IdleJob
    <2>2. job' \in [Workers -> Job] /\ LoadedHasPayment'
      BY <1>5, <2>1, ReadyType DEF Abort
    <2>3. aborts' \in 0..MaxAborts
      BY <1>5, ConstantsAssumption DEF Abort, TypeInv, TypeOK
    <2> QED
      BY <1>5, <2>2, <2>3 DEF Abort, TypeInv, TypeOK
  <1> QED
    BY <1>2, <1>3, <1>4, <1>5 DEF Proceed

LEMMA GatewayType ==
  ASSUME TypeInv, GatewayNext
  PROVE  TypeInv'
  <1>1. ASSUME NEW p \in Payments, NEW a \in Attempts,
               NEW status \in {"authorized", "failed", "captured"}, GatewayStep(p, a, status)
        PROVE  TypeInv'
    BY <1>1 DEF GatewayStep, TypeInv, TypeOK, LoadedHasPayment
  <1> QED
    BY <1>1 DEF GatewayNext, GatewayFail, GatewayAuthorize, GatewayCapture

LEMMA TypeInvStep ==
  ASSUME TypeInv, [Next]_vars
  PROVE  TypeInv'
  <1>1. ASSUME NEW w \in Workers, DeliverWebhook(w)  PROVE TypeInv'
    BY <1>1, WebhookType DEF DeliverWebhook
  <1>2. CASE UNCHANGED vars
    BY <1>2 DEF vars, TypeInv, TypeOK, LoadedHasPayment
  <1> QED
    BY <1>1, <1>2, GatewayType, PaymentRequestType, OrderRequestType, ProceedType DEF Next

LEMMA TypeInvariant == Spec => []TypeInv
  <1>1. Init => TypeInv
    BY IdleJobType, ConstantsAssumption DEF Init, TypeInv, TypeOK, LoadedHasPayment, IdleJob
  <1>2. TypeInv /\ [Next]_vars => TypeInv'
    BY TypeInvStep
  <1> QED
    BY <1>1, <1>2, PTL DEF Spec

\* Every reachable state is well typed: in particular no handler stores an order
\* status, a payment label or a reference outside the ones app/models.py knows.
THEOREM TypeCorrect == Spec => []TypeOK
  BY TypeInvariant, PTL DEF TypeInv

(***************************************************************************)
(* A payment is paid only after the gateway accepted an attempt            *)
(***************************************************************************)

\* The gateway accepted an attempt to pay p, or demo mode stands in for it, or
\* one of the events says so that came on the branch without a signature.
Vouched(events, p) ==
  \/ DemoMode
  \/ \E e \in events : e.provider = "sandbox" /\ e.payment = p /\ e.status = "captured"
  \/ \E a \in Attempts : Signed(p, a)

Accepted(p) == Vouched(registered, p)

CaptureWasSigned ==
  \A p \in Payments, a \in Attempts : "captured" \in gateway[p][a] => Signed(p, a)

\* A request about to record a payment as paid has the gateway's word for it.
JobsKnowGateway ==
  \A w \in Workers : job[w].payNew.status = "paid" =>
    job[w].payment \in Payments /\ Accepted(job[w].payment)

GatewayInv == TypeInv /\ CaptureWasSigned /\ JobsKnowGateway /\ PaidNeedsGateway

\* The property in the terms of the proof.
LEMMA PaidIsAccepted ==
  /\ PaidNeedsGateway <=> \A p \in Payments : IsPaymentPaid(p) => Accepted(p)
  /\ PaidNeedsGateway' <=> \A p \in Payments : IsPaymentPaid(p)' => Accepted(p)'
  BY DEF PaidNeedsGateway, SandboxPaid, Accepted, Vouched

\* What w is about to write is backed by the gateway; the others are untouched.
LEMMA JobStepKnowsGateway ==
  ASSUME GatewayInv, NEW w \in Workers, NEW j, job' = [job EXCEPT ![w] = j],
         UNCHANGED <<payments, gateway>>, registered \subseteq registered',
         j.payNew.status = "paid" => j.payment \in Payments /\ Vouched(registered', j.payment)
  PROVE  CaptureWasSigned' /\ JobsKnowGateway' /\ PaidNeedsGateway'
  <1>1. \A p \in Payments : Accepted(p) => Accepted(p)'
    BY DEF Accepted, Vouched, Signed
  <1>2. \A p \in Payments : Vouched(registered', p) => Accepted(p)'
    BY DEF Accepted, Vouched, Signed
  <1>3. \A v \in Workers : job'[v] = IF v = w THEN j ELSE job[v]
    BY DEF GatewayInv, TypeInv, TypeOK
  <1>4. JobsKnowGateway'
    BY <1>1, <1>2, <1>3 DEF GatewayInv, JobsKnowGateway
  <1>5. PaidNeedsGateway'
    BY <1>1, PaidIsAccepted DEF GatewayInv, IsPaymentPaid
  <1>6. CaptureWasSigned'
    BY DEF GatewayInv, CaptureWasSigned, Signed
  <1> QED
    BY <1>4, <1>5, <1>6

LEMMA LoadKnowsGateway ==
  ASSUME GatewayInv, NEW w \in Workers, NEW p \in Payments, NEW event, NEW effect, NEW new,
         Load(w, p, event, effect, new), UNCHANGED <<payments, gateway>>,
         registered \subseteq registered',
         new.status = "paid" => Vouched(registered', p)
  PROVE  CaptureWasSigned' /\ JobsKnowGateway' /\ PaidNeedsGateway'
  <1> DEFINE j == [IdleJob EXCEPT
            !.stage = "loaded", !.effect = effect, !.payment = p, !.event = event,
            !.payRead = payments[p], !.payNew = new]
  <1>1. job' = [job EXCEPT ![w] = j]
    BY DEF Load
  <1>2. j.payNew = new /\ j.payment = p
    BY DEF IdleJob
  <1> HIDE DEF j
  <1> QED
    BY <1>1, <1>2, JobStepKnowsGateway

\* Storing an event disturbs nothing.
LEMMA SameRowsKnowGateway ==
  ASSUME GatewayInv, UNCHANGED <<payments, gateway, job>>, registered \subseteq registered'
  PROVE  CaptureWasSigned' /\ JobsKnowGateway' /\ PaidNeedsGateway'
  <1>1. \A p \in Payments : Accepted(p) => Accepted(p)'
    BY DEF Accepted, Vouched, Signed
  <1>2. PaidNeedsGateway'
    BY <1>1, PaidIsAccepted DEF GatewayInv, IsPaymentPaid
  <1> QED
    BY <1>1, <1>2 DEF GatewayInv, CaptureWasSigned, JobsKnowGateway, Signed

LEMMA WebhookKnowsGateway ==
  ASSUME GatewayInv, NEW w \in Workers, NEW e \in Event,
         WebhookReplayed(w, e) \/ WebhookIgnored(w, e) \/ WebhookAccepted(w, e)
  PROVE  CaptureWasSigned' /\ JobsKnowGateway' /\ PaidNeedsGateway'
  <1>1. CASE WebhookReplayed(w, e) \/ WebhookIgnored(w, e)
    BY <1>1, SameRowsKnowGateway DEF WebhookReplayed, WebhookIgnored
  <1>2. CASE WebhookAccepted(w, e)
    <2> DEFINE next == WebhookStatus(e.status)
    <2>1. e.payment \in Payments
      BY EventFields
    <2>2. payments[e.payment] \in PaymentRow
      BY <2>1 DEF GatewayInv, TypeInv, TypeOK
    <2>3. next = "paid" => e.status = "captured"
      BY DEF WebhookStatus
    <2>4. e.status = "captured" => Vouched(registered', e.payment)
      <3>1. CASE e.provider = "razorpay"
        <4>1. e.attempt = NoId \/ e.attempt \in Attempts
          BY <3>1 DEF Event
        <4> QED
          BY <1>2, <2>1, <3>1, <4>1 DEF WebhookAccepted, Arrives, Emitted, Captured, Vouched,
                                        GatewayInv, CaptureWasSigned
      <3>2. CASE e.provider = "sandbox"
        BY <1>2, <3>2 DEF WebhookAccepted, Vouched
      <3> QED
        BY <1>2, <3>1, <3>2 DEF WebhookAccepted, Arrives
    <2>5. [payments[e.payment] EXCEPT !.status = next,
             !.pid = IF e.attempt = NoId THEN payments[e.payment].pid ELSE e.attempt].status = next
      BY <2>2 DEF PaymentRow
    <2> QED
      BY <1>2, <2>1, <2>3, <2>4, <2>5, LoadKnowsGateway DEF WebhookAccepted
  <1> QED
    BY <1>1, <1>2

LEMMA PaymentRequestKnowsGateway ==
  ASSUME GatewayInv, NEW w \in Workers, PaymentRequest(w)
  PROVE  CaptureWasSigned' /\ JobsKnowGateway' /\ PaidNeedsGateway'
  <1> PICK p \in Payments :
        \/ \E a \in Attempts : VerifyPayment(w, p, a) \/ VerifyBackfill(w, p, a)
        \/ \E a \in Attempts \cup {NoId} : ReportFailure(w, p, a)
        \/ DismissPayment(w, p)
        \/ CompleteDemoPayment(w, p)
        \/ \E os \in SUBSET Orders : CreatePaymentIntent(w, p, os)
    BY DEF PaymentRequest
  <1>0. payments[p] \in PaymentRow
    BY DEF GatewayInv, TypeInv, TypeOK
  <1>1. ASSUME NEW a \in Attempts, VerifyPayment(w, p, a) \/ VerifyBackfill(w, p, a)
        PROVE  CaptureWasSigned' /\ JobsKnowGateway' /\ PaidNeedsGateway'
    BY <1>1, LoadKnowsGateway DEF VerifyPayment, VerifyBackfill, Vouched
  <1>2. ASSUME NEW a \in Attempts \cup {NoId}, ReportFailure(w, p, a)
        PROVE  CaptureWasSigned' /\ JobsKnowGateway' /\ PaidNeedsGateway'
    <2>1. [payments[p] EXCEPT !.status = "failed", !.pid = a].status # "paid"
      BY <1>0 DEF PaymentRow
    <2> QED
      BY <1>2, <2>1, LoadKnowsGateway DEF ReportFailure
  <1>3. CASE DismissPayment(w, p)
    <2>1. [payments[p] EXCEPT !.status = "dismissed"].status # "paid"
      BY <1>0 DEF PaymentRow
    <2> QED
      BY <1>3, <2>1, LoadKnowsGateway DEF DismissPayment
  <1>4. CASE CompleteDemoPayment(w, p)
    BY <1>4, LoadKnowsGateway DEF CompleteDemoPayment, Vouched
  <1>5. ASSUME NEW os \in SUBSET Orders, CreatePaymentIntent(w, p, os)
        PROVE  CaptureWasSigned' /\ JobsKnowGateway' /\ PaidNeedsGateway'
    <2> DEFINE j == [IdleJob EXCEPT
       !.stage = "ready", !.payment = p,
       !.payNew = [status |-> "created", pid |-> NoId, orders |-> os],
       !.ordRead = orders,
       !.ordNew = [o \in Orders |->
         IF o \in os THEN [orders[o] EXCEPT !.paymentStatus = "created", !.ref = p]
         ELSE orders[o]]]
    <2>1. job' = [job EXCEPT ![w] = j]
      BY <1>5 DEF CreatePaymentIntent
    <2>2. j.payNew.status # "paid"
      BY DEF IdleJob
    <2> HIDE DEF j
    <2> QED
      BY <1>5, <2>1, <2>2, JobStepKnowsGateway DEF CreatePaymentIntent
  <1> QED
    BY <1>1, <1>2, <1>3, <1>4, <1>5

LEMMA OrderRequestKnowsGateway ==
  ASSUME GatewayInv, NEW w \in Workers, OrderRequest(w)
  PROVE  CaptureWasSigned' /\ JobsKnowGateway' /\ PaidNeedsGateway'
  <1>1. ASSUME NEW os, NEW status, ApplyStatus(w, os, status)
        PROVE  CaptureWasSigned' /\ JobsKnowGateway' /\ PaidNeedsGateway'
    <2> DEFINE j == [IdleJob EXCEPT
       !.stage = "ready",
       !.ordRead = orders,
       !.ordNew = [o \in Orders |->
         IF o \in os THEN [orders[o] EXCEPT !.status = status] ELSE orders[o]]]
    <2>1. job' = [job EXCEPT ![w] = j] /\ UNCHANGED <<payments, gateway, registered>>
      BY <1>1 DEF ApplyStatus
    <2>2. j.payNew.status # "paid"
      BY DEF IdleJob, AbsentPayment
    <2> HIDE DEF j
    <2> QED
      BY <2>1, <2>2, JobStepKnowsGateway
  <1> QED
    BY <1>1 DEF OrderRequest, StudentCancel, AdminCancel, ConfirmOrderDelivery,
                UpdateOrderStatus, EnforceOrderTimeout

LEMMA ProceedKnowsGateway ==
  ASSUME GatewayInv, NEW w \in Workers, Proceed(w) \/ Abort(w)
  PROVE  CaptureWasSigned' /\ JobsKnowGateway' /\ PaidNeedsGateway'
  <1>1. job \in [Workers -> Job] /\ job[w] \in Job /\ payments \in [Payments -> PaymentRow]
    BY DEF GatewayInv, TypeInv, TypeOK
  <1>2. job[w].payNew \in PaymentRow /\ job[w].payRead \in PaymentRow
    BY <1>1 DEF Job
  <1>3. IdleJob.payNew.status # "paid"
    BY DEF IdleJob, AbsentPayment
  <1>4. ASSUME NEW effect, NEW payNew, ReadOrders(w, effect, payNew),
               payNew.status = "paid" => job[w].payment \in Payments /\ Accepted(job[w].payment)
        PROVE  CaptureWasSigned' /\ JobsKnowGateway' /\ PaidNeedsGateway'
    <2> DEFINE j == [job[w] EXCEPT
       !.stage = "ready", !.effect = effect, !.payNew = payNew,
       !.ordRead = orders,
       !.ordNew = [o \in Orders |->
         IF o \in job[w].payRead.orders THEN EffectOn(orders[o], effect, job[w].payment)
         ELSE orders[o]]]
    <2>1. job' = [job EXCEPT ![w] = j] /\ UNCHANGED <<payments, gateway, registered>>
      BY <1>1, <1>4 DEF ReadOrders
    <2>2. j.payNew = payNew /\ j.payment = job[w].payment
      BY <1>1 DEF Job
    <2> HIDE DEF j
    <2> QED
      BY <1>4, <2>1, <2>2, JobStepKnowsGateway DEF Accepted
  <1>5. CASE LoadOrders(w)
    BY <1>4, <1>5 DEF LoadOrders, GatewayInv, JobsKnowGateway
  <1>6. ASSUME NEW a \in Attempts, ReconcileFailure(w, a)
        PROVE  CaptureWasSigned' /\ JobsKnowGateway' /\ PaidNeedsGateway'
    <2>1. job[w].payment \in Payments
      BY <1>6 DEF ReconcileFailure, ReadOrders, GatewayInv, TypeInv, LoadedHasPayment
    <2>2. Accepted(job[w].payment)
      BY <1>6, <2>1 DEF ReconcileFailure, Accepted, Vouched, GatewayInv, CaptureWasSigned
    <2> QED
      BY <1>4, <1>6, <2>1, <2>2 DEF ReconcileFailure
  <1>7. CASE Commit(w)
    <2>1. job' = [job EXCEPT ![w] = IdleJob] /\ UNCHANGED <<gateway, registered>>
      BY <1>7 DEF Commit
    <2>6. \A p \in Payments : Accepted(p) => Accepted(p)'
      BY <2>1 DEF Accepted, Vouched, Signed
    <2>2. ASSUME NEW p \in Payments, IsPaymentPaid(p)'  PROVE Accepted(p)
      <3>1. IsPaymentPaid(p) \/ (p = job[w].payment /\ job[w].payNew.status = "paid")
        BY <1>1, <1>2, <1>7, <2>2, WriteBackPayment DEF Commit, IsPaymentPaid
      <3> QED
        BY <3>1, PaidIsAccepted DEF GatewayInv, JobsKnowGateway
    <2>3. PaidNeedsGateway'
      BY <2>2, <2>6, PaidIsAccepted
    <2>4. JobsKnowGateway'
      BY <1>1, <1>3, <2>1, <2>6 DEF GatewayInv, JobsKnowGateway
    <2>5. CaptureWasSigned'
      BY <2>1 DEF GatewayInv, CaptureWasSigned, Signed
    <2> QED
      BY <2>3, <2>4, <2>5
  <1>8. CASE Abort(w)
    BY <1>3, <1>8, JobStepKnowsGateway DEF Abort
  <1> QED
    BY <1>5, <1>6, <1>7, <1>8 DEF Proceed

LEMMA GatewayStepKnowsGateway ==
  ASSUME GatewayInv, GatewayNext
  PROVE  CaptureWasSigned' /\ JobsKnowGateway' /\ PaidNeedsGateway'
  <1>1. ASSUME NEW p \in Payments, NEW a \in Attempts, NEW status,
               GatewayStep(p, a, status), status = "captured" => Signed(p, a)
        PROVE  CaptureWasSigned' /\ JobsKnowGateway' /\ PaidNeedsGateway'
    <2>1. \A q \in Payments, b \in Attempts :
            gateway'[q][b] = IF q = p /\ b = a THEN gateway[q][b] \cup {status} ELSE gateway[q][b]
      BY <1>1 DEF GatewayStep, GatewayInv, TypeInv, TypeOK
    <2>2. \A q \in Payments : Accepted(q) => Accepted(q)'
      BY <1>1, <2>1 DEF GatewayStep, Accepted, Vouched, Signed
    <2>3. ASSUME NEW q \in Payments, NEW b \in Attempts, "captured" \in gateway'[q][b]
          PROVE  "authorized" \in gateway'[q][b]
      <3>1. "captured" \in gateway[q][b] \/ (q = p /\ b = a /\ status = "captured")
        BY <2>1, <2>3
      <3>2. "authorized" \in gateway[q][b]
        BY <1>1, <3>1 DEF GatewayInv, CaptureWasSigned, Signed
      <3> QED
        BY <2>1, <3>2
    <2>4. CaptureWasSigned'
      BY <2>3 DEF CaptureWasSigned, Signed
    <2> QED
      BY <1>1, <2>4, <2>2, PaidIsAccepted DEF GatewayStep, GatewayInv, JobsKnowGateway,
                                            IsPaymentPaid
  <1> QED
    BY <1>1 DEF GatewayNext, GatewayFail, GatewayAuthorize, GatewayCapture

\* Whatever webhooks, callbacks and staff requests race, a payment is recorded
\* as paid only after the gateway accepted one of its attempts, in demo mode, or
\* after a sandbox notice that passed the check of its token said so of it.
THEOREM PaidNeedsGatewayAlways == Spec => []PaidNeedsGateway
  <1>1. Init => CaptureWasSigned /\ JobsKnowGateway /\ PaidNeedsGateway
    BY DEF Init, CaptureWasSigned, JobsKnowGateway, PaidNeedsGateway, IsPaymentPaid,
           AbsentPayment, IdleJob, Signed
  <1>2. GatewayInv /\ [Next]_vars => CaptureWasSigned' /\ JobsKnowGateway' /\ PaidNeedsGateway'
    <2>1. CASE UNCHANGED vars
      BY <2>1, SameRowsKnowGateway DEF vars
    <2> QED
      BY <2>1, GatewayStepKnowsGateway, WebhookKnowsGateway, PaymentRequestKnowsGateway,
         OrderRequestKnowsGateway, ProceedKnowsGateway DEF Next, DeliverWebhook
  <1> QED
    BY <1>1, <1>2, TypeInvariant, PTL DEF Spec, GatewayInv

(***************************************************************************)
(* Paid orders leave the "placed" status for good, however many requests   *)
(* are in flight: the proof that the verification timeout and the capture  *)
(* of a payment cannot both win an order that stays "placed".              *)
(***************************************************************************)

\* A request on orders alone.
NoPayment(j) == j.payment \notin Payments /\ j.payNew.status # "paid"

\* A request on a payment that exists: the orders it covers never change.
KnownPayment(j) ==
  /\ j.payment \in Payments
  /\ j.payRead.status # "absent"
  /\ payments[j.payment].status # "absent"
  /\ j.payNew.status # "absent"
  /\ j.payRead.orders = payments[j.payment].orders
  /\ j.payNew.orders = j.payRead.orders

\* A request that opens a payment nobody else knows yet.
FreshPayment(j) ==
  /\ j.stage = "ready"
  /\ j.payment \in Payments
  /\ j.payRead = AbsentPayment
  /\ payments[j.payment].status = "absent"
  /\ j.payNew.status = "created"

\* What j read as no longer placed still is, and j will not make it placed.
LeavesPlacedAlone(j) ==
  j.stage = "ready" => \A o \in Orders : j.ordRead[o].status # "placed" =>
    orders[o].status # "placed" /\ j.ordNew[o].status # "placed"

\* A request that records a payment as paid moves its orders out of "placed".
PaysOrders(j) ==
  j.payNew.status = "paid" =>
    /\ j.stage = "loaded" =>
         \/ j.effect = "pay"
         \/ j.effect = "none" /\ \A o \in j.payRead.orders : orders[o].status # "placed"
    /\ j.stage = "ready" => \A o \in j.payRead.orders : j.ordNew[o].status # "placed"

JobInv(j) ==
  /\ NoPayment(j) \/ KnownPayment(j) \/ FreshPayment(j)
  /\ LeavesPlacedAlone(j)
  /\ PaysOrders(j)

FreshAlone ==
  \A v, w \in Workers : v # w /\ FreshPayment(job[v]) => job[w].payment # job[v].payment

GatewayNeedsPayment ==
  \A p \in Payments, a \in Attempts : payments[p].status = "absent" => gateway[p][a] = {}

Placed ==
  /\ PaidLeavesPlaced
  /\ \A w \in Workers : JobInv(job[w])
  /\ FreshAlone
  /\ GatewayNeedsPayment

PlacedInv == TypeInv /\ Placed

\* A worker that only changes its own request.
LEMMA JobStepPlaced ==
  ASSUME PlacedInv, NEW w \in Workers, NEW j, job' = [job EXCEPT ![w] = j],
         UNCHANGED <<orders, payments, gateway>>, JobInv(j),
         FreshPayment(j) => \A v \in Workers : job[v].payment # j.payment
  PROVE  Placed'
  <1>1. job \in [Workers -> Job]
    BY DEF PlacedInv, TypeInv, TypeOK
  <1>2. \A v \in Workers : job'[v] = IF v = w THEN j ELSE job[v]
    BY <1>1
  <1>3. \A v \in Workers : JobInv(job[v])'
    BY <1>2 DEF PlacedInv, Placed, JobInv, NoPayment, KnownPayment, FreshPayment,
                LeavesPlacedAlone, PaysOrders
  <1>4. FreshAlone'
    <2> SUFFICES ASSUME NEW u \in Workers, NEW v \in Workers, u # v, FreshPayment(job'[u])
                 PROVE  job'[v].payment # job'[u].payment
      BY <1>2 DEF FreshAlone, FreshPayment
    <2>1. CASE u = w
      BY <1>2, <2>1
    <2>2. CASE v = w
      <3>1. FreshPayment(job[u]) /\ job'[u] = job[u]
        BY <1>2, <2>2
      <3>2. CASE FreshPayment(j)
        BY <1>2, <2>2, <3>1, <3>2
      <3>3. CASE NoPayment(j)
        BY <1>2, <2>2, <3>1, <3>3 DEF NoPayment, FreshPayment
      <3>4. CASE KnownPayment(j)
        BY <1>2, <2>2, <3>1, <3>4 DEF KnownPayment, FreshPayment
      <3> QED
        BY <3>2, <3>3, <3>4 DEF JobInv
    <2>3. CASE u # w /\ v # w
      BY <1>2, <2>3 DEF PlacedInv, Placed, FreshAlone
    <2> QED
      BY <2>1, <2>2, <2>3
  <1>5. PaidLeavesPlaced' /\ GatewayNeedsPayment'
    BY DEF PlacedInv, Placed, PaidLeavesPlaced, GatewayNeedsPayment, IsPaymentPaid
  <1> QED
    BY <1>3, <1>4, <1>5 DEF Placed

LEMMA LoadPlaced ==
  ASSUME PlacedInv, NEW w \in Workers, NEW p \in Payments, NEW event, NEW effect,
         NEW new \in PaymentRow,
         Load(w, p, event, effect, new), UNCHANGED <<orders, payments, gateway>>,
         payments[p].status # "absent", new.status # "absent",
         new.orders = payments[p].orders,
         new.status = "paid" => effect = "pay" \/ (effect = "none" /\ IsPaymentPaid(p))
  PROVE  Placed'
  <1> DEFINE j == [IdleJob EXCEPT
            !.stage = "loaded", !.effect = effect, !.payment = p, !.event = event,
            !.payRead = payments[p], !.payNew = new]
  <1>1. job' = [job EXCEPT ![w] = j]
    BY DEF Load
  <1>2. /\ j.stage = "loaded" /\ j.payNew = new /\ j.payment = p
        /\ j.payRead = payments[p] /\ j.effect = effect
    BY DEF IdleJob
  <1> HIDE DEF j
  <1>3. KnownPayment(j) /\ ~FreshPayment(j)
    BY <1>2 DEF KnownPayment, FreshPayment
  <1>4. payments[p] \in PaymentRow
    BY DEF PlacedInv, TypeInv, TypeOK
  <1>5. PaysOrders(j)
    BY <1>2, <1>4 DEF PaysOrders, PlacedInv, Placed, PaidLeavesPlaced
  <1>6. LeavesPlacedAlone(j)
    BY <1>2 DEF LeavesPlacedAlone
  <1> QED
    BY <1>1, <1>3, <1>5, <1>6, JobStepPlaced DEF JobInv

LEMMA WebhookPlaced ==
  ASSUME PlacedInv, NEW w \in Workers, NEW e \in Event,
         WebhookReplayed(w, e) \/ WebhookIgnored(w, e) \/ WebhookAccepted(w, e)
  PROVE  Placed'
  <1>1. CASE WebhookReplayed(w, e) \/ WebhookIgnored(w, e)
    BY <1>1 DEF WebhookReplayed, WebhookIgnored, vars, PlacedInv, Placed, PaidLeavesPlaced,
                JobInv, FreshAlone, GatewayNeedsPayment, NoPayment, KnownPayment, FreshPayment,
                LeavesPlacedAlone, PaysOrders, IsPaymentPaid
  <1>2. CASE WebhookAccepted(w, e)
    <2> DEFINE next == WebhookStatus(e.status)
               pid == IF e.attempt = NoId THEN payments[e.payment].pid ELSE e.attempt
               new == [payments[e.payment] EXCEPT !.status = next, !.pid = pid]
    <2>1. e.payment \in Payments /\ e.attempt \in Attempts \cup {NoId, SandboxId}
      BY EventFields
    <2>2. payments[e.payment] \in PaymentRow
      BY <2>1 DEF PlacedInv, TypeInv, TypeOK
    <2>3. next \in {"paid", "attempted", "failed"}
      BY DEF WebhookStatus
    <2>4. /\ new \in PaymentRow /\ new.status = next
          /\ new.orders = payments[e.payment].orders
      BY <2>1, <2>2, <2>3 DEF PaymentRow, PaymentStatuses, PaymentIds
    <2>5. payments[e.payment].status # "absent"
      <3>1. CASE e.provider = "razorpay"
        <4>1. e.attempt = NoId \/ e.attempt \in Attempts
          BY <3>1 DEF Event
        <4> QED
          BY <1>2, <2>1, <3>1, <4>1 DEF WebhookAccepted, Arrives, Emitted, Captured, PlacedInv,
                                        Placed, GatewayNeedsPayment
      <3> QED
        BY <1>2, <3>1 DEF WebhookAccepted, Arrives
    <2>6. /\ Load(w, e.payment, e, IF next = "paid" THEN "pay" ELSE next, new)
          /\ UNCHANGED <<orders, payments, gateway>>
      BY <1>2 DEF WebhookAccepted
    <2> HIDE DEF new
    <2> QED
      BY <2>1, <2>3, <2>4, <2>5, <2>6, LoadPlaced
  <1> QED
    BY <1>1, <1>2

LEMMA CreateIntentPlaced ==
  ASSUME PlacedInv, NEW w \in Workers, NEW p \in Payments, NEW os \in SUBSET Orders,
         CreatePaymentIntent(w, p, os)
  PROVE  Placed'
  <1> DEFINE new == [status |-> "created", pid |-> NoId, orders |-> os]
             rows == [o \in Orders |->
               IF o \in os THEN [orders[o] EXCEPT !.paymentStatus = "created", !.ref = p]
               ELSE orders[o]]
             j == [IdleJob EXCEPT !.stage = "ready", !.payment = p, !.payNew = new,
                                  !.ordRead = orders, !.ordNew = rows]
  <1>1. job' = [job EXCEPT ![w] = j]
    BY DEF CreatePaymentIntent
  <1>2. orders \in [Orders -> OrderRow]
    BY DEF PlacedInv, TypeInv, TypeOK
  <1>3. \A o \in Orders : rows[o].status = orders[o].status
    BY <1>2 DEF OrderRow
  <1> HIDE DEF rows
  <1>4. /\ j.stage = "ready" /\ j.payment = p /\ j.payNew.status = "created"
        /\ j.payRead = AbsentPayment /\ j.ordRead = orders /\ j.ordNew = rows
    BY DEF IdleJob
  <1> HIDE DEF j, new
  <1>5. FreshPayment(j)
    BY <1>4 DEF FreshPayment, CreatePaymentIntent
  <1>6. LeavesPlacedAlone(j) /\ PaysOrders(j)
    BY <1>3, <1>4 DEF LeavesPlacedAlone, PaysOrders
  <1>7. \A v \in Workers : job[v].payment # j.payment
    BY <1>4 DEF CreatePaymentIntent
  <1>8. UNCHANGED <<orders, payments, gateway>>
    BY DEF CreatePaymentIntent
  <1> QED
    BY <1>1, <1>5, <1>6, <1>7, <1>8, JobStepPlaced DEF JobInv

LEMMA PaymentRequestPlaced ==
  ASSUME PlacedInv, NEW w \in Workers, PaymentRequest(w)
  PROVE  Placed'
  <1> PICK p \in Payments :
        \/ \E a \in Attempts : VerifyPayment(w, p, a) \/ VerifyBackfill(w, p, a)
        \/ \E a \in Attempts \cup {NoId} : ReportFailure(w, p, a)
        \/ DismissPayment(w, p)
        \/ CompleteDemoPayment(w, p)
        \/ \E os \in SUBSET Orders : CreatePaymentIntent(w, p, os)
    BY DEF PaymentRequest
  <1>0. payments[p] \in PaymentRow
    BY DEF PlacedInv, TypeInv, TypeOK
  <1>1. ASSUME NEW a \in Attempts, VerifyPayment(w, p, a)  PROVE Placed'
    <2>1. PaidBy(p, a) \in PaymentRow /\ PaidBy(p, a).orders = payments[p].orders
          /\ PaidBy(p, a).status = "paid"
      BY <1>0 DEF PaidBy, PaymentRow, PaymentStatuses, PaymentIds
    <2>2. payments[p].status # "absent"
      BY <1>1 DEF VerifyPayment, Signed, PlacedInv, Placed, GatewayNeedsPayment
    <2> QED
      BY <1>1, <2>1, <2>2, LoadPlaced DEF VerifyPayment
  <1>2. ASSUME NEW a \in Attempts, VerifyBackfill(w, p, a)  PROVE Placed'
    <2> DEFINE new == [payments[p] EXCEPT !.pid = a]
    <2>1. new \in PaymentRow /\ new.orders = payments[p].orders /\ new.status = "paid"
          /\ payments[p].status # "absent"
      BY <1>0, <1>2 DEF VerifyBackfill, IsPaymentPaid, PaymentRow, PaymentIds
    <2>2. Load(w, p, NoEvent, "none", new) /\ UNCHANGED <<orders, payments, gateway>>
          /\ IsPaymentPaid(p)
      BY <1>2 DEF VerifyBackfill
    <2> HIDE DEF new
    <2> QED
      BY <2>1, <2>2, LoadPlaced
  <1>3. ASSUME NEW a \in Attempts \cup {NoId}, ReportFailure(w, p, a)  PROVE Placed'
    <2> DEFINE new == [payments[p] EXCEPT !.status = "failed", !.pid = a]
    <2>1. new \in PaymentRow /\ new.orders = payments[p].orders /\ new.status = "failed"
          /\ payments[p].status # "absent"
      BY <1>0, <1>3 DEF ReportFailure, PaymentRow, PaymentStatuses, PaymentIds
    <2>2. Load(w, p, NoEvent, "report", new) /\ UNCHANGED <<orders, payments, gateway>>
      BY <1>3 DEF ReportFailure
    <2> HIDE DEF new
    <2> QED
      BY <2>1, <2>2, LoadPlaced
  <1>4. CASE DismissPayment(w, p)
    <2> DEFINE new == [payments[p] EXCEPT !.status = "dismissed"]
    <2>1. new \in PaymentRow /\ new.orders = payments[p].orders /\ new.status = "dismissed"
          /\ payments[p].status # "absent"
      BY <1>0, <1>4 DEF DismissPayment, PaymentRow, PaymentStatuses
    <2>2. Load(w, p, NoEvent, "dismiss", new) /\ UNCHANGED <<orders, payments, gateway>>
      BY <1>4 DEF DismissPayment
    <2> HIDE DEF new
    <2> QED
      BY <2>1, <2>2, LoadPlaced
  <1>5. CASE CompleteDemoPayment(w, p)
    <2> DEFINE new == PaidBy(p, IF payments[p].pid = NoId THEN DemoId ELSE payments[p].pid)
    <2>1. new \in PaymentRow /\ new.orders = payments[p].orders /\ new.status = "paid"
          /\ payments[p].status # "absent"
      BY <1>0, <1>5 DEF CompleteDemoPayment, PaidBy, PaymentRow, PaymentStatuses, PaymentIds
    <2>2. Load(w, p, NoEvent, "pay", new) /\ UNCHANGED <<orders, payments, gateway>>
      BY <1>5 DEF CompleteDemoPayment
    <2> HIDE DEF new
    <2> QED
      BY <2>1, <2>2, LoadPlaced
  <1> QED
    BY <1>1, <1>2, <1>3, <1>4, <1>5, CreateIntentPlaced

\* No transition leads back to "placed".
LEMMA ApplyStatusPlaced ==
  ASSUME PlacedInv, NEW w \in Workers, NEW os \in SUBSET Orders, NEW status \in FoodOrderStatus,
         ApplyStatus(w, os, status),
         \A o \in os : status = "placed" => orders[o].status = "placed"
  PROVE  Placed'
  <1> DEFINE rows == [o \in Orders |->
               IF o \in os THEN [orders[o] EXCEPT !.status = status] ELSE orders[o]]
             j == [IdleJob EXCEPT !.stage = "ready", !.ordRead = orders, !.ordNew = rows]
  <1>1. orders \in [Orders -> OrderRow]
    BY DEF PlacedInv, TypeInv, TypeOK
  <1>2. \A o \in Orders : orders[o].status # "placed" => rows[o].status # "placed"
    BY <1>1 DEF OrderRow
  <1>3. job' = [job EXCEPT ![w] = j]
    BY DEF ApplyStatus
  <1> HIDE DEF rows
  <1>4. /\ j.stage = "ready" /\ j.payment = NoRef /\ j.payNew = AbsentPayment
        /\ j.ordRead = orders /\ j.ordNew = rows
    BY DEF IdleJob
  <1> HIDE DEF j
  <1>5. NoPayment(j) /\ ~FreshPayment(j) /\ PaysOrders(j)
    BY <1>4, ConstantsAssumption DEF NoPayment, FreshPayment, PaysOrders, AbsentPayment
  <1>6. LeavesPlacedAlone(j)
    BY <1>2, <1>4 DEF LeavesPlacedAlone
  <1>7. UNCHANGED <<orders, payments, gateway>>
    BY DEF ApplyStatus
  <1> QED
    BY <1>3, <1>5, <1>6, <1>7, JobStepPlaced DEF JobInv

LEMMA OrderRequestPlaced ==
  ASSUME PlacedInv, NEW w \in Workers, OrderRequest(w)
  PROVE  Placed'
  <1>1. ASSUME NEW o \in Orders, StudentCancel(w, o) \/ AdminCancel(w, o)  PROVE Placed'
    BY <1>1, ApplyStatusPlaced DEF StudentCancel, AdminCancel, FoodOrderStatus
  <1>2. ASSUME NEW o \in Orders, ConfirmOrderDelivery(w, o)  PROVE Placed'
    BY <1>2, ApplyStatusPlaced DEF ConfirmOrderDelivery, FoodOrderStatus
  <1>3. ASSUME NEW o \in Orders, NEW status \in StaffTargets, UpdateOrderStatus(w, o, status)
        PROVE Placed'
    <2>1. orders[o].status \in FoodOrderStatus
      BY DEF PlacedInv, TypeInv, TypeOK, OrderRow
    <2>2. status = "placed" => orders[o].status = "placed"
      BY <1>3, <2>1 DEF UpdateOrderStatus, StatusTransitionAllowed, StatusTransition,
                        FoodOrderStatus
    <2> QED
      BY <1>3, <2>2, ApplyStatusPlaced, ConstantsAssumption DEF UpdateOrderStatus
  <1>4. ASSUME NEW os \in SUBSET Orders, EnforceOrderTimeout(w, os)  PROVE Placed'
    BY <1>4, ApplyStatusPlaced DEF EnforceOrderTimeout, FoodOrderStatus
  <1> QED
    BY <1>1, <1>2, <1>3, <1>4 DEF OrderRequest

\* No effect puts an order back to "placed", and a payment takes it out.
LEMMA EffectLeavesPlaced ==
  ASSUME NEW row \in OrderRow, NEW effect \in Effects, NEW p \in Payments
  PROVE  /\ row.status # "placed" \/ effect = "pay" => EffectOn(row, effect, p).status # "placed"
         /\ effect = "none" => EffectOn(row, effect, p) = row
  BY DEF OrderRow, Effects, EffectOn, PaidOrder, UnpaidByWebhook, ReportedFailed, DismissedOrder

LEMMA ReadOrdersPlaced ==
  ASSUME PlacedInv, NEW w \in Workers, NEW effect \in Effects, NEW payNew \in PaymentRow,
         ReadOrders(w, effect, payNew),
         payNew.orders = job[w].payNew.orders, payNew.status # "absent",
         \/ effect = "pay"
         \/ effect = job[w].effect /\ payNew = job[w].payNew
  PROVE  Placed'
  <1> DEFINE rows == [o \in Orders |->
               IF o \in job[w].payRead.orders THEN EffectOn(orders[o], effect, job[w].payment)
               ELSE orders[o]]
             j == [job[w] EXCEPT !.stage = "ready", !.effect = effect, !.payNew = payNew,
                                 !.ordRead = orders, !.ordNew = rows]
  <1>1. /\ orders \in [Orders -> OrderRow] /\ job[w] \in Job /\ job \in [Workers -> Job]
        /\ job[w].payment \in Payments /\ job[w].stage = "loaded"
    BY DEF ReadOrders, PlacedInv, TypeInv, TypeOK, LoadedHasPayment
  <1>2. \A o \in Orders : orders[o].status # "placed" => rows[o].status # "placed"
    BY <1>1, EffectLeavesPlaced
  <1>3. \A o \in job[w].payRead.orders : o \in Orders
    BY <1>1 DEF Job, PaymentRow
  <1>4. effect = "pay" => \A o \in job[w].payRead.orders : rows[o].status # "placed"
    BY <1>1, <1>3, EffectLeavesPlaced
  <1>5. effect = "none" => \A o \in Orders : rows[o] = orders[o]
    BY <1>1, EffectLeavesPlaced
  <1>6. job' = [job EXCEPT ![w] = j]
    BY <1>1 DEF ReadOrders
  <1> HIDE DEF rows
  <1>7. /\ j.stage = "ready" /\ j.payment = job[w].payment /\ j.payRead = job[w].payRead
        /\ j.payNew = payNew /\ j.ordRead = orders /\ j.ordNew = rows
    BY <1>1 DEF Job
  <1> HIDE DEF j
  <1>8. KnownPayment(job[w]) /\ PaysOrders(job[w])
    BY <1>1 DEF PlacedInv, Placed, JobInv, NoPayment, FreshPayment
  <1>9. KnownPayment(j) /\ ~FreshPayment(j)
    BY <1>7, <1>8 DEF KnownPayment, FreshPayment
  <1>10. LeavesPlacedAlone(j)
    BY <1>2, <1>7 DEF LeavesPlacedAlone
  <1>11. PaysOrders(j)
    <2> SUFFICES ASSUME payNew.status = "paid", NEW o \in job[w].payRead.orders
                 PROVE  rows[o].status # "placed"
      BY <1>7 DEF PaysOrders
    <2>1. CASE effect = "pay"
      BY <1>4, <2>1
    <2>2. CASE effect # "pay"
      BY <1>1, <1>3, <1>5, <1>8, <2>2 DEF PaysOrders
    <2> QED
      BY <2>1, <2>2
  <1>12. UNCHANGED <<orders, payments, gateway>>
    BY DEF ReadOrders
  <1> QED
    BY <1>6, <1>9, <1>10, <1>11, <1>12, JobStepPlaced DEF JobInv

\* A commit makes no order placed, and moves those its request took out.
LEMMA CommitLeavesPlaced ==
  ASSUME PlacedInv, NEW w \in Workers, Commit(w), NEW o \in Orders
  PROVE  /\ orders[o].status # "placed" => orders'[o].status # "placed"
         /\ job[w].ordNew[o].status # "placed" => orders'[o].status # "placed"
  <1>1. job[w] \in Job /\ orders[o] \in OrderRow
    BY DEF PlacedInv, TypeInv, TypeOK
  <1>2. job[w].ordRead[o] \in OrderRow /\ job[w].ordNew[o] \in OrderRow
    BY <1>1 DEF Job
  <1>3. orders'[o] = WriteBack(orders[o], job[w].ordRead[o], job[w].ordNew[o])
    BY DEF Commit
  <1>4. job[w].stage = "ready" /\ LeavesPlacedAlone(job[w])
    BY DEF Commit, PlacedInv, Placed, JobInv
  <1> QED
    BY <1>1, <1>2, <1>3, <1>4, WriteBackOrder DEF LeavesPlacedAlone

\* What a commit does to the payment of its request, and to the others.
LEMMA CommitPayment ==
  ASSUME PlacedInv, NEW w \in Workers, Commit(w), NEW p \in Payments
  PROVE  /\ payments[p].status # "absent" =>
              payments'[p].orders = payments[p].orders /\ payments'[p].status # "absent"
         /\ p # job[w].payment => payments'[p] = payments[p]
         /\ IsPaymentPaid(p)' =>
              /\ payments'[p].orders = payments[p].orders
              /\ \/ IsPaymentPaid(p)
                 \/ \A o \in payments[p].orders : job[w].ordNew[o].status # "placed"
  <1>1. job[w] \in Job /\ payments[p] \in PaymentRow
    BY DEF PlacedInv, TypeInv, TypeOK
  <1>2. job[w].payRead \in PaymentRow /\ job[w].payNew \in PaymentRow
    BY <1>1 DEF Job
  <1>3. payments'[p] = IF p = job[w].payment
                       THEN WriteBack(payments[p], job[w].payRead, job[w].payNew)
                       ELSE payments[p]
    BY DEF Commit
  <1>4. /\ job[w].stage = "ready" /\ PaysOrders(job[w])
        /\ NoPayment(job[w]) \/ KnownPayment(job[w]) \/ FreshPayment(job[w])
    BY DEF Commit, PlacedInv, Placed, JobInv
  <1>5. CASE p # job[w].payment
    BY <1>3, <1>5 DEF IsPaymentPaid
  <1>6. CASE p = job[w].payment /\ KnownPayment(job[w])
    BY <1>1, <1>2, <1>3, <1>4, <1>6, WriteBackPayment DEF KnownPayment, PaysOrders, IsPaymentPaid
  <1>7. CASE p = job[w].payment /\ FreshPayment(job[w])
    BY <1>1, <1>2, <1>3, <1>7, WriteBackPayment DEF FreshPayment, IsPaymentPaid, AbsentPayment
  <1> QED
    BY <1>4, <1>5, <1>6, <1>7 DEF NoPayment

LEMMA IdleJobPlaced ==
  /\ NoPayment(IdleJob) /\ LeavesPlacedAlone(IdleJob) /\ PaysOrders(IdleJob)
  /\ ~FreshPayment(IdleJob)
  /\ IdleJob.payment = NoRef
  BY ConstantsAssumption DEF NoPayment, LeavesPlacedAlone, PaysOrders, FreshPayment, IdleJob,
                             AbsentPayment

LEMMA CommitPlaced ==
  ASSUME PlacedInv, NEW w \in Workers, Commit(w)
  PROVE  Placed'
  <1>1. \A v \in Workers : job'[v] = IF v = w THEN IdleJob ELSE job[v]
    BY DEF Commit, PlacedInv, TypeInv, TypeOK
  <1>2. \A v \in Workers : job[v] \in Job
    BY DEF PlacedInv, TypeInv, TypeOK
  <1>3. PaidLeavesPlaced'
    <2> SUFFICES ASSUME NEW p \in Payments, IsPaymentPaid(p)', NEW o \in payments'[p].orders
                 PROVE  orders'[o].status # "placed"
      BY DEF PaidLeavesPlaced
    <2>1. payments[p] \in PaymentRow
      BY DEF PlacedInv, TypeInv, TypeOK
    <2>2. o \in payments[p].orders /\ o \in Orders
      BY <2>1, CommitPayment DEF PaymentRow
    <2>3. IsPaymentPaid(p) => orders[o].status # "placed"
      BY <2>2 DEF PlacedInv, Placed, PaidLeavesPlaced
    <2>4. IsPaymentPaid(p) \/ job[w].ordNew[o].status # "placed"
      BY <2>2, CommitPayment
    <2> QED
      BY <2>2, <2>3, <2>4, CommitLeavesPlaced
  <1>4. ASSUME NEW v \in Workers, v # w  PROVE JobInv(job[v])'
    <2>1. job'[v] = job[v] /\ job[v] \in Job /\ JobInv(job[v])
      BY <1>1, <1>2, <1>4 DEF PlacedInv, Placed
    <2>2. (NoPayment(job[v]) \/ KnownPayment(job[v]) \/ FreshPayment(job[v]))'
      <3>1. CASE NoPayment(job[v])
        BY <2>1, <3>1 DEF NoPayment
      <3>2. CASE KnownPayment(job[v])
        BY <2>1, <3>2, CommitPayment DEF KnownPayment
      <3>3. CASE FreshPayment(job[v])
        <4>1. job[v].payment # job[w].payment
          BY <1>4, <3>3 DEF PlacedInv, Placed, FreshAlone
        <4> QED
          BY <2>1, <3>3, <4>1, CommitPayment DEF FreshPayment
      <3> QED
        BY <2>1, <3>1, <3>2, <3>3 DEF JobInv
    <2>3. LeavesPlacedAlone(job[v])'
      BY <2>1, CommitLeavesPlaced DEF JobInv, LeavesPlacedAlone
    <2>4. \A o \in job[v].payRead.orders : o \in Orders
      BY <2>1 DEF Job, PaymentRow
    <2>5. PaysOrders(job[v])'
      BY <2>1, <2>4, CommitLeavesPlaced DEF JobInv, PaysOrders
    <2> QED
      BY <2>2, <2>3, <2>5 DEF JobInv
  <1>5. JobInv(job[w])'
    BY <1>1, IdleJobPlaced DEF JobInv, NoPayment, LeavesPlacedAlone, PaysOrders, IdleJob
  <1>6. FreshAlone'
    <2> SUFFICES ASSUME NEW u \in Workers, NEW v \in Workers, u # v, FreshPayment(job[u])'
                 PROVE  job'[v].payment # job'[u].payment
      BY DEF FreshAlone
    <2>1. u # w /\ job'[u] = job[u]
      BY <1>1 DEF FreshPayment, IdleJob
    <2>2. FreshPayment(job[u])
      BY <2>1, CommitPayment DEF FreshPayment
    <2>3. job[u].payment \in Payments /\ NoRef \notin Payments
      BY <2>2, ConstantsAssumption DEF FreshPayment
    <2> QED
      BY <1>1, <2>1, <2>2, <2>3, IdleJobPlaced DEF PlacedInv, Placed, FreshAlone
  <1>7. GatewayNeedsPayment'
    BY CommitPayment DEF Commit, PlacedInv, Placed, GatewayNeedsPayment
  <1> QED
    BY <1>3, <1>4, <1>5, <1>6, <1>7 DEF Placed

LEMMA ProceedPlaced ==
  ASSUME PlacedInv, NEW w \in Workers, Proceed(w) \/ Abort(w)
  PROVE  Placed'
  <1>1. job[w] \in Job
    BY DEF PlacedInv, TypeInv, TypeOK
  <1>2. job[w].stage = "loaded" => job[w].payNew.status # "absent"
    BY DEF PlacedInv, TypeInv, LoadedHasPayment, Placed, JobInv, NoPayment, KnownPayment,
           FreshPayment
  <1>3. CASE LoadOrders(w)
    BY <1>1, <1>2, <1>3, ReadOrdersPlaced DEF LoadOrders, ReadOrders, Job
  <1>4. ASSUME NEW a \in Attempts, ReconcileFailure(w, a)  PROVE Placed'
    <2> DEFINE new == [job[w].payNew EXCEPT !.status = "paid", !.pid = a]
    <2>1. new \in PaymentRow /\ new.orders = job[w].payNew.orders /\ new.status = "paid"
      BY <1>1 DEF Job, PaymentRow, PaymentStatuses, PaymentIds
    <2>2. ReadOrders(w, "pay", new)
      BY <1>4 DEF ReconcileFailure
    <2> HIDE DEF new
    <2> QED
      BY <2>1, <2>2, ReadOrdersPlaced DEF Effects
  <1>5. CASE Abort(w)
    BY <1>5, JobStepPlaced, IdleJobPlaced DEF Abort, JobInv
  <1> QED
    BY <1>3, <1>4, <1>5, CommitPlaced DEF Proceed

LEMMA GatewayPlaced ==
  ASSUME PlacedInv, GatewayNext
  PROVE  Placed'
  <1>1. ASSUME NEW p \in Payments, NEW a \in Attempts,
               NEW status \in {"authorized", "failed", "captured"}, GatewayStep(p, a, status)
        PROVE  Placed'
    <2>1. GatewayNeedsPayment'
      BY <1>1 DEF GatewayStep, PlacedInv, TypeInv, TypeOK, Placed, GatewayNeedsPayment
    <2> QED
      BY <1>1, <2>1 DEF GatewayStep, PlacedInv, Placed, PaidLeavesPlaced, IsPaymentPaid, JobInv,
                        FreshAlone, NoPayment, KnownPayment, FreshPayment, LeavesPlacedAlone,
                        PaysOrders
  <1> QED
    BY <1>1 DEF GatewayNext, GatewayFail, GatewayAuthorize, GatewayCapture

LEMMA PlacedStep ==
  ASSUME PlacedInv, [Next]_vars
  PROVE  Placed'
  <1>1. ASSUME NEW w \in Workers, DeliverWebhook(w)  PROVE Placed'
    BY <1>1, WebhookPlaced DEF DeliverWebhook
  <1>2. CASE UNCHANGED vars
    BY <1>2 DEF vars, PlacedInv, Placed, PaidLeavesPlaced, IsPaymentPaid, JobInv, FreshAlone,
                NoPayment, KnownPayment, FreshPayment, LeavesPlacedAlone, PaysOrders,
                GatewayNeedsPayment
  <1> QED
    BY <1>1, <1>2, GatewayPlaced, PaymentRequestPlaced, OrderRequestPlaced, ProceedPlaced DEF Next

LEMMA InitPlaced ==
  ASSUME Init
  PROVE  Placed
  <1>1. \A w \in Workers : job[w] = IdleJob
    BY DEF Init
  <1>2. PaidLeavesPlaced
    BY DEF Init, PaidLeavesPlaced, IsPaymentPaid, AbsentPayment
  <1>3. FreshAlone /\ GatewayNeedsPayment
    BY <1>1, IdleJobPlaced DEF Init, FreshAlone, GatewayNeedsPayment
  <1> QED
    BY <1>1, <1>2, <1>3, IdleJobPlaced DEF Placed, JobInv

\* However many requests, webhooks and staff updates are in flight, and whichever
\* of them die: an order covered by a paid payment has left "placed", the only
\* status from which the verification timeout of food.py 1854-1861 cancels.
THEOREM PaidLeavesPlacedAlways == Spec => []PaidLeavesPlaced
  <1>1. Init => Placed
    BY InitPlaced
  <1>2. TypeInv /\ Placed /\ [Next]_vars => Placed'
    BY PlacedStep DEF PlacedInv
  <1>3. Placed => PaidLeavesPlaced
    BY DEF Placed
  <1> QED
    BY <1>1, <1>2, <1>3, TypeInvariant, PTL DEF Spec

(***************************************************************************)
(* Requests served one after the other: a payment that is paid stays paid, *)
(* an order marked paid names the payment that paid it, and a settled      *)
(* order stays settled.  With two requests in flight none of the three     *)
(* holds; with one, what a request read is still so when it commits.       *)
(***************************************************************************)

OneAtATime == \A v, w \in Workers : v = w

Settled == FinalStatuses \cup {"refund_pending"}

\* Nothing was committed since j read its rows.
RowsAsRead(j) ==
  /\ j.stage # "idle" /\ KnownPayment(j) => j.payRead = payments[j.payment]
  /\ j.stage = "ready" => j.ordRead = orders

\* No request takes a payment out of "paid".
KeepsPaid(j) ==
  j.stage # "idle" /\ KnownPayment(j) /\ IsPaymentPaid(j.payment) => j.payNew.status = "paid"

\* Only a payment that is about to be paid marks its orders paid.
PayIsPaid(j) == j.effect = "pay" => j.payment \in Payments /\ j.payNew.status = "paid"

\* An order j leaves marked paid was so before, or j pays for it.
PaidRows(j) ==
  j.stage = "ready" => \A o \in Orders : j.ordNew[o].paymentStatus = "paid" =>
    \/ orders[o].paymentStatus = "paid" /\ j.ordNew[o].ref = orders[o].ref
    \/ /\ j.payment \in Payments /\ j.ordNew[o].ref = j.payment
       /\ j.payNew.status = "paid" /\ o \in j.payRead.orders

SettledRows(j) ==
  j.stage = "ready" => \A o \in Orders :
    orders[o].status \in Settled => j.ordNew[o].status \in Settled

SerialJob(j) == RowsAsRead(j) /\ KeepsPaid(j) /\ PayIsPaid(j) /\ PaidRows(j) /\ SettledRows(j)

Serial == PaidOrderNamesPayment /\ \A w \in Workers : SerialJob(job[w])

SerialInv == PlacedInv /\ Serial

LEMMA JobStepSerial ==
  ASSUME SerialInv, NEW w \in Workers, NEW j, job' = [job EXCEPT ![w] = j],
         UNCHANGED <<orders, payments>>, SerialJob(j)
  PROVE  Serial'
  <1>1. job \in [Workers -> Job]
    BY DEF SerialInv, PlacedInv, TypeInv, TypeOK
  <1>2. \A v \in Workers : job'[v] = IF v = w THEN j ELSE job[v]
    BY <1>1
  <1>3. \A v \in Workers : SerialJob(job[v])'
    BY <1>2 DEF SerialInv, Serial, SerialJob, RowsAsRead, KeepsPaid, PayIsPaid, PaidRows,
                SettledRows, KnownPayment, IsPaymentPaid
  <1> QED
    BY <1>3 DEF SerialInv, Serial, PaidOrderNamesPayment, IsPaymentPaid

LEMMA IdleJobSerial == SerialJob(IdleJob)
  BY DEF SerialJob, RowsAsRead, KeepsPaid, PayIsPaid, PaidRows, SettledRows, IdleJob

\* A request that starts from a payment row reads the row as it is.
LEMMA LoadSerial ==
  ASSUME SerialInv, NEW w \in Workers, NEW p \in Payments, NEW event, NEW effect,
         NEW new, Load(w, p, event, effect, new), UNCHANGED <<orders, payments>>,
         IsPaymentPaid(p) \/ effect = "pay" => new.status = "paid"
  PROVE  Serial'
  <1> DEFINE j == [IdleJob EXCEPT
            !.stage = "loaded", !.effect = effect, !.payment = p, !.event = event,
            !.payRead = payments[p], !.payNew = new]
  <1>1. job' = [job EXCEPT ![w] = j]
    BY DEF Load
  <1>2. /\ j.stage = "loaded" /\ j.payNew = new /\ j.payment = p
        /\ j.payRead = payments[p] /\ j.effect = effect
    BY DEF IdleJob
  <1> HIDE DEF j
  <1>3. SerialJob(j)
    BY <1>2 DEF SerialJob, RowsAsRead, KeepsPaid, PayIsPaid, PaidRows, SettledRows
  <1> QED
    BY <1>1, <1>3, JobStepSerial

\* A capture event that comes after a capture is stale, and so is any other news.
LEMMA WebhookSerial ==
  ASSUME SerialInv, NEW w \in Workers, NEW e \in Event,
         WebhookReplayed(w, e) \/ WebhookIgnored(w, e) \/ WebhookAccepted(w, e)
  PROVE  Serial'
  <1>1. CASE WebhookReplayed(w, e) \/ WebhookIgnored(w, e)
    BY <1>1 DEF WebhookReplayed, WebhookIgnored, vars, SerialInv, Serial, SerialJob, RowsAsRead,
                KeepsPaid, PayIsPaid, PaidRows, SettledRows, KnownPayment, IsPaymentPaid,
                PaidOrderNamesPayment
  <1>2. CASE WebhookAccepted(w, e)
    <2> DEFINE next == WebhookStatus(e.status)
               pid == IF e.attempt = NoId THEN payments[e.payment].pid ELSE e.attempt
               new == [payments[e.payment] EXCEPT !.status = next, !.pid = pid]
    <2>1. e.payment \in Payments /\ payments[e.payment] \in PaymentRow
      BY EventFields DEF SerialInv, PlacedInv, TypeInv, TypeOK
    <2>2. next \in {"paid", "attempted", "failed"}
      BY DEF WebhookStatus
    <2>3. new.status = next
      BY <2>1 DEF PaymentRow
    <2>4. IsPaymentPaid(e.payment) => next = "paid"
      BY <1>2 DEF WebhookAccepted, WebhookStale, IsPaymentPaid
    <2>5. /\ Load(w, e.payment, e, IF next = "paid" THEN "pay" ELSE next, new)
          /\ UNCHANGED <<orders, payments>>
      BY <1>2 DEF WebhookAccepted
    <2> HIDE DEF new, next
    <2> QED
      BY <2>1, <2>2, <2>3, <2>4, <2>5, LoadSerial
  <1> QED
    BY <1>1, <1>2

LEMMA CreateIntentSerial ==
  ASSUME SerialInv, NEW w \in Workers, NEW p \in Payments, NEW os \in SUBSET Orders,
         CreatePaymentIntent(w, p, os)
  PROVE  Serial'
  <1> DEFINE new == [status |-> "created", pid |-> NoId, orders |-> os]
             rows == [o \in Orders |->
               IF o \in os THEN [orders[o] EXCEPT !.paymentStatus = "created", !.ref = p]
               ELSE orders[o]]
             j == [IdleJob EXCEPT !.stage = "ready", !.payment = p, !.payNew = new,
                                  !.ordRead = orders, !.ordNew = rows]
  <1>1. job' = [job EXCEPT ![w] = j]
    BY DEF CreatePaymentIntent
  <1>2. orders \in [Orders -> OrderRow]
    BY DEF SerialInv, PlacedInv, TypeInv, TypeOK
  <1>3. \A o \in Orders : /\ rows[o].status = orders[o].status
                          /\ rows[o].paymentStatus = "paid" => rows[o] = orders[o]
    BY <1>2 DEF OrderRow
  <1> HIDE DEF rows
  <1>4. /\ j.stage = "ready" /\ j.payment = p /\ j.payRead = AbsentPayment
        /\ j.ordRead = orders /\ j.ordNew = rows /\ j.effect = "none"
    BY DEF IdleJob
  <1> HIDE DEF j, new
  <1>5. ~KnownPayment(j)
    BY <1>4 DEF KnownPayment, AbsentPayment
  <1>6. SerialJob(j)
    BY <1>3, <1>4, <1>5 DEF SerialJob, RowsAsRead, KeepsPaid, PayIsPaid, PaidRows, SettledRows
  <1>7. UNCHANGED <<orders, payments>>
    BY DEF CreatePaymentIntent
  <1> QED
    BY <1>1, <1>6, <1>7, JobStepSerial

LEMMA PaymentRequestSerial ==
  ASSUME SerialInv, NEW w \in Workers, PaymentRequest(w)
  PROVE  Serial'
  <1> PICK p \in Payments :
        \/ \E a \in Attempts : VerifyPayment(w, p, a) \/ VerifyBackfill(w, p, a)
        \/ \E a \in Attempts \cup {NoId} : ReportFailure(w, p, a)
        \/ DismissPayment(w, p)
        \/ CompleteDemoPayment(w, p)
        \/ \E os \in SUBSET Orders : CreatePaymentIntent(w, p, os)
    BY DEF PaymentRequest
  <1>0. payments[p] \in PaymentRow
    BY DEF SerialInv, PlacedInv, TypeInv, TypeOK
  <1>1. ASSUME NEW a \in Attempts, VerifyPayment(w, p, a)  PROVE Serial'
    <2>1. PaidBy(p, a).status = "paid"
      BY <1>0 DEF PaidBy, PaymentRow
    <2> QED
      BY <1>1, <2>1, LoadSerial DEF VerifyPayment
  <1>2. ASSUME NEW a \in Attempts, VerifyBackfill(w, p, a)  PROVE Serial'
    <2> DEFINE new == [payments[p] EXCEPT !.pid = a]
    <2>1. new.status = payments[p].status /\ IsPaymentPaid(p)
      BY <1>0, <1>2 DEF VerifyBackfill, PaymentRow
    <2>2. Load(w, p, NoEvent, "none", new) /\ UNCHANGED <<orders, payments>>
      BY <1>2 DEF VerifyBackfill
    <2> HIDE DEF new
    <2> QED
      BY <2>1, <2>2, LoadSerial DEF IsPaymentPaid
  <1>3. ASSUME NEW a \in Attempts \cup {NoId}, ReportFailure(w, p, a)  PROVE Serial'
    BY <1>3, LoadSerial DEF ReportFailure, IsPaymentPaid
  <1>4. CASE DismissPayment(w, p)
    BY <1>4, LoadSerial DEF DismissPayment, IsPaymentPaid
  <1>5. CASE CompleteDemoPayment(w, p)
    <2> DEFINE new == PaidBy(p, IF payments[p].pid = NoId THEN DemoId ELSE payments[p].pid)
    <2>1. new.status = "paid"
      BY <1>0 DEF PaidBy, PaymentRow
    <2>2. Load(w, p, NoEvent, "pay", new) /\ UNCHANGED <<orders, payments>>
      BY <1>5 DEF CompleteDemoPayment
    <2> HIDE DEF new
    <2> QED
      BY <2>1, <2>2, LoadSerial
  <1> QED
    BY <1>1, <1>2, <1>3, <1>4, <1>5, CreateIntentSerial

LEMMA ApplyStatusSerial ==
  ASSUME SerialInv, NEW w \in Workers, NEW os \in SUBSET Orders, NEW status,
         ApplyStatus(w, os, status),
         \A o \in os : orders[o].status \in Settled => status \in Settled
  PROVE  Serial'
  <1> DEFINE rows == [o \in Orders |->
               IF o \in os THEN [orders[o] EXCEPT !.status = status] ELSE orders[o]]
             j == [IdleJob EXCEPT !.stage = "ready", !.ordRead = orders, !.ordNew = rows]
  <1>1. orders \in [Orders -> OrderRow]
    BY DEF SerialInv, PlacedInv, TypeInv, TypeOK
  <1>2. \A o \in Orders : /\ orders[o].status \in Settled => rows[o].status \in Settled
                          /\ rows[o].paymentStatus = orders[o].paymentStatus
                          /\ rows[o].ref = orders[o].ref
    BY <1>1 DEF OrderRow
  <1>3. job' = [job EXCEPT ![w] = j]
    BY DEF ApplyStatus
  <1> HIDE DEF rows
  <1>4. /\ j.stage = "ready" /\ j.payment = NoRef /\ j.ordRead = orders /\ j.ordNew = rows
        /\ j.effect = "none"
    BY DEF IdleJob
  <1> HIDE DEF j
  <1>5. ~KnownPayment(j)
    BY <1>4, ConstantsAssumption DEF KnownPayment
  <1>6. SerialJob(j)
    BY <1>2, <1>4, <1>5 DEF SerialJob, RowsAsRead, KeepsPaid, PayIsPaid, PaidRows, SettledRows
  <1>7. UNCHANGED <<orders, payments>>
    BY DEF ApplyStatus
  <1> QED
    BY <1>3, <1>6, <1>7, JobStepSerial

\* The transitions staff may ask for lead from a settled status to a settled one.
LEMMA OrderRequestSerial ==
  ASSUME SerialInv, NEW w \in Workers, OrderRequest(w)
  PROVE  Serial'
  <1>1. ASSUME NEW o \in Orders, StudentCancel(w, o) \/ AdminCancel(w, o)  PROVE Serial'
    BY <1>1, ApplyStatusSerial DEF StudentCancel, AdminCancel, Settled, FinalStatuses
  <1>2. ASSUME NEW o \in Orders, ConfirmOrderDelivery(w, o)  PROVE Serial'
    BY <1>2, ApplyStatusSerial DEF ConfirmOrderDelivery, Settled, FinalStatuses
  <1>3. ASSUME NEW o \in Orders, NEW status \in StaffTargets, UpdateOrderStatus(w, o, status)
        PROVE Serial'
    <2>1. orders[o].status \in Settled => status \in Settled
      BY <1>3 DEF UpdateOrderStatus, StatusTransitionAllowed, StatusTransition, Settled,
                  FinalStatuses
    <2> QED
      BY <1>3, <2>1, ApplyStatusSerial DEF UpdateOrderStatus
  <1>4. ASSUME NEW os \in SUBSET Orders, EnforceOrderTimeout(w, os)  PROVE Serial'
    BY <1>4, ApplyStatusSerial DEF EnforceOrderTimeout, Settled, FinalStatuses
  <1> QED
    BY <1>1, <1>2, <1>3, <1>4 DEF OrderRequest

\* What an effect makes of an order row: only a payment marks it paid, and names itself.
LEMMA EffectMarksPaid ==
  ASSUME NEW row \in OrderRow, NEW effect \in Effects, NEW p \in Payments
  PROVE  /\ EffectOn(row, effect, p).paymentStatus = "paid" =>
              \/ row.paymentStatus = "paid" /\ EffectOn(row, effect, p).ref = row.ref
              \/ effect = "pay" /\ EffectOn(row, effect, p).ref = p
         /\ row.status \in Settled => EffectOn(row, effect, p).status \in Settled
  BY DEF OrderRow, Effects, EffectOn, PaidOrder, UnpaidByWebhook, ReportedFailed, DismissedOrder,
         Settled, FinalStatuses

LEMMA ReadOrdersSerial ==
  ASSUME SerialInv, NEW w \in Workers, NEW effect \in Effects, NEW payNew \in PaymentRow,
         ReadOrders(w, effect, payNew), payNew.orders = job[w].payNew.orders,
         \/ effect = "pay" /\ payNew.status = "paid"
         \/ effect = job[w].effect /\ payNew = job[w].payNew
  PROVE  Serial'
  <1> DEFINE rows == [o \in Orders |->
               IF o \in job[w].payRead.orders THEN EffectOn(orders[o], effect, job[w].payment)
               ELSE orders[o]]
             j == [job[w] EXCEPT !.stage = "ready", !.effect = effect, !.payNew = payNew,
                                 !.ordRead = orders, !.ordNew = rows]
  <1>1. /\ orders \in [Orders -> OrderRow] /\ job[w] \in Job
        /\ job[w].payment \in Payments /\ job[w].stage = "loaded"
    BY DEF ReadOrders, SerialInv, PlacedInv, TypeInv, TypeOK, LoadedHasPayment
  <1>2. ASSUME NEW o \in Orders
        PROVE  /\ rows[o].paymentStatus = "paid" =>
                    \/ orders[o].paymentStatus = "paid" /\ rows[o].ref = orders[o].ref
                    \/ /\ effect = "pay" /\ rows[o].ref = job[w].payment
                       /\ o \in job[w].payRead.orders
               /\ orders[o].status \in Settled => rows[o].status \in Settled
    <2>1. CASE o \in job[w].payRead.orders
      BY <1>1, <2>1, EffectMarksPaid
    <2>2. CASE o \notin job[w].payRead.orders
      BY <2>2
    <2> QED
      BY <2>1, <2>2
  <1>3. job' = [job EXCEPT ![w] = j]
    BY <1>1 DEF ReadOrders
  <1> HIDE DEF rows
  <1>4. /\ j.stage = "ready" /\ j.payment = job[w].payment /\ j.payRead = job[w].payRead
        /\ j.payNew = payNew /\ j.effect = effect /\ j.ordRead = orders /\ j.ordNew = rows
    BY <1>1 DEF Job
  <1> HIDE DEF j
  <1>5. SerialJob(job[w]) /\ KnownPayment(job[w])
    BY <1>1 DEF SerialInv, Serial, PlacedInv, Placed, JobInv, NoPayment, FreshPayment
  <1>6. effect = "pay" => payNew.status = "paid"
    BY <1>5 DEF SerialJob, PayIsPaid
  <1>7. RowsAsRead(j) /\ KeepsPaid(j) /\ PayIsPaid(j)
    BY <1>1, <1>4, <1>5, <1>6 DEF SerialJob, RowsAsRead, KeepsPaid, PayIsPaid
  <1>8. PaidRows(j) /\ SettledRows(j)
    BY <1>1, <1>2, <1>4, <1>6 DEF PaidRows, SettledRows
  <1>9. UNCHANGED <<orders, payments>>
    BY DEF ReadOrders
  <1> QED
    BY <1>3, <1>7, <1>8, <1>9, JobStepSerial DEF SerialJob

\* With one request at a time, a commit writes the rows the request computed.
LEMMA CommitWrites ==
  ASSUME SerialInv, NEW w \in Workers, Commit(w)
  PROVE  /\ \A o \in Orders : orders'[o] = job[w].ordNew[o]
         /\ \A p \in Payments : payments[p].status = "paid" =>
              payments'[p].status = "paid" /\ payments'[p].orders = payments[p].orders
         /\ job[w].payment \in Payments /\ job[w].payNew.status = "paid" =>
              /\ payments'[job[w].payment].status = "paid"
              /\ payments'[job[w].payment].orders = job[w].payRead.orders
  <1>1. /\ job[w] \in Job /\ orders \in [Orders -> OrderRow] /\ payments \in [Payments -> PaymentRow]
        /\ job[w].stage = "ready" /\ SerialJob(job[w])
        /\ NoPayment(job[w]) \/ KnownPayment(job[w]) \/ FreshPayment(job[w])
    BY DEF Commit, SerialInv, Serial, PlacedInv, Placed, JobInv, TypeInv, TypeOK
  <1>2. /\ job[w].ordRead \in [Orders -> OrderRow] /\ job[w].ordNew \in [Orders -> OrderRow]
        /\ job[w].payRead \in PaymentRow /\ job[w].payNew \in PaymentRow
    BY <1>1 DEF Job
  <1>3. ASSUME NEW o \in Orders  PROVE orders'[o] = job[w].ordNew[o]
    <2>1. orders'[o] = WriteBack(orders[o], orders[o], job[w].ordNew[o])
      BY <1>1 DEF Commit, SerialJob, RowsAsRead
    <2>2. orders[o] \in OrderRow /\ job[w].ordNew[o] \in OrderRow
      BY <1>1, <1>2
    <2>3. WriteBack(orders[o], orders[o], job[w].ordNew[o]) = job[w].ordNew[o]
      BY <2>2, WriteBackOrder DEF OrderRow
    <2> QED
      BY <2>1, <2>3
  <1>4. ASSUME NEW p \in Payments
        PROVE  payments'[p] = IF p = job[w].payment
                              THEN WriteBack(payments[p], job[w].payRead, job[w].payNew)
                              ELSE payments[p]
    BY DEF Commit
  <1>5. CASE NoPayment(job[w])
    BY <1>3, <1>4, <1>5 DEF NoPayment
  <1>6. CASE KnownPayment(job[w])
    <2>1. /\ job[w].payment \in Payments /\ job[w].payRead = payments[job[w].payment]
          /\ job[w].payNew.orders = job[w].payRead.orders
          /\ IsPaymentPaid(job[w].payment) => job[w].payNew.status = "paid"
      BY <1>1, <1>6 DEF SerialJob, RowsAsRead, KeepsPaid, KnownPayment
    <2>2. /\ payments'[job[w].payment].status = job[w].payNew.status
          /\ payments'[job[w].payment].orders = job[w].payRead.orders
      BY <1>1, <1>2, <1>4, <2>1, WriteBackPayment
    <2>3. ASSUME NEW p \in Payments, payments[p].status = "paid"
          PROVE  payments'[p].status = "paid" /\ payments'[p].orders = payments[p].orders
      BY <1>4, <2>1, <2>2, <2>3 DEF IsPaymentPaid
    <2> QED
      BY <1>3, <2>2, <2>3
  <1>7. CASE FreshPayment(job[w])
    BY <1>3, <1>4, <1>7 DEF FreshPayment
  <1> QED
    BY <1>1, <1>5, <1>6, <1>7

LEMMA CommitSerial ==
  ASSUME SerialInv, OneAtATime, NEW w \in Workers, Commit(w)
  PROVE  Serial'
  <1>1. ASSUME NEW o \in Orders, orders'[o].paymentStatus = "paid"
        PROVE  /\ orders'[o].ref \in Payments
               /\ payments'[orders'[o].ref].status = "paid"
               /\ o \in payments'[orders'[o].ref].orders
    <2>1. /\ job[w].stage = "ready" /\ PaidRows(job[w])
          /\ orders'[o] = job[w].ordNew[o]
      BY CommitWrites DEF Commit, SerialInv, Serial, SerialJob
    <2>2. CASE orders[o].paymentStatus = "paid" /\ orders'[o].ref = orders[o].ref
      BY <2>2, CommitWrites DEF SerialInv, Serial, PaidOrderNamesPayment, IsPaymentPaid
    <2>3. CASE /\ job[w].payment \in Payments /\ orders'[o].ref = job[w].payment
               /\ job[w].payNew.status = "paid" /\ o \in job[w].payRead.orders
      BY <2>3, CommitWrites
    <2> QED
      BY <1>1, <2>1, <2>2, <2>3 DEF PaidRows
  <1>2. PaidOrderNamesPayment'
    BY <1>1 DEF PaidOrderNamesPayment, IsPaymentPaid
  <1>3. \A v \in Workers : job'[v] = IdleJob
    BY DEF Commit, OneAtATime, SerialInv, PlacedInv, TypeInv, TypeOK
  <1>4. \A v \in Workers : SerialJob(job[v])'
    BY <1>3 DEF SerialJob, RowsAsRead, KeepsPaid, PayIsPaid, PaidRows, SettledRows, IdleJob
  <1> QED
    BY <1>2, <1>4 DEF Serial

LEMMA ProceedSerial ==
  ASSUME SerialInv, OneAtATime, NEW w \in Workers, Proceed(w) \/ Abort(w)
  PROVE  Serial'
  <1>1. job[w] \in Job
    BY DEF SerialInv, PlacedInv, TypeInv, TypeOK
  <1>2. CASE LoadOrders(w)
    BY <1>1, <1>2, ReadOrdersSerial DEF LoadOrders, Job
  <1>3. ASSUME NEW a \in Attempts, ReconcileFailure(w, a)  PROVE Serial'
    <2> DEFINE new == [job[w].payNew EXCEPT !.status = "paid", !.pid = a]
    <2>1. new \in PaymentRow /\ new.orders = job[w].payNew.orders /\ new.status = "paid"
      BY <1>1 DEF Job, PaymentRow, PaymentStatuses, PaymentIds
    <2>2. ReadOrders(w, "pay", new)
      BY <1>3 DEF ReconcileFailure
    <2> HIDE DEF new
    <2> QED
      BY <2>1, <2>2, ReadOrdersSerial DEF Effects
  <1>4. CASE Abort(w)
    BY <1>4, JobStepSerial, IdleJobSerial DEF Abort
  <1> QED
    BY <1>2, <1>3, <1>4, CommitSerial DEF Proceed

LEMMA UnchangedSerial ==
  ASSUME SerialInv, UNCHANGED <<orders, payments, job>>
  PROVE  Serial'
  BY DEF SerialInv, Serial, SerialJob, RowsAsRead, KeepsPaid, PayIsPaid, PaidRows, SettledRows,
         KnownPayment, IsPaymentPaid, PaidOrderNamesPayment

LEMMA SerialStep ==
  ASSUME SerialInv, OneAtATime, [Next]_vars
  PROVE  Serial'
  <1>1. ASSUME NEW w \in Workers, DeliverWebhook(w)  PROVE Serial'
    BY <1>1, WebhookSerial DEF DeliverWebhook
  <1>2. CASE UNCHANGED vars
    BY <1>2, UnchangedSerial DEF vars
  <1>3. CASE GatewayNext
    BY <1>3, UnchangedSerial DEF GatewayNext, GatewayFail, GatewayAuthorize, GatewayCapture,
                                 GatewayStep
  <1> QED
    BY <1>1, <1>2, <1>3, PaymentRequestSerial, OrderRequestSerial, ProceedSerial DEF Next

\* Only a commit changes the rows.
LEMMA OnlyCommitWrites ==
  ASSUME [Next]_vars
  PROVE  UNCHANGED <<orders, payments>> \/ \E w \in Workers : Commit(w)
  <1>1. ASSUME NEW w \in Workers, DeliverWebhook(w)  PROVE UNCHANGED <<orders, payments>>
    BY <1>1 DEF DeliverWebhook, WebhookReplayed, WebhookIgnored, WebhookAccepted, vars
  <1>2. ASSUME NEW w \in Workers, PaymentRequest(w)  PROVE UNCHANGED <<orders, payments>>
    BY <1>2 DEF PaymentRequest, VerifyPayment, VerifyBackfill, ReportFailure, DismissPayment,
                CompleteDemoPayment, CreatePaymentIntent
  <1>3. ASSUME NEW w \in Workers, OrderRequest(w)  PROVE UNCHANGED <<orders, payments>>
    BY <1>3 DEF OrderRequest, StudentCancel, AdminCancel, ConfirmOrderDelivery,
                UpdateOrderStatus, EnforceOrderTimeout, ApplyStatus
  <1>4. ASSUME NEW w \in Workers, Proceed(w) \/ Abort(w)
        PROVE  UNCHANGED <<orders, payments>> \/ Commit(w)
    BY <1>4 DEF Proceed, LoadOrders, ReconcileFailure, ReadOrders, Abort
  <1>5. CASE GatewayNext
    BY <1>5 DEF GatewayNext, GatewayFail, GatewayAuthorize, GatewayCapture, GatewayStep
  <1>6. CASE UNCHANGED vars
    BY <1>6 DEF vars
  <1> QED
    BY <1>1, <1>2, <1>3, <1>4, <1>5, <1>6 DEF Next

LEMMA SerialAlways ==
  ASSUME OneAtATime
  PROVE  Spec => []SerialInv
  <1>1. Init => Serial
    <2> SUFFICES ASSUME Init  PROVE Serial
      OBVIOUS
    <2>1. \A w \in Workers : job[w] = IdleJob
      BY DEF Init
    <2>2. PaidOrderNamesPayment
      BY DEF Init, PaidOrderNamesPayment, NewOrder
    <2> QED
      BY <2>1, <2>2, IdleJobSerial DEF Serial
  <1>2. Init => Placed
    BY InitPlaced
  <1>3. TypeInv /\ Placed /\ [Next]_vars => Placed'
    BY PlacedStep DEF PlacedInv
  <1>4. TypeInv /\ Placed /\ Serial /\ [Next]_vars => Serial'
    BY SerialStep DEF SerialInv, PlacedInv
  <1> QED
    BY <1>1, <1>2, <1>3, <1>4, TypeInvariant, PTL DEF Spec, SerialInv, PlacedInv

\* Whatever intents were opened, failed or dismissed meanwhile: with requests served one
\* after the other, an order marked paid names a payment that is paid and covers it
\* (food.py 3514-3759, 4702-4831, 4834-5040).
THEOREM PaidOrderNamesPaymentAlways ==
  ASSUME OneAtATime
  PROVE  Spec => []PaidOrderNamesPayment
  <1>1. SerialInv => PaidOrderNamesPayment
    BY DEF SerialInv, Serial
  <1> QED
    BY <1>1, SerialAlways, PTL

\* "Webhook ignored: payment already captured": with requests served one after the other
\* no late failure, dismissal or attempt takes a payment out of "paid".
THEOREM PaidPaymentStaysPaidAlways ==
  ASSUME OneAtATime
  PROVE  Spec => PaidPaymentStaysPaid
  <1>1. SerialInv /\ [Next]_vars =>
          [\A p \in Payments : IsPaymentPaid(p) => IsPaymentPaid(p)']_vars
    <2> SUFFICES ASSUME SerialInv, [Next]_vars, NEW p \in Payments, IsPaymentPaid(p)
                 PROVE  IsPaymentPaid(p)'
      OBVIOUS
    <2>1. CASE UNCHANGED <<orders, payments>>
      BY <2>1 DEF IsPaymentPaid
    <2>2. CASE \E w \in Workers : Commit(w)
      BY <2>2, CommitWrites DEF IsPaymentPaid
    <2> QED
      BY <2>1, <2>2, OnlyCommitWrites
  <1> QED
    BY <1>1, SerialAlways, PTL DEF Spec, PaidPaymentStaysPaid

\* With requests served one after the other, an order that was delivered, cancelled,
\* rejected or refunded, or waits for its refund, never comes back to the kitchen,
\* whatever payment, staff update or timeout comes late.
THEOREM SettledOrderNeverReopensAlways ==
  ASSUME OneAtATime
  PROVE  Spec => SettledOrderNeverReopens
  <1>1. SerialInv /\ [Next]_vars =>
          [\A o \in Orders :
             orders[o].status \in FinalStatuses \cup {"refund_pending"} =>
               orders'[o].status \in FinalStatuses \cup {"refund_pending"}]_vars
    <2> SUFFICES ASSUME SerialInv, [Next]_vars, NEW o \in Orders, orders[o].status \in Settled
                 PROVE  orders'[o].status \in Settled
      BY DEF Settled
    <2>1. CASE UNCHANGED <<orders, payments>>
      BY <2>1
    <2>2. ASSUME NEW w \in Workers, Commit(w)  PROVE orders'[o].status \in Settled
      <3>1. SettledRows(job[w]) /\ job[w].stage = "ready"
        BY <2>2 DEF Commit, SerialInv, Serial, SerialJob
      <3> QED
        BY <2>2, <3>1, CommitWrites DEF SettledRows
    <2> QED
      BY <2>1, <2>2, OnlyCommitWrites
  <1> QED
    BY <1>1, SerialAlways, PTL DEF Spec, SettledOrderNeverReopens
=============================================================================
