------------------------------- MODULE Payments -------------------------------
(***************************************************************************)
(* The payments of one order: PaymentsService.create in its phases, the     *)
(* administrator's status change, the Stripe webhook endpoint with its      *)
(* event log, and the order status that follows                             *)
(* (src/src/payments/payments.service.ts, payment-webhooks.controller.ts,   *)
(* payment-webhooks.service.ts).                                            *)
(*                                                                         *)
(* A transaction that holds a row lock from its first read to its commit is *)
(* one step.  What happens outside a transaction is a step of its own, and  *)
(* what a request or a delivery carries from one step to the next is the    *)
(* state of its process: the entity of a request, the record of a delivery. *)
(* Stripe delivers every event at least once, in any order and to several   *)
(* handlers at a time.  Refunds are the subject of another module; here no  *)
(* payment reaches REFUNDED or PARTIALLY_REFUNDED.                          *)
(***************************************************************************)
EXTENDS OrderLifecycle, PaymentPolicy, EntitySave

CONSTANTS
  Ids,        \* the payment rows that may be created for the order
  Requests,   \* POST /payments requests that may run at the same time
  Handlers,   \* webhook deliveries that may run at the same time
  None,       \* no payment: what an idle process works on
  MaxFaults   \* bound: processes that die half-way through their work

ASSUME NoneAssumption == None \notin Ids
ASSUME MaxFaultsAssumption == MaxFaults \in Nat

VARIABLES
  payment,    \* rows of payments
  request,    \* running POST /payments requests
  session,    \* Stripe's checkout session of each payment
  sent,       \* events Stripe has emitted and keeps delivering
  log,        \* payment_webhook_events.status of each event
  handler,    \* running webhook deliveries
  faults,     \* processes that have died so far
  failedOnce, \* history variable: payments that have been FAILED
  recorded    \* history variable: times a gateway charge completed a payment

gatewayVars == <<session, sent>>
webhookVars == <<log, handler>>
auxVars     == <<failedOnce, recorded>>
vars == <<orderVars, payment, request, gatewayVars, webhookVars, faults, auxVars>>

-----------------------------------------------------------------------------
\* Values

RowStatus == PaymentStatus \cup {"NONE"}

\* What transactionId holds: nothing, the checkout session, the payment
\* intent, or what an administrator typed.
Reference == {"NONE", "SESSION", "INTENT", "MANUAL"}

Row == [status : RowStatus, ref : Reference]

NoRow == [status |-> "NONE", ref |-> "NONE"]

\* The row phase 1 of create inserts, also the entity it keeps in memory.
NewRow == [status |-> "PENDING", ref |-> "NONE"]

\* A request is idle, waits for provider.initiate, or saves its entity, PENDING
\* with the session it got or FAILED, and knows the row as the save has read it.
Entity == [status : {"PENDING", "FAILED"}, ref : {"NONE", "SESSION"}]

IdleRequest == [at |-> "idle", id |-> None, entity |-> NewRow, before |-> NoRow]

RequestState ==
  [at : {"initiate", "update"}, id : Ids, entity : Entity, before : Row]
    \cup {IdleRequest}

\* Event types: a checkout paid, a checkout completed before the money came,
\* a declined card, and a type the endpoint has no case for.
EventKind == {"COMPLETED", "UNPAID", "FAILED", "OTHER"}
Event == [kind : EventKind, id : Ids]
Ev(k, p) == [kind |-> k, id |-> p]

LogStatus == {"NONE", "RECEIVED", "PROCESSED", "IGNORED", "ERROR"}

\* A delivery is idle, dispatches a recorded event, or marks its record.
IdleHandler == [at |-> "idle", event |-> Ev("OTHER", None), mark |-> "IGNORED"]

HandlerState ==
  [at : {"dispatch", "mark"}, event : Event, mark : {"PROCESSED", "IGNORED", "ERROR"}]
    \cup {IdleHandler}

Exists(p)   == payment[p].status # "NONE"
IsActive(p) == payment[p].status \in ActiveStatuses
Settled(p)  == payment[p].status \in TerminalStatuses

\* What assertNotPaid reads.
HasPaidPayment == \E p \in Ids : payment[p].status \in PaidStatuses

SetRequest(r, state) == request' = [request EXCEPT ![r] = state]
SetHandler(h, state) == handler' = [handler EXCEPT ![h] = state]

\* A row replaces the old one; FAILED rows are remembered.
SaveRow(p, row) ==
  /\ payment' = [payment EXCEPT ![p] = row]
  /\ failedOnce' = IF row.status = "FAILED" THEN failedOnce \cup {p}
                                            ELSE failedOnce

-----------------------------------------------------------------------------
\* POST /payments

\* Wrong form of InsertPayment: nobody looks for an active payment.
InsertPaymentUnchecked(p) ==
  /\ orderStatus \notin UnpayableOrderStatuses
  /\ ~Exists(p)
  /\ SaveRow(p, NewRow)

\* The transaction of phase 1, under the lock of the order row.
InsertPayment(p) ==
  /\ orderStatus \notin UnpayableOrderStatuses
  /\ \A q \in Ids : ~IsActive(q)
  /\ ~Exists(p)
  /\ SaveRow(p, NewRow)

\* A method no provider is registered for: phase 1 is all there is.
CreateOffline(p) ==
  /\ InsertPayment(p)
  /\ UNCHANGED <<orderVars, request, gatewayVars, webhookVars, faults, recorded>>

CreateStripe(r, p) ==
  /\ request[r].at = "idle"
  /\ InsertPayment(p)
  /\ SetRequest(r, [at |-> "initiate", id |-> p, entity |-> NewRow, before |-> NoRow])
  /\ UNCHANGED <<orderVars, gatewayVars, webhookVars, faults, recorded>>

\* paymentRepo.save(payment) first reads the row once more, without a lock.
Saves(r, entity) ==
  SetRequest(r, [request[r] EXCEPT !.at = "update", !.entity = entity,
                                   !.before = payment[request[r].id]])

\* provider.initiate returns a session: the entity takes its id and is saved.
InitiateOk(r) ==
  /\ request[r].at = "initiate"
  /\ Saves(r, [NewRow EXCEPT !.ref = "SESSION"])
  /\ UNCHANGED <<orderVars, payment, gatewayVars, webhookVars, faults, auxVars>>

\* The catch block: the entity, now FAILED, is saved.
InitiateError(r) ==
  /\ request[r].at = "initiate"
  /\ Saves(r, [NewRow EXCEPT !.status = "FAILED"])
  /\ UNCHANGED <<orderVars, payment, gatewayVars, webhookVars, faults, auxVars>>

\* The UPDATE writes the columns in which the entity of phase 1 differs from what
\* was read; the row exists, since payments are never deleted.
UpdatePayment(r) ==
  LET p == request[r].id IN
  /\ request[r].at = "update"
  /\ SaveRow(p, Written(request[r].entity, request[r].before, payment[p]))
  /\ SetRequest(r, IdleRequest)

\* Only then does the customer learn the address of the checkout.
SaveSession(r) ==
  /\ request[r].entity.status = "PENDING"
  /\ UpdatePayment(r)
  /\ session' = [session EXCEPT ![request[r].id] = "OPEN"]
  /\ UNCHANGED <<orderVars, sent, webhookVars, faults, recorded>>

\* The save itself throws: the catch block runs with the session in the entity.
SaveError(r) ==
  /\ request[r].at = "update" /\ request[r].entity.status = "PENDING"
  /\ faults < MaxFaults
  /\ faults' = faults + 1
  /\ Saves(r, [request[r].entity EXCEPT !.status = "FAILED"])
  /\ UNCHANGED <<orderVars, payment, gatewayVars, webhookVars, auxVars>>

MarkFailed(r) ==
  /\ request[r].entity.status = "FAILED"
  /\ UpdatePayment(r)
  /\ UNCHANGED <<orderVars, gatewayVars, webhookVars, faults, recorded>>

\* The process dies, or the catch block's own save throws and is only logged.
RequestDies(r) ==
  /\ request[r].at # "idle"
  /\ faults < MaxFaults
  /\ faults' = faults + 1
  /\ SetRequest(r, IdleRequest)
  /\ UNCHANGED <<orderVars, payment, gatewayVars, webhookVars, auxVars>>

-----------------------------------------------------------------------------
\* Wrong form of UpdateStatus: without the order's share of the transaction.
UpdateStatusAlone(p, status, ref) ==
  /\ status \in AssignableStatuses
  /\ Exists(p)
  /\ ~Settled(p)
  /\ ref \in {payment[p].ref, "MANUAL"}
  /\ SaveRow(p, [status |-> status, ref |-> ref])
  /\ UNCHANGED <<orderVars, request, gatewayVars, webhookVars, faults, recorded>>

\* Wrong form of UpdateStatus: no assertNotTerminal.
UpdateAnyStatus(p, status, ref) ==
  /\ status \in AssignableStatuses
  /\ Exists(p)
  /\ ref \in {payment[p].ref, "MANUAL"}
  /\ SaveRow(p, [status |-> status, ref |-> ref])
  /\ IF status = "COMPLETED" THEN ApplyStatusChange("CONFIRMED")
                             ELSE UNCHANGED orderVars
  /\ UNCHANGED <<request, gatewayVars, webhookVars, faults, recorded>>

\* PATCH /admin/payments/:id/status
UpdateStatus(p, status, ref) ==
  /\ status \in AssignableStatuses
  /\ Exists(p)
  /\ ~Settled(p)
  /\ ref \in {payment[p].ref, "MANUAL"}
  /\ SaveRow(p, [status |-> status, ref |-> ref])
  /\ IF status = "COMPLETED" THEN ApplyStatusChange("CONFIRMED")
                             ELSE UNCHANGED orderVars
  /\ UNCHANGED <<request, gatewayVars, webhookVars, faults, recorded>>

-----------------------------------------------------------------------------
\* The orders module acting on the same order

CustomerCancels ==
  /\ CancelOrder(HasPaidPayment)
  /\ UNCHANGED <<payment, request, gatewayVars, webhookVars, faults, auxVars>>

AdminMovesOrder(to) ==
  /\ UpdateOrderStatus(to, HasPaidPayment)
  /\ UNCHANGED <<payment, request, gatewayVars, webhookVars, faults, auxVars>>

-----------------------------------------------------------------------------
\* Stripe and the customer at the checkout.  The session outlives whatever
\* happens to the payment row and to the order.

Emit(e) == sent' = sent \cup {e}

StripeStep(p, from, to, kind) ==
  /\ session[p] = from
  /\ session' = [session EXCEPT ![p] = to]
  /\ Emit(Ev(kind, p))
  /\ UNCHANGED <<orderVars, payment, request, webhookVars, faults, auxVars>>

CustomerPays(p) == StripeStep(p, "OPEN", "PAID", "COMPLETED")

\* A declined card leaves the session open for another try.
CardDeclined(p) == StripeStep(p, "OPEN", "OPEN", "FAILED")

\* A delayed method: the checkout completes first, the money comes later and
\* is announced by an event type the endpoint does not know.
CompletesUnpaid(p) == StripeStep(p, "OPEN", "AWAITED", "UNPAID")
DelayedFundsArrive(p) == StripeStep(p, "AWAITED", "PAID", "OTHER")

-----------------------------------------------------------------------------
\* POST /payments/webhooks/stripe

\* Wrong form of Deliver: any event recorded before counts as a duplicate.
DeliverNewOnly(h, e) ==
  /\ handler[h].at = "idle"
  /\ e \in sent
  /\ log[e] = "NONE"
  /\ log' = [log EXCEPT ![e] = "RECEIVED"]
  /\ SetHandler(h, [at |-> "dispatch", event |-> e, mark |-> "PROCESSED"])
  /\ UNCHANGED <<orderVars, payment, request, gatewayVars, faults, auxVars>>

\* recordEvent inserts the event; a delivery of an event whose row has left
\* RECEIVED is acknowledged and nothing else.
Deliver(h, e) ==
  /\ handler[h].at = "idle"
  /\ e \in sent
  /\ log[e] \in {"NONE", "RECEIVED"}
  /\ log' = [log EXCEPT ![e] = "RECEIVED"]
  /\ SetHandler(h, [at |-> "dispatch", event |-> e, mark |-> "PROCESSED"])
  /\ UNCHANGED <<orderVars, payment, request, gatewayVars, faults, auxVars>>

\* The service call returned: what markProcessed, markIgnored or markError
\* will write is settled.
Return(h, mark) ==
  SetHandler(h, [handler[h] EXCEPT !.at = "mark", !.mark = mark])

\* Wrong form of CompleteFromGatewayEvent: no look at the payment's status.
CompleteTwice(h) ==
  LET p == handler[h].event.id IN
  /\ handler[h].at = "dispatch"
  /\ handler[h].event.kind = "COMPLETED"
  /\ Return(h, IF Exists(p) THEN "PROCESSED" ELSE "ERROR")
  /\ IF Exists(p)
     THEN /\ SaveRow(p, [status |-> "COMPLETED", ref |-> "INTENT"])
          /\ recorded' = [recorded EXCEPT ![p] = @ + 1]
          /\ ApplyStatusChange("CONFIRMED")
     ELSE UNCHANGED <<orderVars, payment, auxVars>>
  /\ UNCHANGED <<request, gatewayVars, log, faults>>

\* completeFromGatewayEvent, under the lock of the payment row
CompleteFromGatewayEvent(h) ==
  LET p == handler[h].event.id IN
  /\ handler[h].at = "dispatch"
  /\ handler[h].event.kind = "COMPLETED"
  /\ Return(h, IF Exists(p) THEN "PROCESSED" ELSE "ERROR")
  /\ IF Exists(p) /\ ~Settled(p)
     THEN /\ SaveRow(p, [status |-> "COMPLETED", ref |-> "INTENT"])
          /\ recorded' = [recorded EXCEPT ![p] = @ + 1]
          /\ ApplyStatusChange("CONFIRMED")
     ELSE UNCHANGED <<orderVars, payment, auxVars>>
  /\ UNCHANGED <<request, gatewayVars, log, faults>>

\* Wrong form of FailFromGatewayEvent: no look at the payment's status.
FailEvenSettled(h) ==
  LET p == handler[h].event.id IN
  /\ handler[h].at = "dispatch"
  /\ handler[h].event.kind = "FAILED"
  /\ Return(h, IF Exists(p) THEN "PROCESSED" ELSE "ERROR")
  /\ IF Exists(p)
     THEN SaveRow(p, [payment[p] EXCEPT !.status = "FAILED"])
     ELSE UNCHANGED <<payment, failedOnce>>
  /\ UNCHANGED <<orderVars, request, gatewayVars, log, faults, recorded>>

\* failFromGatewayEvent, under the lock of the payment row
FailFromGatewayEvent(h) ==
  LET p == handler[h].event.id IN
  /\ handler[h].at = "dispatch"
  /\ handler[h].event.kind = "FAILED"
  /\ Return(h, IF Exists(p) THEN "PROCESSED" ELSE "ERROR")
  /\ IF Exists(p) /\ ~Settled(p)
     THEN SaveRow(p, [payment[p] EXCEPT !.status = "FAILED"])
     ELSE UNCHANGED <<payment, failedOnce>>
  /\ UNCHANGED <<orderVars, request, gatewayVars, log, faults, recorded>>

\* No service is called: money that has not arrived is an error, an event
\* type without a case is ignored.
SkipEvent(h) ==
  /\ handler[h].at = "dispatch"
  /\ handler[h].event.kind \in {"UNPAID", "OTHER"}
  /\ Return(h, IF handler[h].event.kind = "UNPAID" THEN "ERROR" ELSE "IGNORED")
  /\ UNCHANGED <<orderVars, payment, request, gatewayVars, log, faults, auxVars>>

\* webhookEventRepo.save(record) with the new status; 200 to Stripe.
MarkEvent(h) ==
  /\ handler[h].at = "mark"
  /\ log' = [log EXCEPT ![handler[h].event] = handler[h].mark]
  /\ SetHandler(h, IdleHandler)
  /\ UNCHANGED <<orderVars, payment, request, gatewayVars, faults, auxVars>>

\* The delivery dies or throws between two of its database calls: Stripe gets
\* no 200 and will deliver the event again.
HandlerDies(h) ==
  /\ handler[h].at # "idle"
  /\ faults < MaxFaults
  /\ faults' = faults + 1
  /\ SetHandler(h, IdleHandler)
  /\ UNCHANGED <<orderVars, payment, request, gatewayVars, log, auxVars>>

-----------------------------------------------------------------------------
Init ==
  /\ OrderInit
  /\ payment = [p \in Ids |-> NoRow]
  /\ request = [r \in Requests |-> IdleRequest]
  /\ session = [p \in Ids |-> "NONE"]
  /\ sent = {}
  /\ log = [e \in Event |-> "NONE"]
  /\ handler = [h \in Handlers |-> IdleHandler]
  /\ faults = 0
  /\ failedOnce = {}
  /\ recorded = [p \in Ids |-> 0]

PaymentStep(p) ==
  \/ CreateOffline(p)
  \/ \E r \in Requests : CreateStripe(r, p)
  \/ \E s \in PaymentStatus, ref \in Reference : UpdateStatus(p, s, ref)
  \/ CustomerPays(p)
  \/ CardDeclined(p)
  \/ CompletesUnpaid(p)
  \/ DelayedFundsArrive(p)

RequestStep(r) ==
  \/ InitiateOk(r)
  \/ InitiateError(r)
  \/ SaveSession(r)
  \/ SaveError(r)
  \/ MarkFailed(r)
  \/ RequestDies(r)

HandlerStep(h) ==
  \/ \E e \in Event : Deliver(h, e)
  \/ CompleteFromGatewayEvent(h)
  \/ FailFromGatewayEvent(h)
  \/ SkipEvent(h)
  \/ MarkEvent(h)
  \/ HandlerDies(h)

Next ==
  \/ \E p \in Ids : PaymentStep(p)
  \/ \E r \in Requests : RequestStep(r)
  \/ \E h \in Handlers : HandlerStep(h)
  \/ CustomerCancels
  \/ \E to \in OrderStatus : AdminMovesOrder(to)

Spec == Init /\ [][Next]_vars

\* Once started, a delivery runs on: nothing in the endpoint waits for anyone.
\* Stripe delivers an event it got no 200 for again and again.
DispatchEvent(h) ==
  CompleteFromGatewayEvent(h) \/ FailFromGatewayEvent(h) \/ SkipEvent(h)

Fairness ==
  /\ \A h \in Handlers : WF_vars(DispatchEvent(h)) /\ WF_vars(MarkEvent(h))
  /\ \A e \in Event : SF_vars(\E h \in Handlers : Deliver(h, e))

FairSpec == Spec /\ Fairness

-----------------------------------------------------------------------------
\* Properties

TypeOK ==
  /\ OrderTypeOK
  /\ payment \in [Ids -> Row]
  /\ request \in [Requests -> RequestState]
  /\ session \in [Ids -> {"NONE", "OPEN", "AWAITED", "PAID"}]
  /\ sent \subseteq Event
  /\ log \in [Event -> LogStatus]
  /\ handler \in [Handlers -> HandlerState]
  /\ faults \in 0 .. MaxFaults
  /\ failedOnce \subseteq Ids
  /\ recorded \in [Ids -> Nat]

\* A settled payment and its order never drift apart: the payment row and the
\* status bump commit together (payments.service.ts:254-256), and nothing
\* takes the order back to PENDING afterwards.
SettledPaymentMovedOrder == (\E p \in Ids : Settled(p)) => orderStatus # "PENDING"

\* The check-and-insert under the order lock serialises double clicks and
\* retries (payments.service.ts:68-74): a second payment row can only have
\* been inserted after the first one had FAILED.
SecondPaymentNeedsFailure ==
  \A p, q \in Ids :
    p # q /\ Exists(p) /\ Exists(q) => p \in failedOnce \/ q \in failedOnce

\* While a request still holds the entity it will save without a lock, its
\* payment exists, belongs to no other request and has not been offered to the
\* customer: the stale save can collide with an administrator but never with
\* a charge (payments.service.ts:120-131).
RequestOwnsUnofferedPayment ==
  \A r \in Requests : request[r].at # "idle" =>
    /\ Exists(request[r].id)
    /\ session[request[r].id] = "NONE"
    /\ \A s \in Requests \ {r} : request[s].id # request[r].id

\* An acknowledged charge is on the books: once the event of a paid checkout
\* is PROCESSED its payment is settled, whatever crashed, came twice or came
\* late before, and stays so (payment-webhooks.controller.ts:38-45).
ProcessedChargeIsSettled ==
  \A p \in Ids : log[Ev("COMPLETED", p)] = "PROCESSED" => Settled(p)

\* Two deliveries of one charge racing each other record it once, and the row
\* keeps the payment intent of the charge - later refunds need it
\* (payment-webhooks.controller.ts:80-84).
ChargeRecordedOnce ==
  \A p \in Ids :
    /\ recorded[p] <= 1
    /\ recorded[p] = 1 => payment[p].status = "COMPLETED" /\ payment[p].ref = "INTENT"

\* Every charge that Stripe need not report again is booked, and booked once.
ChargesAreBooked == ProcessedChargeIsSettled /\ ChargeRecordedOnce

\* Fulfilment never runs backwards: a late or repeated payment event does not
\* pull a shipped order back to CONFIRMED, and CANCELLED is the end
\* (order.policy.ts:103-110).
FulfilmentNeverMovesBack ==
  [][Stage(orderStatus) <= Stage(orderStatus')]_orderStatus

\* Neither the customer nor an administrator can cancel - and restock - an
\* order whose charge Stripe has been told is taken care of
\* (orders.service.ts:487-494).
AcknowledgedChargeBlocksCancel ==
  [][(\E p \in Ids : log[Ev("COMPLETED", p)] = "PROCESSED")
       => restocked' = restocked]_vars

\* A charge Stripe reports is recorded in the end, though deliveries die: an
\* event still RECEIVED is processed when it comes again
\* (payment-webhooks.controller.ts:38-48).
ChargeEventuallySettled ==
  \A p \in Ids : Ev("COMPLETED", p) \in sent ~> Settled(p)

\* Every event comes to an end: PROCESSED, IGNORED or ERROR
\* (payment-webhooks.service.ts:50-68).
EveryEventIsAnswered ==
  \A e \in Event : e \in sent ~> log[e] \in {"PROCESSED", "IGNORED", "ERROR"}

\* A settled payment is taken back only by the request that created it, whose
\* entity is from before, and only before the customer could pay: no event, no
\* administrator and no other request does (payments.service.ts:131, 141).
ReopensOwnPayment ==
  \A p \in Ids : Settled(p) /\ ~Settled(p)' =>
    /\ session[p] = "NONE"
    /\ \E r \in Requests : /\ request[r].at = "update"
                           /\ request[r].id = p
                           /\ request'[r].at = "idle"

OnlyCreateReopens == [][ReopensOwnPayment]_vars

\* What has been settled stays so: the books give up nothing that Stripe has
\* reported, and neither the customer nor an administrator cancels an order whose
\* charge has been acknowledged.
SettlementIsKept == OnlyCreateReopens /\ AcknowledgedChargeBlocksCancel

\* All this keeps the promises of ChargeBook: whichever event, request or
\* administrator moves, every step is one that the book allows
\* (payments.service.ts:244-302, orders.service.ts:487-494).
Reported     == {p \in Ids : Ev("COMPLETED", p) \in sent}
OnBooks      == {p \in Ids : Settled(p)}
Acknowledged == {p \in Ids : log[Ev("COMPLETED", p)] = "PROCESSED"}

Book == INSTANCE ChargeBook WITH
  reported <- Reported, settled <- OnBooks, acknowledged <- Acknowledged

ImplementsChargeBook == Book!Spec

\* docs/features/payments.md: "Only one "active" payment (`pending` or
\* `completed`) may exist per order at a time".
OneActivePayment ==
  \A p, q \in Ids : IsActive(p) /\ IsActive(q) => p = q

\* docs/features/payments.md:30: "Webhook events are deduplicated by `(provider,
\* eventId)` - a duplicate delivery is detected via a unique-constraint violation
\* and short-circuits with `{ received: true }` without reprocessing.", and so lines
\* 419 and 483: only the first delivery of an event dispatches it.  False of the
\* code, which has to process an event whose first delivery was never finished
\* (README, section 3).
DuplicatesAreSkipped ==
  [][ \A h \in Handlers : handler[h].at = "idle" /\ handler'[h].at = "dispatch"
        => log[handler'[h].event] = "NONE" ]_vars

===============================================================================
