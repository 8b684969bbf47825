---------------------------- MODULE PaymentsProofs ----------------------------
(***************************************************************************)
(* Safety of Payments for any number of payment rows, requests, deliveries  *)
(* and faults.  Type correctness and the order's invariants need only that  *)
(* every step is an OrderStep; the payments need the inductive invariant    *)
(* IInv below.                                                              *)
(***************************************************************************)
EXTENDS Payments, OrderLifecycleProofs

\* Whatever happens in the system, the order makes an OrderStep.
LEMMA NextOrderStep ==
  ASSUME TypeOK, [Next]_vars PROVE OrderStep
<1> USE DEF OrderStep, TypeOK
<1>1. CASE UNCHANGED vars
  BY <1>1 DEF vars, orderVars
<1>2. CASE CustomerCancels
  BY <1>2, OrderOperations DEF CustomerCancels, OrderStatus
<1>3. ASSUME NEW to \in OrderStatus, AdminMovesOrder(to) PROVE OrderStep
  BY <1>3, OrderOperations DEF AdminMovesOrder
<1>4. ASSUME NEW p \in Ids, PaymentStep(p) PROVE OrderStep
  <2>1. ASSUME NEW s \in PaymentStatus, NEW ref \in Reference, UpdateStatus(p, s, ref)
        PROVE  OrderStep
    <3>1. ApplyStatusChange("CONFIRMED") \/ UNCHANGED orderVars
      BY <2>1 DEF UpdateStatus
    <3> QED BY <3>1, OrderOperations DEF OrderStatus
  <2> QED
    BY <1>4, <2>1 DEF PaymentStep, CreateOffline, CreateStripe, CustomerPays,
       CardDeclined, CompletesUnpaid, DelayedFundsArrive, StripeStep
<1>5. ASSUME NEW r \in Requests, RequestStep(r) PROVE OrderStep
  BY <1>5 DEF RequestStep, InitiateOk, InitiateError, SaveSession, SaveError,
     MarkFailed, RequestDies
<1>6. ASSUME NEW h \in Handlers, HandlerStep(h) PROVE OrderStep
  <2>1. ASSUME CompleteFromGatewayEvent(h) PROVE OrderStep
    <3>1. ApplyStatusChange("CONFIRMED") \/ UNCHANGED orderVars
      BY <2>1 DEF CompleteFromGatewayEvent
    <3> QED BY <3>1, OrderOperations DEF OrderStatus
  <2> QED
    BY <1>6, <2>1 DEF HandlerStep, Deliver, FailFromGatewayEvent, SkipEvent,
       MarkEvent, HandlerDies
<1> QED BY <1>1, <1>2, <1>3, <1>4, <1>5, <1>6 DEF Next

\* What a request holds while it runs.
Running == [at : {"initiate", "update"}, id : Ids, entity : Entity, before : Row]

\* Each column of the row after an UPDATE is the entity's or the row's own.
LEMMA WrittenColumns ==
  ASSUME NEW entity \in Entity, NEW before, NEW now \in Row
  PROVE  /\ Written(entity, before, now) \in Row
         /\ Written(entity, before, now).status \in {entity.status, now.status}
<1> DEFINE row == Written(entity, before, now)
<1>1. DOMAIN now = {"status", "ref"}
  BY DEF Row
<1>2. row = [c \in {"status", "ref"} |-> IF entity[c] = before[c] THEN now[c] ELSE entity[c]]
  BY <1>1 DEF Written
<1>3. row.status \in {entity.status, now.status} /\ row.ref \in {entity.ref, now.ref}
  BY <1>2
<1>4. row = [status |-> row.status, ref |-> row.ref]
  BY <1>2
<1>5. row.status \in RowStatus /\ row.ref \in Reference
  BY <1>3 DEF Row, Entity, RowStatus, PaymentStatus, Reference
<1> HIDE DEF row
<1>6. row \in Row
  BY <1>4, <1>5 DEF Row
<1> QED BY <1>3, <1>6 DEF row

\* An entity of create() is PENDING without or with its session, or FAILED.
LEMMA EntitiesOfCreate ==
  /\ NewRow \in Entity
  /\ [NewRow EXCEPT !.ref = "SESSION"] \in Entity
  /\ [NewRow EXCEPT !.status = "FAILED"] \in Entity
  /\ \A entity \in Entity : [entity EXCEPT !.status = "FAILED"] \in Entity
BY DEF NewRow, Entity

\* The re-read of a save: the request goes on with its payment.
LEMMA SavesRuns ==
  ASSUME TypeOK, NEW r \in Requests, request[r] \in Running, NEW entity \in Entity,
         Saves(r, entity)
  PROVE  \E x \in Running : x.at = "update" /\ x.id = request[r].id /\ SetRequest(r, x)
<1> DEFINE x == [request[r] EXCEPT !.at = "update", !.entity = entity,
                                   !.before = payment[request[r].id]]
<1>1. payment[request[r].id] \in Row
  BY DEF TypeOK, Running
<1>2. x \in Running /\ x.at = "update" /\ x.id = request[r].id
  BY <1>1 DEF Running
<1>3. SetRequest(r, x)
  BY DEF Saves
<1> QED BY <1>2, <1>3

\* InitiateOk, InitiateError and SaveError re-read the row for a save.
LEMMA AnswerSaves ==
  ASSUME TypeOK, NEW r \in Requests, InitiateOk(r) \/ InitiateError(r) \/ SaveError(r)
  PROVE  \E x \in Running : x.at = "update" /\ x.id = request[r].id /\ SetRequest(r, x)
<1>1. request[r] \in Running
  BY DEF InitiateOk, InitiateError, SaveError, RequestState, IdleRequest, Running, TypeOK
<1>2. request[r].entity \in Entity
  BY <1>1 DEF Running
<1>3. \E entity \in Entity : Saves(r, entity)
  BY <1>2, EntitiesOfCreate DEF InitiateOk, InitiateError, SaveError
<1> QED BY <1>1, <1>3, SavesRuns

\* SaveRow replaces one row by another well-typed row.
LEMMA SaveRowType ==
  ASSUME TypeOK, NEW p \in Ids, NEW row \in Row, SaveRow(p, row)
  PROVE  payment' \in [Ids -> Row] /\ failedOnce' \subseteq Ids
BY DEF TypeOK, SaveRow

-----------------------------------------------------------------------------
\* The initial state is well typed.
LEMMA TypeInit == Init => TypeOK
BY MaxFaultsAssumption
DEF Init, OrderInit, TypeOK, OrderTypeOK, HistoryRow, OrderStatus, NoStatus,
    NoRow, IdleRequest, RequestState, IdleHandler, HandlerState,
    Row, RowStatus, PaymentStatus, Reference, LogStatus, EventKind, Event, Ev

\* The variables keep their types: every table, every process of Payments.
LEMMA TypeStep == TypeOK /\ [Next]_vars => TypeOK'
<1> USE DEF Row, RowStatus, PaymentStatus, Reference, LogStatus, EventKind, Event, Ev
<1> SUFFICES ASSUME TypeOK, [Next]_vars PROVE TypeOK'
  OBVIOUS
<1>0. OrderTypeOK'
  BY NextOrderStep, OrderStepType DEF TypeOK
<1> USE <1>0
<1>1. CASE UNCHANGED vars
  BY <1>1 DEF vars, gatewayVars, webhookVars, auxVars, TypeOK
<1>2. CASE CustomerCancels
  BY <1>2 DEF CustomerCancels, gatewayVars, webhookVars, auxVars, TypeOK
<1>3. ASSUME NEW to \in OrderStatus, AdminMovesOrder(to) PROVE TypeOK'
  BY <1>3 DEF AdminMovesOrder, gatewayVars, webhookVars, auxVars, TypeOK
<1>4. ASSUME NEW p \in Ids, CreateOffline(p) PROVE TypeOK'
  <2>1. NewRow \in Row  BY DEF NewRow
  <2> QED BY <1>4, <2>1, SaveRowType
          DEF CreateOffline, InsertPayment, gatewayVars, webhookVars, TypeOK
<1>5. ASSUME NEW p \in Ids, NEW r \in Requests, CreateStripe(r, p) PROVE TypeOK'
  <2>1. NewRow \in Row  BY DEF NewRow
  <2>2. [at |-> "initiate", id |-> p, entity |-> NewRow, before |-> NoRow] \in RequestState
    BY EntitiesOfCreate DEF RequestState, NoRow
  <2> QED BY <1>5, <2>1, <2>2, SaveRowType
          DEF CreateStripe, InsertPayment, SetRequest, gatewayVars, webhookVars, TypeOK
<1>6. ASSUME NEW p \in Ids, NEW s \in PaymentStatus, NEW ref \in Reference,
             UpdateStatus(p, s, ref)
      PROVE  TypeOK'
  <2> DEFINE row == [status |-> s, ref |-> ref]
  <2>1. row \in Row  BY DEF TypeOK
  <2>2. SaveRow(p, row)  BY <1>6 DEF UpdateStatus
  <2> HIDE DEF row
  <2> QED BY <1>6, <2>1, <2>2, SaveRowType
          DEF UpdateStatus, gatewayVars, webhookVars, TypeOK
<1>7. ASSUME NEW p \in Ids,
             CustomerPays(p) \/ CardDeclined(p) \/ CompletesUnpaid(p) \/ DelayedFundsArrive(p)
      PROVE  TypeOK'
  <2>1. PICK to \in {"OPEN", "PAID", "AWAITED"}, k \in EventKind :
          /\ session' = [session EXCEPT ![p] = to]
          /\ sent' = sent \cup {Ev(k, p)}
    BY <1>7 DEF CustomerPays, CardDeclined, CompletesUnpaid, DelayedFundsArrive,
       StripeStep, Emit
  <2>2. UNCHANGED <<payment, request, webhookVars, faults, auxVars>>
    BY <1>7 DEF CustomerPays, CardDeclined, CompletesUnpaid, DelayedFundsArrive,
       StripeStep
  <2>3. session' \in [Ids -> {"NONE", "OPEN", "AWAITED", "PAID"}] /\ sent' \subseteq Event
    BY <2>1 DEF TypeOK
  <2> QED BY <2>2, <2>3 DEF webhookVars, auxVars, TypeOK
<1>8. ASSUME NEW r \in Requests, InitiateOk(r) \/ InitiateError(r) \/ SaveError(r)
      PROVE  TypeOK'
  <2>1. PICK x \in RequestState : SetRequest(r, x)
    BY <1>8, AnswerSaves DEF RequestState, Running
  <2>2. faults' \in 0 .. MaxFaults
    BY <1>8, MaxFaultsAssumption DEF InitiateOk, InitiateError, SaveError, TypeOK
  <2> QED BY <1>8, <2>1, <2>2 DEF InitiateOk, InitiateError, SaveError, SetRequest,
          gatewayVars, webhookVars, auxVars, TypeOK
<1>9. ASSUME NEW r \in Requests, RequestDies(r) PROVE TypeOK'
  BY <1>9, MaxFaultsAssumption DEF RequestDies, SetRequest, RequestState, gatewayVars,
     webhookVars, auxVars, TypeOK
<1>10. ASSUME NEW r \in Requests, SaveSession(r) \/ MarkFailed(r) PROVE TypeOK'
  <2> DEFINE q   == request[r].id
             row == Written(request[r].entity, request[r].before, payment[q])
  <2>0. q \in Ids /\ request[r].entity \in Entity /\ payment[q] \in Row
    BY <1>10 DEF SaveSession, MarkFailed, UpdatePayment, TypeOK, RequestState, IdleRequest
  <2>1. row \in Row
    BY <2>0, WrittenColumns
  <2>2. SaveRow(q, row) /\ SetRequest(r, IdleRequest)
    BY <1>10 DEF SaveSession, MarkFailed, UpdatePayment
  <2> HIDE DEF row
  <2>3. payment' \in [Ids -> Row] /\ failedOnce' \subseteq Ids
    BY <2>0, <2>1, <2>2, SaveRowType
  <2>4. request' \in [Requests -> RequestState]
    BY <2>2 DEF RequestState, SetRequest, TypeOK
  <2>5. session' \in [Ids -> {"NONE", "OPEN", "AWAITED", "PAID"}]
    BY <1>10 DEF SaveSession, MarkFailed, gatewayVars, TypeOK
  <2> QED BY <1>10, <2>3, <2>4, <2>5 DEF SaveSession, MarkFailed, gatewayVars,
          webhookVars, TypeOK
<1>11. ASSUME NEW h \in Handlers, NEW e \in Event, Deliver(h, e) PROVE TypeOK'
  <2>1. [at |-> "dispatch", event |-> e, mark |-> "PROCESSED"] \in HandlerState
    BY DEF HandlerState
  <2> QED BY <1>11, <2>1 DEF Deliver, SetHandler, gatewayVars, auxVars, TypeOK
<1>12. ASSUME NEW h \in Handlers,
              CompleteFromGatewayEvent(h) \/ FailFromGatewayEvent(h) \/ SkipEvent(h)
       PROVE  TypeOK'
  <2> DEFINE q == handler[h].event.id
  <2>1. handler[h] \in [at : {"dispatch", "mark"}, event : Event,
                        mark : {"PROCESSED", "IGNORED", "ERROR"}]
    BY <1>12 DEF CompleteFromGatewayEvent, FailFromGatewayEvent, SkipEvent, TypeOK,
       HandlerState, IdleHandler
  <2>2. PICK mark \in {"PROCESSED", "IGNORED", "ERROR"} : Return(h, mark)
    BY <1>12 DEF CompleteFromGatewayEvent, FailFromGatewayEvent, SkipEvent
  <2>3. handler' \in [Handlers -> HandlerState]
    BY <2>1, <2>2 DEF Return, SetHandler, HandlerState, TypeOK
  <2>4. q \in Ids  BY <2>1
  <2>5. CASE CompleteFromGatewayEvent(h)
    <3>1. [status |-> "COMPLETED", ref |-> "INTENT"] \in Row  OBVIOUS
    <3>2. payment' \in [Ids -> Row] /\ failedOnce' \subseteq Ids
      BY <2>4, <2>5, <3>1, SaveRowType DEF CompleteFromGatewayEvent, auxVars, TypeOK
    <3> QED BY <2>3, <2>5, <3>2 DEF CompleteFromGatewayEvent, gatewayVars, auxVars, TypeOK
  <2>6. CASE FailFromGatewayEvent(h)
    <3>1. [payment[q] EXCEPT !.status = "FAILED"] \in Row
      BY <2>4 DEF TypeOK
    <3>2. payment' \in [Ids -> Row] /\ failedOnce' \subseteq Ids
      BY <2>4, <2>6, <3>1, SaveRowType DEF FailFromGatewayEvent, TypeOK
    <3> QED BY <2>3, <2>6, <3>2 DEF FailFromGatewayEvent, gatewayVars, TypeOK
  <2>7. CASE SkipEvent(h)
    BY <2>3, <2>7 DEF SkipEvent, gatewayVars, auxVars, TypeOK
  <2> QED BY <1>12, <2>5, <2>6, <2>7
<1>13. ASSUME NEW h \in Handlers, MarkEvent(h) PROVE TypeOK'
  <2>1. handler[h].event \in Event /\ handler[h].mark \in LogStatus
    BY <1>13 DEF MarkEvent, TypeOK, HandlerState, IdleHandler
  <2> QED BY <1>13, <2>1 DEF MarkEvent, SetHandler, HandlerState, gatewayVars, auxVars, TypeOK
<1>14. ASSUME NEW h \in Handlers, HandlerDies(h) PROVE TypeOK'
  BY <1>14, MaxFaultsAssumption
  DEF HandlerDies, SetHandler, HandlerState, gatewayVars, auxVars, TypeOK
<1> QED BY <1>1, <1>2, <1>3, <1>4, <1>5, <1>6, <1>7, <1>8, <1>9, <1>10, <1>11,
        <1>12, <1>13, <1>14 DEF Next, PaymentStep, RequestStep, HandlerStep

-----------------------------------------------------------------------------
\* Without refunds no payment is REFUNDED, and FAILED rows are remembered.
RowsWithoutRefunds ==
  \A p \in Ids : /\ payment[p].status \notin SystemOnlyStatuses
                 /\ payment[p].status = "FAILED" => p \in failedOnce

\* What Stripe knows comes after what it was told: a session belongs to a row,
\* an event to a session, a log entry and a delivery to an event.  A delivery
\* that reports the outcome of a charge has settled the payment.
StripeFollows ==
  /\ \A p \in Ids : session[p] # "NONE" => Exists(p)
  /\ \A p \in Ids : recorded[p] # 0 => session[p] # "NONE"
  /\ \A e \in sent : session[e.id] # "NONE"
  /\ \A e \in Event : log[e] # "NONE" => e \in sent
  /\ \A h \in Handlers : handler[h].at # "idle" => handler[h].event \in sent
  /\ \A h \in Handlers : handler[h].at = "mark" /\ handler[h].event.kind = "COMPLETED"
                           => Settled(handler[h].event.id)

IInv ==
  /\ TypeOK
  /\ RowsWithoutRefunds
  /\ StripeFollows
  /\ SettledPaymentMovedOrder
  /\ SecondPaymentNeedsFailure
  /\ RequestOwnsUnofferedPayment
  /\ ProcessedChargeIsSettled
  /\ ChargeRecordedOnce

\* The invariant holds at first: no payment, no request, no event.
LEMMA IInvInit == Init => IInv
<1> SUFFICES ASSUME Init PROVE IInv
  OBVIOUS
<1>1. TypeOK
  BY TypeInit
<1>2. \A e \in Event : log[e] = "NONE"
  BY DEF Init
<1>3. \A p \in Ids : Ev("COMPLETED", p) \in Event
  BY DEF Ev, Event, EventKind
<1> QED
  BY <1>1, <1>2, <1>3
  DEF Init, IInv, NoRow, IdleRequest, IdleHandler, RowsWithoutRefunds, SystemOnlyStatuses,
      StripeFollows, SettledPaymentMovedOrder, Settled, TerminalStatuses, Exists,
      SecondPaymentNeedsFailure, RequestOwnsUnofferedPayment, ProcessedChargeIsSettled,
      ChargeRecordedOnce

\* The steps that leave payments, requests and what Stripe knows alone.
LEMMA OrderOnlyKeepsIInv ==
  ASSUME IInv, TypeOK', OrderStep, UNCHANGED <<payment, request, session, sent, log,
                                               handler, failedOnce, recorded>>
  PROVE  IInv'
<1>1. SettledPaymentMovedOrder'
  BY DEF IInv, SettledPaymentMovedOrder, Settled, OrderStep, OrderMove, SetStatus,
     orderVars, Stage, TypeOK, OrderTypeOK, OrderStatus
<1> QED BY <1>1 DEF IInv, RowsWithoutRefunds, StripeFollows, Settled, Exists,
        SecondPaymentNeedsFailure, RequestOwnsUnofferedPayment,
        ProcessedChargeIsSettled, ChargeRecordedOnce
\* Saving a row that exists keeps what is said of rows and of the order, when
\* a payment that becomes COMPLETED takes the order out of PENDING.
LEMMA SaveRowKeeps ==
  ASSUME IInv, OrderStep, NEW p \in Ids, Exists(p), NEW row \in Row, SaveRow(p, row),
         row.status \in AssignableStatuses,
         row.status = "COMPLETED" => orderStatus' # "PENDING"
  PROVE  /\ RowsWithoutRefunds' /\ SettledPaymentMovedOrder' /\ SecondPaymentNeedsFailure'
         /\ payment'[p] = row
         /\ \A q \in Ids : q # p => payment'[q] = payment[q]
         /\ \A q \in Ids : Exists(q)' <=> Exists(q)
<1>1. payment'[p] = row /\ \A q \in Ids : q # p => payment'[q] = payment[q]
  BY DEF SaveRow, IInv, TypeOK
<1>2. row.status \in {"PENDING", "COMPLETED", "FAILED"}
  BY DEF AssignableStatuses, PaymentStatus, SystemOnlyStatuses
<1>3. \A q \in Ids : Exists(q)' <=> Exists(q)
  BY <1>1, <1>2 DEF Exists
<1>4. failedOnce \subseteq failedOnce' /\ (row.status = "FAILED" => p \in failedOnce')
  BY DEF SaveRow
<1>5. RowsWithoutRefunds'
  BY <1>1, <1>2, <1>4 DEF RowsWithoutRefunds, IInv, SystemOnlyStatuses
<1>6. orderStatus # "PENDING" => orderStatus' # "PENDING"
  BY DEF OrderStep, OrderMove, SetStatus, orderVars, Stage, IInv, TypeOK, OrderTypeOK,
     OrderStatus
<1>7. SettledPaymentMovedOrder'
  BY <1>1, <1>2, <1>6 DEF SettledPaymentMovedOrder, Settled, TerminalStatuses, IInv
<1>8. SecondPaymentNeedsFailure'
  BY <1>3, <1>4 DEF SecondPaymentNeedsFailure, IInv
<1> QED BY <1>1, <1>3, <1>5, <1>7, <1>8

\* A payment confirmation leaves no order PENDING.
LEMMA ConfirmationMovesOrder ==
  ASSUME ApplyStatusChange("CONFIRMED") PROVE orderStatus' # "PENDING"
BY DEF ApplyStatusChange, CanApplyExternalStatusChange, SetStatus, orderVars

\* A running request works on a payment that exists, on which Stripe has
\* nothing and no other request works.
LEMMA RunningRequest ==
  ASSUME IInv, NEW r \in Requests, request[r].at # "idle"
  PROVE  /\ request[r] \in Running /\ request[r].id \in Ids
         /\ Exists(request[r].id) /\ session[request[r].id] = "NONE"
         /\ recorded[request[r].id] = 0
         /\ Ev("COMPLETED", request[r].id) \notin sent
         /\ log[Ev("COMPLETED", request[r].id)] = "NONE"
         /\ \A s \in Requests \ {r} : request[s].at # "idle" => request[s].id # request[r].id
<1>1. request[r] \in Running /\ request[r].id \in Ids
  BY DEF IInv, TypeOK, RequestState, IdleRequest, Running
<1>2. /\ Exists(request[r].id) /\ session[request[r].id] = "NONE"
      /\ \A s \in Requests \ {r} : request[s].at # "idle" => request[s].id # request[r].id
  BY DEF IInv, RequestOwnsUnofferedPayment
<1>3. recorded[request[r].id] = 0
  BY <1>1, <1>2 DEF IInv, StripeFollows
<1>4. Ev("COMPLETED", request[r].id) \in Event /\ Ev("COMPLETED", request[r].id).id = request[r].id
  BY <1>1 DEF Ev, Event, EventKind
<1>5. Ev("COMPLETED", request[r].id) \notin sent
  BY <1>2, <1>4 DEF IInv, StripeFollows
<1>6. log[Ev("COMPLETED", request[r].id)] = "NONE"
  BY <1>4, <1>5 DEF IInv, StripeFollows
<1> QED BY <1>1, <1>2, <1>3, <1>5, <1>6

\* A running delivery has an event of Stripe, and its payment exists.
LEMMA RunningHandler ==
  ASSUME IInv, NEW h \in Handlers, handler[h].at # "idle"
  PROVE  /\ handler[h] \in [at : {"dispatch", "mark"}, event : Event,
                            mark : {"PROCESSED", "IGNORED", "ERROR"}]
         /\ handler[h].event \in sent /\ handler[h].event.id \in Ids
         /\ session[handler[h].event.id] # "NONE" /\ Exists(handler[h].event.id)
<1>1. handler[h] \in [at : {"dispatch", "mark"}, event : Event,
                      mark : {"PROCESSED", "IGNORED", "ERROR"}]
  BY DEF IInv, TypeOK, HandlerState, IdleHandler
<1>2. handler[h].event \in sent /\ session[handler[h].event.id] # "NONE"
  BY DEF IInv, StripeFollows
<1>3. handler[h].event.id \in Ids
  BY <1>1 DEF Event
<1> QED BY <1>1, <1>2, <1>3 DEF IInv, StripeFollows

\* A new row is inserted where there was none; the others stay.
LEMMA InsertKeeps ==
  ASSUME IInv, NEW p \in Ids, InsertPayment(p), UNCHANGED orderVars
  PROVE  /\ RowsWithoutRefunds' /\ SettledPaymentMovedOrder' /\ SecondPaymentNeedsFailure'
         /\ ~Exists(p) /\ Exists(p)'
         /\ \A q \in Ids : q # p => payment'[q] = payment[q]
<1>1. payment'[p] = NewRow /\ \A q \in Ids : q # p => payment'[q] = payment[q]
  BY DEF InsertPayment, SaveRow, IInv, TypeOK
<1>2. failedOnce' = failedOnce
  BY DEF InsertPayment, SaveRow, NewRow
<1>3. RowsWithoutRefunds' /\ SettledPaymentMovedOrder'
  BY <1>1, <1>2 DEF IInv, RowsWithoutRefunds, SystemOnlyStatuses, SettledPaymentMovedOrder,
     Settled, TerminalStatuses, NewRow, orderVars
<1>4. \A q \in Ids : Exists(q) => payment[q].status = "FAILED" /\ q \in failedOnce
  BY DEF InsertPayment, IsActive, ActiveStatuses, Exists, IInv, RowsWithoutRefunds,
     SystemOnlyStatuses, TypeOK, Row, RowStatus, PaymentStatus
<1>5. SecondPaymentNeedsFailure'
  BY <1>1, <1>2, <1>4 DEF SecondPaymentNeedsFailure, Exists
<1> QED BY <1>1, <1>3, <1>5 DEF Exists, NewRow, InsertPayment

\* Whatever happens to the row of a payment that has not been offered to the
\* customer, Stripe, the event log and the deliveries do not depend on it.
LEMMA UnofferedRow ==
  ASSUME IInv, NEW p \in Ids, session[p] = "NONE", Exists(p)',
         \A q \in Ids : q # p => payment'[q] = payment[q],
         session' = session \/ session' = [session EXCEPT ![p] = "OPEN"],
         UNCHANGED <<sent, webhookVars, recorded>>
  PROVE  StripeFollows' /\ ProcessedChargeIsSettled' /\ ChargeRecordedOnce'
<1> USE DEF webhookVars
<1>1. \A q \in Ids : q # p => session'[q] = session[q]
  BY DEF IInv, TypeOK
<1>2. \A q \in Ids : q # p => (Exists(q)' <=> Exists(q)) /\ (Settled(q)' <=> Settled(q))
  BY DEF Exists, Settled
<1>3. recorded[p] = 0
  BY DEF IInv, StripeFollows
<1>4. \A e \in Event : e.id \in Ids
  BY DEF Event
<1>5. \A e \in sent : e.id # p /\ e.id \in Ids
  BY <1>4 DEF IInv, StripeFollows, TypeOK
<1>6. \A h \in Handlers : handler[h].at # "idle" => handler[h].event.id \in Ids \ {p}
  BY <1>5, RunningHandler
<1>7. StripeFollows'
  <2>1. \A q \in Ids : session'[q] # "NONE" => Exists(q)'
    BY <1>1, <1>2 DEF IInv, StripeFollows
  <2>2. \A q \in Ids : recorded'[q] # 0 => session'[q] # "NONE"
    BY <1>1, <1>3 DEF IInv, StripeFollows
  <2>3. \A e \in sent' : session'[e.id] # "NONE"
    BY <1>1, <1>5 DEF IInv, StripeFollows
  <2>4. \A e \in Event : log'[e] # "NONE" => e \in sent'
    BY DEF IInv, StripeFollows
  <2>5. \A h \in Handlers : handler'[h].at # "idle" => handler'[h].event \in sent'
    BY DEF IInv, StripeFollows
  <2>6. \A h \in Handlers : handler'[h].at = "mark" /\ handler'[h].event.kind = "COMPLETED"
                              => Settled(handler[h].event.id)'
    BY <1>2, <1>6 DEF IInv, StripeFollows
  <2> QED BY <2>1, <2>2, <2>3, <2>4, <2>5, <2>6 DEF StripeFollows
<1>8. ProcessedChargeIsSettled'
  <2>1. \A q \in Ids : Ev("COMPLETED", q) \in Event /\ Ev("COMPLETED", q).id = q
    BY DEF Ev, Event, EventKind
  <2>2. log[Ev("COMPLETED", p)] = "NONE"
    BY <2>1, <1>5 DEF IInv, StripeFollows
  <2> QED BY <2>2, <1>2 DEF IInv, ProcessedChargeIsSettled
<1>9. ChargeRecordedOnce'
  BY <1>3 DEF IInv, ChargeRecordedOnce
<1> QED BY <1>7, <1>8, <1>9

\* What is settled stays settled, deliveries only move on and the log is left
\* alone: the requests, Stripe and the log still agree with the rows.
LEMMA SettledStays ==
  ASSUME IInv, TypeOK',
         RowsWithoutRefunds', SettledPaymentMovedOrder', SecondPaymentNeedsFailure',
         ChargeRecordedOnce',
         \A q \in Ids : Settled(q) => Settled(q)',
         \A q \in Ids : Exists(q)' <=> Exists(q),
         \A q \in Ids : recorded'[q] # 0 => session[q] # "NONE",
         \A h \in Handlers : handler'[h].at # "idle" =>
            handler[h].at # "idle" /\ handler'[h].event = handler[h].event,
         \A h \in Handlers : handler'[h].at = "mark" /\ handler'[h].event.kind = "COMPLETED"
            => handler[h].at = "mark" \/ Settled(handler[h].event.id)',
         UNCHANGED <<request, gatewayVars, log>>
  PROVE  IInv'
<1> USE DEF gatewayVars
<1>1. \A h \in Handlers : handler[h].at # "idle" => handler[h].event.id \in Ids
  BY RunningHandler
<1>2. StripeFollows'
  BY <1>1 DEF IInv, StripeFollows
<1>3. ProcessedChargeIsSettled'
  BY DEF IInv, ProcessedChargeIsSettled
<1>4. RequestOwnsUnofferedPayment'
  BY RunningRequest DEF IInv, RequestOwnsUnofferedPayment
<1> QED BY <1>2, <1>3, <1>4 DEF IInv

\* Requests move on or stop, and nothing else happens.
LEMMA RequestsOnly ==
  ASSUME IInv, TypeOK',
         UNCHANGED <<orderStatus, payment, session, sent, log, handler, failedOnce, recorded>>,
         \A s \in Requests : request'[s].at # "idle" => request[s].at # "idle",
         \A s \in Requests : request'[s].at # "idle" => request'[s].id = request[s].id,
         \A s \in Requests : request'[s].id \in {request[s].id, None}
  PROVE  IInv'
<1>1. RequestOwnsUnofferedPayment'
  <2> SUFFICES ASSUME NEW r \in Requests, request'[r].at # "idle"
               PROVE  /\ Exists(request[r].id)' /\ session'[request'[r].id] = "NONE"
                      /\ \A s \in Requests \ {r} : request'[s].id # request'[r].id
    BY DEF RequestOwnsUnofferedPayment
  <2>1. /\ request[r].id \in Ids /\ Exists(request[r].id) /\ session[request[r].id] = "NONE"
        /\ \A s \in Requests \ {r} : request[s].id # request[r].id
    BY RunningRequest DEF IInv, RequestOwnsUnofferedPayment
  <2> QED BY <2>1, NoneAssumption DEF Exists
<1> QED BY <1>1 DEF IInv, RowsWithoutRefunds, StripeFollows, SettledPaymentMovedOrder, Settled,
        Exists, SecondPaymentNeedsFailure, ProcessedChargeIsSettled, ChargeRecordedOnce

\* A delivery that has dispatched its event still has it.
LEMMA ReturnKeepsEvent ==
  ASSUME IInv, NEW h \in Handlers, handler[h].at = "dispatch", NEW mark, Return(h, mark)
  PROVE  /\ \A g \in Handlers : g # h => handler'[g] = handler[g]
         /\ handler'[h].event = handler[h].event
<1>1. handler[h] \in [at : {"dispatch", "mark"}, event : Event,
                      mark : {"PROCESSED", "IGNORED", "ERROR"}]
  BY RunningHandler
<1> QED BY <1>1 DEF Return, SetHandler, IInv, TypeOK

\* Every step keeps the payments' invariant: one step per action.
LEMMA IInvStep == IInv /\ [Next]_vars => IInv'
<1> SUFFICES ASSUME IInv, [Next]_vars PROVE IInv'
  OBVIOUS
<1>0. TypeOK /\ TypeOK' /\ OrderStep
  BY TypeStep, NextOrderStep DEF IInv
<1> USE <1>0
<1>1. CASE UNCHANGED vars
  BY <1>1, OrderOnlyKeepsIInv DEF vars, gatewayVars, webhookVars, auxVars
<1>2. CASE CustomerCancels
  BY <1>2, OrderOnlyKeepsIInv DEF CustomerCancels, gatewayVars, webhookVars, auxVars
<1>3. ASSUME NEW to \in OrderStatus, AdminMovesOrder(to) PROVE IInv'
  BY <1>3, OrderOnlyKeepsIInv DEF AdminMovesOrder, gatewayVars, webhookVars, auxVars
<1>4. ASSUME NEW p \in Ids, CreateOffline(p) PROVE IInv'
  <2>1. InsertPayment(p) /\ UNCHANGED <<orderVars, request, gatewayVars, webhookVars, recorded>>
    BY <1>4 DEF CreateOffline
  <2>2. /\ RowsWithoutRefunds' /\ SettledPaymentMovedOrder' /\ SecondPaymentNeedsFailure'
        /\ ~Exists(p) /\ Exists(p)' /\ \A q \in Ids : q # p => payment'[q] = payment[q]
    BY <2>1, InsertKeeps
  <2>3. StripeFollows' /\ ProcessedChargeIsSettled' /\ ChargeRecordedOnce'
    BY <2>1, <2>2, UnofferedRow DEF IInv, StripeFollows, gatewayVars
  <2>4. RequestOwnsUnofferedPayment'
    BY <2>1, <2>2, RunningRequest
    DEF RequestOwnsUnofferedPayment, IInv, Exists, gatewayVars
  <2> QED BY <2>2, <2>3, <2>4 DEF IInv
<1>5. ASSUME NEW p \in Ids, NEW r \in Requests, CreateStripe(r, p) PROVE IInv'
  <2>1. InsertPayment(p) /\ UNCHANGED <<orderVars, gatewayVars, webhookVars, recorded>>
    BY <1>5 DEF CreateStripe
  <2>2. /\ RowsWithoutRefunds' /\ SettledPaymentMovedOrder' /\ SecondPaymentNeedsFailure'
        /\ ~Exists(p) /\ Exists(p)' /\ \A q \in Ids : q # p => payment'[q] = payment[q]
    BY <2>1, InsertKeeps
  <2>3. StripeFollows' /\ ProcessedChargeIsSettled' /\ ChargeRecordedOnce'
    BY <2>1, <2>2, UnofferedRow DEF IInv, StripeFollows, gatewayVars
  <2>4. /\ request'[r].id = p /\ \A s \in Requests : s # r => request'[s] = request[s]
        /\ session[p] = "NONE" /\ session' = session
    BY <1>5, <2>1, <2>2 DEF CreateStripe, SetRequest, TypeOK, IInv, StripeFollows, gatewayVars
  <2>5. \A s \in Requests : request[s].id # p
    BY <2>2, RunningRequest, NoneAssumption DEF TypeOK, RequestState, IdleRequest
  <2>6. RequestOwnsUnofferedPayment'
    <3> SUFFICES ASSUME NEW s \in Requests, request'[s].at # "idle"
                 PROVE  /\ Exists(request[s].id)' /\ session'[request'[s].id] = "NONE"
                        /\ \A t \in Requests \ {s} : request'[t].id # request'[s].id
      BY DEF RequestOwnsUnofferedPayment
    <3>1. CASE s = r
      BY <3>1, <2>2, <2>4, <2>5
    <3>2. CASE s # r
      <4>1. request'[s] = request[s] /\ request[s].id \in Ids \ {p} /\ Exists(request[s].id)
        BY <3>2, <2>4, <2>5, RunningRequest
      <4>2. Exists(request[s].id)'
        BY <4>1, <2>2 DEF Exists
      <4> QED BY <3>2, <4>1, <4>2, <2>4, <2>5 DEF RequestOwnsUnofferedPayment, IInv
    <3> QED BY <3>1, <3>2
  <2> QED BY <2>2, <2>3, <2>6 DEF IInv
<1>6. ASSUME NEW p \in Ids, NEW s \in PaymentStatus, NEW ref \in Reference,
             UpdateStatus(p, s, ref)
      PROVE  IInv'
  <2> DEFINE row == [status |-> s, ref |-> ref]
  <2>1. /\ row \in Row /\ row.status = s /\ s \in AssignableStatuses
        /\ SaveRow(p, row) /\ Exists(p) /\ ~Settled(p)
    BY <1>6 DEF UpdateStatus, TypeOK, Row, RowStatus
  <2>2. s = "COMPLETED" => orderStatus' # "PENDING"
    BY <1>6, ConfirmationMovesOrder DEF UpdateStatus
  <2> HIDE DEF row
  <2>3. /\ RowsWithoutRefunds' /\ SettledPaymentMovedOrder' /\ SecondPaymentNeedsFailure'
        /\ \A q \in Ids : q # p => payment'[q] = payment[q]
        /\ \A q \in Ids : Exists(q)' <=> Exists(q)
    BY <2>1, <2>2, SaveRowKeeps
  <2>4. UNCHANGED <<request, gatewayVars, webhookVars, recorded>>
    BY <1>6 DEF UpdateStatus
  <2>5. ChargeRecordedOnce' /\ \A q \in Ids : Settled(q) => Settled(q)'
    BY <2>1, <2>3, <2>4 DEF IInv, ChargeRecordedOnce, Settled, TerminalStatuses, TypeOK
  <2>6. \A q \in Ids : recorded'[q] # 0 => session[q] # "NONE"
    BY <2>4 DEF IInv, StripeFollows
  <2> QED BY <2>3, <2>4, <2>5, <2>6, SettledStays DEF webhookVars
<1>7. ASSUME NEW p \in Ids,
             CustomerPays(p) \/ CardDeclined(p) \/ CompletesUnpaid(p) \/ DelayedFundsArrive(p)
      PROVE  IInv'
  <2>1. PICK to \in {"OPEN", "PAID", "AWAITED"}, k \in EventKind :
          /\ session' = [session EXCEPT ![p] = to]
          /\ sent' = sent \cup {Ev(k, p)}
    BY <1>7 DEF CustomerPays, CardDeclined, CompletesUnpaid, DelayedFundsArrive,
       StripeStep, Emit, EventKind
  <2>2. /\ UNCHANGED <<orderStatus, payment, request, log, handler, failedOnce, recorded>>
        /\ session[p] # "NONE"
    BY <1>7 DEF CustomerPays, CardDeclined, CompletesUnpaid, DelayedFundsArrive,
       StripeStep, orderVars, webhookVars, auxVars
  <2>3. \A q \in Ids : session'[q] # "NONE" <=> session[q] # "NONE"
    BY <2>1, <2>2 DEF TypeOK
  <2>4. Ev(k, p).id = p /\ \A e \in sent : e.id \in Ids
    BY DEF Ev, TypeOK, Event
  <2>5. StripeFollows'
    BY <2>1, <2>2, <2>3, <2>4 DEF IInv, StripeFollows, Exists, Settled
  <2>6. RequestOwnsUnofferedPayment'
    BY <2>2, <2>3, RunningRequest DEF RequestOwnsUnofferedPayment, Exists, IInv
  <2> QED BY <2>2, <2>5, <2>6 DEF IInv, RowsWithoutRefunds, SettledPaymentMovedOrder,
          Settled, Exists, SecondPaymentNeedsFailure, ProcessedChargeIsSettled,
          ChargeRecordedOnce
<1>8. ASSUME NEW r \in Requests, InitiateOk(r) \/ InitiateError(r) \/ SaveError(r)
      PROVE  IInv'
  <2>1. request[r].at # "idle"
    BY <1>8 DEF InitiateOk, InitiateError, SaveError
  <2>2. PICK x \in Running : x.id = request[r].id /\ request' = [request EXCEPT ![r] = x]
    BY <1>8, AnswerSaves DEF SetRequest
  <2>3. /\ \A s \in Requests : request'[s].at # "idle" => request[s].at # "idle"
        /\ \A s \in Requests : request'[s].id = request[s].id
    BY <2>1, <2>2 DEF TypeOK
  <2>4. UNCHANGED <<orderStatus, payment, session, sent, log, handler, failedOnce, recorded>>
    BY <1>8 DEF InitiateOk, InitiateError, SaveError, orderVars, gatewayVars, webhookVars,
       auxVars
  <2> QED BY <2>3, <2>4, RequestsOnly
<1>9. ASSUME NEW r \in Requests, RequestDies(r) PROVE IInv'
  <2>1. request[r].at # "idle" /\ request' = [request EXCEPT ![r] = IdleRequest]
    BY <1>9 DEF RequestDies, SetRequest
  <2>2. UNCHANGED <<orderStatus, payment, session, sent, log, handler, failedOnce, recorded>>
    BY <1>9 DEF RequestDies, orderVars, gatewayVars, webhookVars, auxVars
  <2>3. /\ \A s \in Requests : request'[s].at # "idle" => request[s].at # "idle"
        /\ \A s \in Requests : request'[s].id \in {request[s].id, None}
        /\ \A s \in Requests : request'[s].at # "idle" => request'[s].id = request[s].id
    BY <2>1 DEF TypeOK, IdleRequest
  <2> QED BY <2>2, <2>3, RequestsOnly
<1>10. ASSUME NEW r \in Requests, SaveSession(r) \/ MarkFailed(r) PROVE IInv'
  <2> DEFINE q   == request[r].id
             row == Written(request[r].entity, request[r].before, payment[q])
  <2>1. request[r].at # "idle"
    BY <1>10 DEF SaveSession, MarkFailed, UpdatePayment
  <2>2. /\ request[r] \in Running
        /\ Exists(q) /\ session[q] = "NONE" /\ q \in Ids
        /\ \A s \in Requests \ {r} : request[s].at # "idle" => request[s].id # q
    BY <2>1, RunningRequest
  <2>3. /\ SaveRow(q, row) /\ row \in Row
        /\ row.status \in {"PENDING", "FAILED", payment[q].status}
    <3>1. request[r].entity \in Entity /\ payment[q] \in Row
      BY <2>2 DEF Running, TypeOK
    <3>2. request[r].entity.status \in {"PENDING", "FAILED"}
      BY <3>1 DEF Entity
    <3> QED BY <1>10, <3>1, <3>2, WrittenColumns DEF SaveSession, MarkFailed, UpdatePayment
  <2> HIDE DEF row
  <2>4. row.status \in AssignableStatuses
    BY <2>2, <2>3
    DEF AssignableStatuses, PaymentStatus, SystemOnlyStatuses, RowsWithoutRefunds, IInv,
        Exists, TypeOK, Row, RowStatus
  <2>9. row.status = "COMPLETED" => orderStatus' # "PENDING"
    <3>1. orderStatus' = orderStatus
      BY <1>10 DEF SaveSession, MarkFailed, orderVars
    <3>2. row.status = "COMPLETED" => Settled(q)
      BY <2>3 DEF Settled, TerminalStatuses
    <3> QED BY <2>2, <3>1, <3>2 DEF IInv, SettledPaymentMovedOrder
  <2>5. /\ RowsWithoutRefunds' /\ SettledPaymentMovedOrder' /\ SecondPaymentNeedsFailure'
        /\ \A p \in Ids : p # q => payment'[p] = payment[p]
        /\ \A p \in Ids : Exists(p)' <=> Exists(p)
    BY <2>2, <2>3, <2>4, <2>9, SaveRowKeeps
  <2>6. /\ session' = session \/ session' = [session EXCEPT ![q] = "OPEN"]
        /\ UNCHANGED <<sent, webhookVars, recorded>>
        /\ request' = [request EXCEPT ![r] = IdleRequest]
    BY <1>10 DEF SaveSession, MarkFailed, UpdatePayment, SetRequest, gatewayVars
  <2>7. StripeFollows' /\ ProcessedChargeIsSettled' /\ ChargeRecordedOnce'
    BY <2>2, <2>5, <2>6, UnofferedRow
  <2>8. RequestOwnsUnofferedPayment'
    <3>1. /\ request'[r] = IdleRequest
          /\ \A s \in Requests : s # r => request'[s] = request[s]
          /\ \A p \in Ids : p # q => session'[p] = session[p]
      BY <2>6 DEF TypeOK
    <3>2. \A s \in Requests : request'[s].at # "idle" =>
             s # r /\ request[s].id \in Ids \ {q} /\ Exists(request[s].id)
               /\ session[request[s].id] = "NONE"
               /\ \A t \in Requests \ {s} : request[t].id # request[s].id
      BY <3>1, <2>2, RunningRequest DEF IdleRequest, IInv, RequestOwnsUnofferedPayment
    <3> QED BY <3>1, <3>2, <2>5, NoneAssumption DEF RequestOwnsUnofferedPayment, IdleRequest
  <2> QED BY <2>5, <2>7, <2>8 DEF IInv
<1>11. ASSUME NEW h \in Handlers, NEW e \in Event, Deliver(h, e) PROVE IInv'
  <2>1. UNCHANGED <<orderVars, payment, request, gatewayVars, auxVars>>
    BY <1>11 DEF Deliver
  <2>2. /\ e \in sent /\ log' = [log EXCEPT ![e] = "RECEIVED"]
        /\ handler' = [handler EXCEPT ![h] = [at |-> "dispatch", event |-> e, mark |-> "PROCESSED"]]
    BY <1>11 DEF Deliver, SetHandler
  <2> QED BY <2>1, <2>2
          DEF IInv, RowsWithoutRefunds, StripeFollows, SettledPaymentMovedOrder, Settled, Exists,
              SecondPaymentNeedsFailure, RequestOwnsUnofferedPayment,
              ProcessedChargeIsSettled, ChargeRecordedOnce, gatewayVars, orderVars, auxVars, TypeOK
<1>12. ASSUME NEW h \in Handlers, CompleteFromGatewayEvent(h) PROVE IInv'
  <2> DEFINE p   == handler[h].event.id
             row == [status |-> "COMPLETED", ref |-> "INTENT"]
  <2>1. handler[h].at = "dispatch" /\ UNCHANGED <<request, gatewayVars, log>>
    BY <1>12 DEF CompleteFromGatewayEvent
  <2>2. p \in Ids /\ Exists(p) /\ session[p] # "NONE"
    BY <2>1, RunningHandler
  <2>3. /\ \A g \in Handlers : g # h => handler'[g] = handler[g]
        /\ handler'[h].event = handler[h].event
    BY <1>12, <2>1, ReturnKeepsEvent DEF CompleteFromGatewayEvent
  <2>4. CASE Settled(p)
    <3>1. UNCHANGED <<orderVars, payment, auxVars>>
      BY <1>12, <2>4 DEF CompleteFromGatewayEvent
    <3> QED BY <2>1, <2>3, <2>4, <3>1, SettledStays
            DEF IInv, RowsWithoutRefunds, SettledPaymentMovedOrder, SecondPaymentNeedsFailure,
                ChargeRecordedOnce, StripeFollows, Settled, Exists, orderVars, auxVars
  <2>5. CASE ~Settled(p)
    <3>1. SaveRow(p, row) /\ recorded' = [recorded EXCEPT ![p] = @ + 1]
            /\ ApplyStatusChange("CONFIRMED")
      BY <1>12, <2>2, <2>5 DEF CompleteFromGatewayEvent
    <3>2. row \in Row /\ row.status \in AssignableStatuses /\ row.status = "COMPLETED"
            /\ row.ref = "INTENT"
      BY DEF Row, RowStatus, PaymentStatus, Reference, AssignableStatuses, SystemOnlyStatuses
    <3> HIDE DEF row
    <3>3. /\ RowsWithoutRefunds' /\ SettledPaymentMovedOrder' /\ SecondPaymentNeedsFailure'
          /\ payment'[p] = row
          /\ \A q \in Ids : q # p => payment'[q] = payment[q]
          /\ \A q \in Ids : Exists(q)' <=> Exists(q)
      BY <2>2, <3>1, <3>2, SaveRowKeeps, ConfirmationMovesOrder
    <3>4. \A q \in Ids : Settled(q) => Settled(q)'
      BY <2>5, <3>3 DEF Settled
    <3>5. recorded[p] = 0 /\ recorded'[p] = 1
      BY <2>2, <2>5, <3>1 DEF IInv, ChargeRecordedOnce, Settled, TerminalStatuses, TypeOK
    <3>6. \A q \in Ids : q # p => recorded'[q] = recorded[q]
      BY <3>1 DEF TypeOK
    <3>7. ChargeRecordedOnce'
      BY <3>2, <3>3, <3>5, <3>6 DEF IInv, ChargeRecordedOnce
    <3>8. \A q \in Ids : recorded'[q] # 0 => session[q] # "NONE"
      BY <2>2, <3>6 DEF IInv, StripeFollows
    <3>9. Settled(p)'
      BY <2>3, <3>2, <3>3 DEF Settled, TerminalStatuses
    <3> QED BY <2>1, <2>3, <3>3, <3>4, <3>7, <3>8, <3>9, SettledStays
  <2> QED BY <2>4, <2>5
<1>13. ASSUME NEW h \in Handlers, FailFromGatewayEvent(h) PROVE IInv'
  <2> DEFINE p == handler[h].event.id
  <2>1. /\ handler[h].at = "dispatch" /\ handler[h].event.kind = "FAILED"
        /\ UNCHANGED <<orderVars, request, gatewayVars, log, recorded>>
    BY <1>13 DEF FailFromGatewayEvent
  <2>2. p \in Ids /\ Exists(p)
    BY <2>1, RunningHandler
  <2>3. /\ \A g \in Handlers : g # h => handler'[g] = handler[g]
        /\ handler'[h].event = handler[h].event
    BY <1>13, <2>1, ReturnKeepsEvent DEF FailFromGatewayEvent
  <2>4. CASE Settled(p)
    <3>1. UNCHANGED <<payment, failedOnce>>
      BY <1>13, <2>4 DEF FailFromGatewayEvent
    <3> QED BY <2>1, <2>3, <3>1, SettledStays
            DEF IInv, RowsWithoutRefunds, SettledPaymentMovedOrder, SecondPaymentNeedsFailure,
                ChargeRecordedOnce, StripeFollows, Settled, Exists, orderVars
  <2>5. CASE ~Settled(p)
    <3> DEFINE row == [payment[p] EXCEPT !.status = "FAILED"]
    <3>1. SaveRow(p, row)
      BY <1>13, <2>2, <2>5 DEF FailFromGatewayEvent
    <3>2. row \in Row /\ row.status = "FAILED" /\ row.status \in AssignableStatuses
      <4>1. payment[p] \in Row  BY <2>2 DEF TypeOK
      <4> HIDE DEF p
      <4> QED BY <4>1 DEF Row, RowStatus, PaymentStatus, AssignableStatuses, SystemOnlyStatuses
    <3> HIDE DEF row
    <3>3. /\ RowsWithoutRefunds' /\ SettledPaymentMovedOrder' /\ SecondPaymentNeedsFailure'
          /\ \A q \in Ids : q # p => payment'[q] = payment[q]
          /\ \A q \in Ids : Exists(q)' <=> Exists(q)
      BY <2>2, <3>1, <3>2, SaveRowKeeps
    <3>4. ChargeRecordedOnce' /\ \A q \in Ids : Settled(q) => Settled(q)'
      BY <2>1, <2>5, <3>3 DEF IInv, ChargeRecordedOnce, Settled, TerminalStatuses, TypeOK
    <3>5. \A q \in Ids : recorded'[q] # 0 => session[q] # "NONE"
      BY <2>1 DEF IInv, StripeFollows
    <3> QED BY <2>1, <2>3, <3>3, <3>4, <3>5, SettledStays
  <2> QED BY <2>4, <2>5
<1>14. ASSUME NEW h \in Handlers, SkipEvent(h) PROVE IInv'
  <2>1. /\ handler[h].at = "dispatch" /\ handler[h].event.kind \in {"UNPAID", "OTHER"}
        /\ UNCHANGED <<orderVars, payment, request, gatewayVars, log, auxVars>>
    BY <1>14 DEF SkipEvent
  <2>2. /\ \A g \in Handlers : g # h => handler'[g] = handler[g]
        /\ handler'[h].event = handler[h].event
    BY <1>14, <2>1, ReturnKeepsEvent DEF SkipEvent
  <2> QED BY <2>1, <2>2, SettledStays
          DEF IInv, RowsWithoutRefunds, SettledPaymentMovedOrder, SecondPaymentNeedsFailure,
              ChargeRecordedOnce, StripeFollows, Settled, Exists, orderVars, auxVars
<1>15. ASSUME NEW h \in Handlers, MarkEvent(h) PROVE IInv'
  <2> DEFINE e == handler[h].event
  <2>1. /\ handler[h].at = "mark" /\ log' = [log EXCEPT ![e] = handler[h].mark]
        /\ handler' = [handler EXCEPT ![h] = IdleHandler]
        /\ UNCHANGED <<orderVars, payment, request, gatewayVars, auxVars>>
    BY <1>15 DEF MarkEvent, SetHandler
  <2>2. e \in sent /\ e \in Event
    BY <2>1, RunningHandler
  <2>3. /\ \A d \in Event : d # e => log'[d] = log[d]
        /\ \A g \in Handlers : handler'[g].at # "idle" => handler'[g] = handler[g]
    BY <2>1 DEF TypeOK, IdleHandler
  <2>4. StripeFollows'
    BY <2>1, <2>2, <2>3 DEF IInv, StripeFollows, Settled, Exists, gatewayVars, auxVars
  <2>5. ProcessedChargeIsSettled'
    <3> SUFFICES ASSUME NEW p \in Ids, log'[Ev("COMPLETED", p)] = "PROCESSED"
                 PROVE  Settled(p)'
      BY DEF ProcessedChargeIsSettled
    <3>1. Ev("COMPLETED", p) \in Event /\ Ev("COMPLETED", p).id = p
            /\ Ev("COMPLETED", p).kind = "COMPLETED"
      BY DEF Ev, Event, EventKind
    <3>2. Settled(p)
      BY <2>1, <2>3, <3>1 DEF IInv, ProcessedChargeIsSettled, StripeFollows
    <3> QED BY <2>1, <3>2 DEF Settled
  <2> QED BY <2>1, <2>4, <2>5
          DEF IInv, RowsWithoutRefunds, SettledPaymentMovedOrder, SecondPaymentNeedsFailure,
              ChargeRecordedOnce, RequestOwnsUnofferedPayment, Settled, Exists,
              gatewayVars, orderVars, auxVars
<1>16. ASSUME NEW h \in Handlers, HandlerDies(h) PROVE IInv'
  <2>1. /\ handler' = [handler EXCEPT ![h] = IdleHandler]
        /\ UNCHANGED <<orderVars, payment, request, gatewayVars, log, auxVars>>
    BY <1>16 DEF HandlerDies, SetHandler
  <2>2. \A g \in Handlers : handler'[g].at # "idle" => handler'[g] = handler[g]
    BY <2>1 DEF TypeOK, IdleHandler
  <2> QED BY <2>1, <2>2, SettledStays
          DEF IInv, RowsWithoutRefunds, SettledPaymentMovedOrder, SecondPaymentNeedsFailure,
              ChargeRecordedOnce, StripeFollows, Settled, Exists, orderVars, auxVars,
              TypeOK, HandlerState, IdleHandler
<1> QED BY <1>1, <1>2, <1>3, <1>4, <1>5, <1>6, <1>7, <1>8, <1>9, <1>10, <1>11,
        <1>12, <1>13, <1>14, <1>15, <1>16 DEF Next, PaymentStep, RequestStep, HandlerStep

-----------------------------------------------------------------------------
\* The variables keep their types (TypeOK).
THEOREM TypeCorrect == Spec => []TypeOK
<1>1. TypeOK /\ [Next]_vars => TypeOK'
  BY TypeStep
<1> QED BY TypeInit, <1>1, PTL DEF Spec

\* The audit trail of the order is a chain from its placement to its status
\* (recordStatusChange, whatever asked for the change).
THEOREM HistoryAlwaysChain == Spec => []HistoryIsChain
<1>1. Init => HistoryIsChain
  BY DEF Init, OrderInit, HistoryIsChain, NoStatus
<1>2. TypeOK /\ HistoryIsChain /\ [Next]_vars => HistoryIsChain'
  BY NextOrderStep, OrderStepChain DEF TypeOK
<1> QED BY TypeCorrect, <1>1, <1>2, PTL DEF Spec

\* The stock of the order goes back once if it is cancelled and never otherwise,
\* whoever cancels it and whatever its payments do meanwhile.
THEOREM AlwaysRestockedIffCancelled == Spec => []RestockedIffCancelled
<1>1. Init => RestockedIffCancelled
  BY DEF Init, OrderInit, RestockedIffCancelled
<1>2. TypeOK /\ RestockedIffCancelled /\ [Next]_vars => RestockedIffCancelled'
  BY NextOrderStep, OrderStepRestock DEF TypeOK
<1> QED BY TypeCorrect, <1>1, <1>2, PTL DEF Spec

\* No payment event and no administrator moves an order back in its fulfilment.
THEOREM NeverMovesBack == Spec => FulfilmentNeverMovesBack
<1>1. TypeOK /\ [Next]_vars => [Stage(orderStatus) <= Stage(orderStatus')]_orderStatus
  BY NextOrderStep, OrderStepForward DEF TypeOK
<1> QED BY TypeCorrect, <1>1, PTL DEF Spec, FulfilmentNeverMovesBack

\* The payments' inductive invariant holds always.
LEMMA AlwaysIInv == Spec => []IInv
<1>1. IInv /\ [Next]_vars => IInv'
  BY IInvStep
<1> QED BY IInvInit, <1>1, PTL DEF Spec

\* A settled payment and the order it pays for do not drift apart.
THEOREM SettledAlwaysMovedOrder == Spec => []SettledPaymentMovedOrder
<1>1. IInv => SettledPaymentMovedOrder
  BY DEF IInv
<1> QED BY AlwaysIInv, <1>1, PTL

\* A second payment of an order needs a first one that failed, however many
\* requests race.
THEOREM SecondAlwaysNeedsFailure == Spec => []SecondPaymentNeedsFailure
<1>1. IInv => SecondPaymentNeedsFailure
  BY DEF IInv
<1> QED BY AlwaysIInv, <1>1, PTL

\* The entity a request saves without a lock never meets a charge.
THEOREM RequestAlwaysOwnsPayment == Spec => []RequestOwnsUnofferedPayment
<1>1. IInv => RequestOwnsUnofferedPayment
  BY DEF IInv
<1> QED BY AlwaysIInv, <1>1, PTL

\* A charge whose event is PROCESSED is settled, whatever died or raced.
THEOREM ProcessedAlwaysSettled == Spec => []ProcessedChargeIsSettled
<1>1. IInv => ProcessedChargeIsSettled
  BY DEF IInv
<1> QED BY AlwaysIInv, <1>1, PTL

\* However many deliveries of a charge race, it is recorded once and the row
\* keeps its payment intent.
THEOREM AlwaysRecordedOnce == Spec => []ChargeRecordedOnce
<1>1. IInv => ChargeRecordedOnce
  BY DEF IInv
<1> QED BY AlwaysIInv, <1>1, PTL

\* Every charge is booked before its event is PROCESSED, and booked once.
THEOREM ChargesAlwaysBooked == Spec => []ChargesAreBooked
<1>1. ProcessedChargeIsSettled /\ ChargeRecordedOnce => ChargesAreBooked
  BY DEF ChargesAreBooked
<1> QED BY ProcessedAlwaysSettled, AlwaysRecordedOnce, <1>1, PTL

\* Once the event of a charge is PROCESSED the order's stock does not go back:
\* cancel and updateStatus find the paid payment.
THEOREM ChargeAlwaysBlocksCancel == Spec => AcknowledgedChargeBlocksCancel
<1> DEFINE A == (\E p \in Ids : log[Ev("COMPLETED", p)] = "PROCESSED") => restocked' = restocked
<1>1. IInv /\ [Next]_vars => [A]_vars
  <2> SUFFICES ASSUME IInv, [Next]_vars,
                      NEW p \in Ids, log[Ev("COMPLETED", p)] = "PROCESSED"
               PROVE  restocked' = restocked
    OBVIOUS
  <2>1. payment[p].status \in {"COMPLETED", "PARTIALLY_REFUNDED"}
    BY DEF IInv, ProcessedChargeIsSettled, RowsWithoutRefunds, Settled, TerminalStatuses,
       SystemOnlyStatuses
  <2>2. HasPaidPayment
    BY <2>1 DEF HasPaidPayment, PaidStatuses
  <2>3. ~CustomerCancels
    BY <2>2 DEF CustomerCancels, CancelOrder
  <2>4. ASSUME NEW to \in OrderStatus, AdminMovesOrder(to) PROVE restocked' = restocked
    BY <2>2, <2>4 DEF AdminMovesOrder, UpdateOrderStatus
  <2>5. ASSUME NEW q \in Ids, PaymentStep(q) PROVE restocked' = restocked
    BY <2>5 DEF PaymentStep, CreateOffline, CreateStripe, UpdateStatus, CustomerPays,
       CardDeclined, CompletesUnpaid, DelayedFundsArrive, StripeStep, ApplyStatusChange, orderVars
  <2>6. ASSUME NEW r \in Requests, RequestStep(r) PROVE restocked' = restocked
    BY <2>6 DEF RequestStep, InitiateOk, InitiateError, SaveSession, SaveError, MarkFailed,
       RequestDies, orderVars
  <2>7. ASSUME NEW h \in Handlers, HandlerStep(h) PROVE restocked' = restocked
    BY <2>7 DEF HandlerStep, Deliver, CompleteFromGatewayEvent, FailFromGatewayEvent, SkipEvent,
       MarkEvent, HandlerDies, ApplyStatusChange, orderVars
  <2>8. UNCHANGED vars => restocked' = restocked
    BY DEF vars, orderVars
  <2> QED BY <2>3, <2>4, <2>5, <2>6, <2>7, <2>8 DEF Next
<1> QED BY AlwaysIInv, <1>1, PTL DEF Spec, AcknowledgedChargeBlocksCancel

-----------------------------------------------------------------------------
\* A settled payment is left by no step but the save of the request that created
\* it: the webhook services and the administrator look at the status under the
\* row's lock.
LEMMA ReopenedByCreate ==
  ASSUME IInv, [Next]_vars, NEW p \in Ids, Settled(p), ~Settled(p)'
  PROVE  \E r \in Requests : /\ SaveSession(r) \/ MarkFailed(r)
                             /\ request[r].at = "update" /\ request[r].id = p
                             /\ request'[r].at = "idle"
<1>0. TypeOK
  BY DEF IInv
<1>1. payment'[p] # payment[p]
  BY DEF Settled
<1>2. ~UNCHANGED vars /\ ~CustomerCancels /\ \A to \in OrderStatus : ~AdminMovesOrder(to)
  BY <1>1 DEF vars, CustomerCancels, AdminMovesOrder
<1>3. ASSUME NEW q \in Ids, PaymentStep(q) PROVE FALSE
  <2>1. CASE UNCHANGED payment
    BY <2>1, <1>1
  <2>2. CASE InsertPayment(q)
    BY <2>2, <1>0, <1>1 DEF InsertPayment, SaveRow, TypeOK, Exists, Settled, TerminalStatuses
  <2>3. ASSUME NEW s \in PaymentStatus, NEW ref \in Reference, UpdateStatus(q, s, ref)
        PROVE  FALSE
    BY <2>3, <1>0, <1>1 DEF UpdateStatus, SaveRow, TypeOK
  <2> QED BY <1>3, <2>1, <2>2, <2>3 DEF PaymentStep, CreateOffline, CreateStripe,
          CustomerPays, CardDeclined, CompletesUnpaid, DelayedFundsArrive, StripeStep
<1>4. ASSUME NEW h \in Handlers, HandlerStep(h) PROVE FALSE
  <2>1. CASE UNCHANGED payment
    BY <2>1, <1>1
  <2>2. CASE CompleteFromGatewayEvent(h)
    BY <2>2, <2>1, <1>0, <1>1 DEF CompleteFromGatewayEvent, SaveRow, TypeOK
  <2>3. CASE FailFromGatewayEvent(h)
    BY <2>3, <2>1, <1>0, <1>1 DEF FailFromGatewayEvent, SaveRow, TypeOK
  <2> QED BY <1>4, <2>1, <2>2, <2>3 DEF HandlerStep, Deliver, SkipEvent, MarkEvent, HandlerDies
<1>5. ASSUME NEW r \in Requests, RequestStep(r)
      PROVE  /\ SaveSession(r) \/ MarkFailed(r)
             /\ request[r].at = "update" /\ request[r].id = p
             /\ request'[r].at = "idle"
  <2>1. CASE UNCHANGED payment
    BY <2>1, <1>1
  <2>2. CASE SaveSession(r) \/ MarkFailed(r)
    <3>1. /\ request[r].at = "update"
          /\ request' = [request EXCEPT ![r] = IdleRequest]
      BY <2>2 DEF SaveSession, MarkFailed, UpdatePayment, SetRequest
    <3>2. request'[r].at = "idle"
      BY <3>1, <1>0 DEF TypeOK, IdleRequest
    <3>3. request[r].id = p
      BY <2>2, <1>0, <1>1 DEF SaveSession, MarkFailed, UpdatePayment, SaveRow, TypeOK
    <3> QED BY <2>2, <3>1, <3>2, <3>3
  <2> QED BY <1>5, <2>1, <2>2 DEF RequestStep, InitiateOk, InitiateError, SaveError, RequestDies
<1> QED BY <1>2, <1>3, <1>4, <1>5 DEF Next

\* A settled payment is taken back only by its own create(), before it was offered.
THEOREM OnlyCreateEverReopens == Spec => OnlyCreateReopens
<1>1. IInv /\ [Next]_vars => [ReopensOwnPayment]_vars
  <2> SUFFICES ASSUME IInv, [Next]_vars, NEW p \in Ids, Settled(p), ~Settled(p)'
               PROVE  /\ session[p] = "NONE"
                      /\ \E r \in Requests : /\ request[r].at = "update"
                                             /\ request[r].id = p
                                             /\ request'[r].at = "idle"
    BY DEF ReopensOwnPayment
  <2>1. PICK r \in Requests : /\ request[r].at = "update" /\ request[r].id = p
                              /\ request'[r].at = "idle"
    BY ReopenedByCreate
  <2>2. session[p] = "NONE"
    BY <2>1, RunningRequest
  <2> QED BY <2>1, <2>2
<1> QED BY AlwaysIInv, <1>1, PTL DEF Spec, OnlyCreateReopens

-----------------------------------------------------------------------------
\* What a delivery is about to write about a charge: the payment was found.
ChargesAreMarkedProcessed ==
  \A h \in Handlers : handler[h].at = "mark" /\ handler[h].event.kind = "COMPLETED"
                        => handler[h].mark = "PROCESSED"

\* A charge is never marked as anything but PROCESSED, because its payment exists.
LEMMA MarkedStep ==
  ASSUME IInv, ChargesAreMarkedProcessed, [Next]_vars PROVE ChargesAreMarkedProcessed'
<1>0. TypeOK
  BY DEF IInv
<1>1. CASE UNCHANGED handler
  BY <1>1 DEF ChargesAreMarkedProcessed
<1>2. ASSUME NEW h \in Handlers, HandlerStep(h) PROVE ChargesAreMarkedProcessed'
  <2>1. CASE MarkEvent(h) \/ HandlerDies(h)
    BY <2>1, <1>0 DEF MarkEvent, HandlerDies, SetHandler, IdleHandler, TypeOK,
       ChargesAreMarkedProcessed
  <2>2. ASSUME NEW e \in Event, Deliver(h, e) PROVE ChargesAreMarkedProcessed'
    BY <2>2, <1>0 DEF Deliver, SetHandler, TypeOK, ChargesAreMarkedProcessed
  <2>3. CASE CompleteFromGatewayEvent(h) \/ FailFromGatewayEvent(h) \/ SkipEvent(h)
    <3>1. handler[h].at = "dispatch"
      BY <2>3 DEF CompleteFromGatewayEvent, FailFromGatewayEvent, SkipEvent
    <3>2. Exists(handler[h].event.id)
            /\ handler[h] \in [at : {"dispatch", "mark"}, event : Event,
                               mark : {"PROCESSED", "IGNORED", "ERROR"}]
      BY <3>1, RunningHandler
    <3>3. PICK mark : Return(h, mark) /\ (handler[h].event.kind = "COMPLETED" => mark = "PROCESSED")
      <4>1. CASE CompleteFromGatewayEvent(h)
        BY <4>1, <3>2 DEF CompleteFromGatewayEvent
      <4>2. CASE FailFromGatewayEvent(h)
        BY <4>2 DEF FailFromGatewayEvent
      <4>3. CASE SkipEvent(h)
        BY <4>3 DEF SkipEvent
      <4> QED BY <2>3, <4>1, <4>2, <4>3
    <3>4. /\ \A g \in Handlers : g # h => handler'[g] = handler[g]
          /\ handler'[h].event = handler[h].event
          /\ handler'[h].mark = mark
      BY <3>2, <3>3, <1>0 DEF Return, SetHandler, TypeOK
    <3> QED BY <3>3, <3>4 DEF ChargesAreMarkedProcessed
  <2> QED BY <1>2, <2>1, <2>2, <2>3 DEF HandlerStep
<1>3. ASSUME NEW p \in Ids, PaymentStep(p) PROVE UNCHANGED handler
  BY <1>3 DEF PaymentStep, CreateOffline, CreateStripe, UpdateStatus, CustomerPays,
     CardDeclined, CompletesUnpaid, DelayedFundsArrive, StripeStep, webhookVars
<1>4. ASSUME NEW r \in Requests, RequestStep(r) PROVE UNCHANGED handler
  BY <1>4 DEF RequestStep, InitiateOk, InitiateError, SaveSession, SaveError, MarkFailed,
     RequestDies, webhookVars
<1>5. \/ CustomerCancels
      \/ \E to \in OrderStatus : AdminMovesOrder(to)
      \/ UNCHANGED vars
      => UNCHANGED handler
  BY DEF CustomerCancels, AdminMovesOrder, vars, webhookVars
<1> QED BY <1>1, <1>2, <1>3, <1>4, <1>5 DEF Next

\* The events of charges, as the book reads the tables of Stripe and of the log.
LEMMA ChargeEvents ==
  ASSUME NEW p \in Ids
  PROVE  /\ Ev("COMPLETED", p) \in Event
         /\ Ev("COMPLETED", p).kind = "COMPLETED" /\ Ev("COMPLETED", p).id = p
         /\ \A e \in Event : e.kind = "COMPLETED" /\ e.id = p => e = Ev("COMPLETED", p)
BY DEF Ev, Event, EventKind

\* The order's stock goes back only while nothing is paid, and once.
LEMMA RestockStep ==
  ASSUME IInv, RestockedIffCancelled, [Next]_vars
  PROVE  \/ restocked' = restocked
         \/ /\ OnBooks = {} /\ restocked = 0 /\ restocked' = 1
            /\ UNCHANGED <<payment, sent, log>>
<1>0. TypeOK
  BY DEF IInv
<1>1. ~HasPaidPayment => OnBooks = {}
  BY <1>0 DEF HasPaidPayment, OnBooks, PaidStatuses, Settled, TerminalStatuses, IInv,
     RowsWithoutRefunds, SystemOnlyStatuses
<1>2. CASE CustomerCancels
  <2>1. ~HasPaidPayment /\ restocked' = restocked + 1 /\ orderStatus # "CANCELLED"
    BY <1>2 DEF CustomerCancels, CancelOrder, RestoreStock, CancellableStatuses
  <2> QED BY <1>1, <1>2, <2>1 DEF CustomerCancels, gatewayVars, webhookVars, RestockedIffCancelled
<1>3. ASSUME NEW to \in OrderStatus, AdminMovesOrder(to), restocked' # restocked
      PROVE  /\ OnBooks = {} /\ restocked = 0 /\ restocked' = 1
             /\ UNCHANGED <<payment, sent, log>>
  <2>1. /\ ~HasPaidPayment /\ restocked' = restocked + 1
        /\ CanTransition(orderStatus, "CANCELLED")
    BY <1>3 DEF AdminMovesOrder, UpdateOrderStatus, RestoreStock
  <2>2. orderStatus # "CANCELLED"
    BY <2>1, <1>0 DEF CanTransition, AllowedTransitions, TypeOK, OrderTypeOK, OrderStatus
  <2> QED BY <1>1, <1>3, <2>1, <2>2
          DEF AdminMovesOrder, gatewayVars, webhookVars, RestockedIffCancelled
<1>4. ASSUME NEW p \in Ids, PaymentStep(p) PROVE restocked' = restocked
  BY <1>4 DEF PaymentStep, CreateOffline, CreateStripe, UpdateStatus, CustomerPays,
     CardDeclined, CompletesUnpaid, DelayedFundsArrive, StripeStep, ApplyStatusChange, orderVars
<1>5. ASSUME NEW r \in Requests, RequestStep(r) PROVE restocked' = restocked
  BY <1>5 DEF RequestStep, InitiateOk, InitiateError, SaveSession, SaveError, MarkFailed,
     RequestDies, orderVars
<1>6. ASSUME NEW h \in Handlers, HandlerStep(h) PROVE restocked' = restocked
  BY <1>6 DEF HandlerStep, Deliver, CompleteFromGatewayEvent, FailFromGatewayEvent, SkipEvent,
     MarkEvent, HandlerDies, ApplyStatusChange, orderVars
<1>7. UNCHANGED vars => restocked' = restocked
  BY DEF vars, orderVars
<1> QED BY <1>2, <1>3, <1>4, <1>5, <1>6, <1>7 DEF Next

\* A step changes the rows, the events or the log, one at a time; only one
\* payment's row, only one event, and what is acknowledged only by MarkEvent.
LEMMA BookColumns ==
  ASSUME IInv, ChargesAreMarkedProcessed, [Next]_vars
  PROVE  \/ UNCHANGED <<payment, sent, log>>
         \/ /\ UNCHANGED <<sent, log>>
            /\ \E p \in Ids : \A q \in Ids : q # p => payment'[q] = payment[q]
         \/ /\ UNCHANGED <<payment, log>>
            /\ \E e \in Event : sent' = sent \cup {e}
         \/ /\ UNCHANGED <<payment, sent>>
            /\ \/ Acknowledged' = Acknowledged
               \/ \E p \in Reported \cap OnBooks : Acknowledged' = Acknowledged \cup {p}
<1>0. TypeOK
  BY DEF IInv
<1>1. CASE UNCHANGED vars \/ CustomerCancels \/ \E to \in OrderStatus : AdminMovesOrder(to)
  BY <1>1 DEF vars, gatewayVars, webhookVars, CustomerCancels, AdminMovesOrder
<1>2. ASSUME NEW p \in Ids, NEW row, SaveRow(p, row)
      PROVE  \A q \in Ids : q # p => payment'[q] = payment[q]
  BY <1>0, <1>2 DEF SaveRow, TypeOK
<1>3. ASSUME NEW p \in Ids, PaymentStep(p)
      PROVE  \/ /\ UNCHANGED <<sent, log>>
                /\ \A q \in Ids : q # p => payment'[q] = payment[q]
             \/ /\ UNCHANGED <<payment, log>>
                /\ \E e \in Event : sent' = sent \cup {e}
  <2>1. CASE CreateOffline(p) \/ \E r \in Requests : CreateStripe(r, p)
    BY <2>1, <1>2 DEF CreateOffline, CreateStripe, InsertPayment, gatewayVars, webhookVars
  <2>2. CASE \E s \in PaymentStatus, ref \in Reference : UpdateStatus(p, s, ref)
    BY <2>2, <1>2 DEF UpdateStatus, gatewayVars, webhookVars
  <2>3. CASE CustomerPays(p) \/ CardDeclined(p) \/ CompletesUnpaid(p) \/ DelayedFundsArrive(p)
    <3>1. \A k \in EventKind : Ev(k, p) \in Event
      BY DEF Ev, Event
    <3> QED BY <2>3, <3>1 DEF CustomerPays, CardDeclined, CompletesUnpaid, DelayedFundsArrive,
            StripeStep, Emit, webhookVars, EventKind
  <2> QED BY <1>3, <2>1, <2>2, <2>3 DEF PaymentStep
<1>4. ASSUME NEW r \in Requests, RequestStep(r)
      PROVE  /\ UNCHANGED <<sent, log>>
             /\ \/ payment' = payment
                \/ \E p \in Ids : \A q \in Ids : q # p => payment'[q] = payment[q]
  <2>1. CASE SaveSession(r) \/ MarkFailed(r)
    <3>1. request[r].at # "idle"
      BY <2>1 DEF SaveSession, MarkFailed, UpdatePayment
    <3>2. request[r].id \in Ids
      BY <3>1, RunningRequest
    <3> QED BY <2>1, <3>2, <1>2 DEF SaveSession, MarkFailed, UpdatePayment, gatewayVars, webhookVars
  <2> QED BY <1>4, <2>1 DEF RequestStep, InitiateOk, InitiateError, SaveError, RequestDies,
          gatewayVars, webhookVars
<1>5. ASSUME NEW h \in Handlers, HandlerStep(h)
      PROVE  \/ /\ UNCHANGED <<sent, log>>
                /\ \/ payment' = payment
                   \/ \E p \in Ids : \A q \in Ids : q # p => payment'[q] = payment[q]
             \/ /\ UNCHANGED <<payment, sent>>
                /\ \/ Acknowledged' = Acknowledged
                   \/ \E p \in Reported \cap OnBooks : Acknowledged' = Acknowledged \cup {p}
  <2>1. CASE CompleteFromGatewayEvent(h) \/ FailFromGatewayEvent(h)
    <3>1. handler[h].at # "idle"
      BY <2>1 DEF CompleteFromGatewayEvent, FailFromGatewayEvent
    <3>2. handler[h].event.id \in Ids
      BY <3>1, RunningHandler
    <3> QED BY <2>1, <3>2, <1>2 DEF CompleteFromGatewayEvent, FailFromGatewayEvent, gatewayVars
  <2>2. CASE SkipEvent(h) \/ HandlerDies(h)
    BY <2>2 DEF SkipEvent, HandlerDies, gatewayVars
  <2>3. ASSUME NEW e \in Event, Deliver(h, e)
        PROVE  UNCHANGED <<payment, sent>> /\ Acknowledged' = Acknowledged
    <3>1. /\ log[e] # "PROCESSED" /\ log' = [log EXCEPT ![e] = "RECEIVED"]
          /\ UNCHANGED <<payment, sent>>
      BY <2>3 DEF Deliver, gatewayVars
    <3>2. \A d \in Event : log'[d] = "PROCESSED" <=> log[d] = "PROCESSED"
      BY <3>1, <1>0 DEF TypeOK
    <3> QED BY <3>1, <3>2, ChargeEvents DEF Acknowledged
  <2>4. CASE MarkEvent(h)
    <3> DEFINE e == handler[h].event
    <3>1. /\ handler[h].at = "mark" /\ log' = [log EXCEPT ![e] = handler[h].mark]
          /\ UNCHANGED <<payment, sent>>
      BY <2>4 DEF MarkEvent, gatewayVars
    <3>2. e \in sent /\ e \in Event /\ e.id \in Ids
      BY <3>1, RunningHandler
    <3>3. \A d \in Event : d # e => log'[d] = log[d]
      BY <3>1, <1>0 DEF TypeOK
    <3>4. CASE e.kind # "COMPLETED"
      <4>1. Acknowledged' = Acknowledged
        BY <3>3, <3>4, ChargeEvents DEF Acknowledged
      <4> QED BY <3>1, <4>1
    <3>5. CASE e.kind = "COMPLETED"
      <4>1. e = Ev("COMPLETED", e.id) /\ Settled(e.id) /\ log'[e] = "PROCESSED"
        BY <3>1, <3>2, <3>5, <1>0, ChargeEvents
        DEF IInv, StripeFollows, ChargesAreMarkedProcessed, TypeOK
      <4>2. e.id \in Reported \cap OnBooks
        BY <3>2, <4>1 DEF Reported, OnBooks
      <4>3. Acknowledged' = Acknowledged \cup {e.id}
        BY <3>2, <3>3, <4>1, ChargeEvents DEF Acknowledged
      <4> QED BY <3>1, <4>2, <4>3
    <3> QED BY <3>4, <3>5
  <2> QED BY <1>5, <2>1, <2>2, <2>3, <2>4 DEF HandlerStep
<1> QED BY <1>1, <1>3, <1>4, <1>5 DEF Next

\* Payments keeps the promises of ChargeBook: each of its steps is one of the book,
\* or leaves the book alone (payments.service.ts, payment-webhooks.controller.ts).
THEOREM PaymentsKeepTheBook == Spec => ImplementsChargeBook
<1>1. Init => Book!Init
  <2> SUFFICES ASSUME Init PROVE Reported = {} /\ OnBooks = {} /\ Acknowledged = {} /\ restocked = 0
    BY DEF Book!Init
  <2>1. \A e \in Event : log[e] = "NONE"
    BY DEF Init
  <2> QED BY <2>1, ChargeEvents
          DEF Init, OrderInit, NoRow, Reported, OnBooks, Acknowledged, Settled, TerminalStatuses
<1>2. Init => ChargesAreMarkedProcessed
  BY DEF Init, IdleHandler, ChargesAreMarkedProcessed
<1>3. IInv /\ ChargesAreMarkedProcessed /\ [Next]_vars => ChargesAreMarkedProcessed'
  BY MarkedStep
<1>4. IInv /\ RestockedIffCancelled /\ ChargesAreMarkedProcessed /\ [Next]_vars
        => [Book!Next]_<<Reported, OnBooks, Acknowledged, restocked>>
  <2> SUFFICES ASSUME IInv, RestockedIffCancelled, ChargesAreMarkedProcessed, [Next]_vars
               PROVE  Book!Next \/ UNCHANGED <<Reported, OnBooks, Acknowledged, restocked>>
    OBVIOUS
  <2>1. CASE restocked' # restocked
    <3>1. OnBooks = {} /\ restocked = 0 /\ restocked' = 1 /\ UNCHANGED <<payment, sent, log>>
      BY <2>1, RestockStep
    <3>2. UNCHANGED <<Reported, OnBooks, Acknowledged>>
      BY <3>1 DEF Reported, OnBooks, Acknowledged, Settled
    <3> QED BY <3>1, <3>2 DEF Book!Next, Book!Restock
  <2>2. CASE restocked' = restocked
    <3>1. CASE UNCHANGED <<payment, sent, log>>
      BY <2>2, <3>1 DEF Reported, OnBooks, Acknowledged, Settled
    <3>2. ASSUME UNCHANGED <<sent, log>>, NEW p \in Ids,
                 \A q \in Ids : q # p => payment'[q] = payment[q]
          PROVE  Book!Next \/ UNCHANGED <<Reported, OnBooks, Acknowledged, restocked>>
      <4>1. /\ UNCHANGED <<Reported, Acknowledged>>
            /\ \A q \in Ids : q # p => (Settled(q)' <=> Settled(q))
        BY <3>2 DEF Reported, Acknowledged, Settled
      <4>2. CASE Settled(p)' <=> Settled(p)
        <5>1. UNCHANGED OnBooks
          BY <4>1, <4>2 DEF OnBooks
        <5> QED BY <2>2, <4>1, <5>1
      <4>3. CASE Settled(p)' /\ ~Settled(p)
        <5>1. p \notin OnBooks /\ OnBooks' = OnBooks \cup {p}
          BY <4>1, <4>3 DEF OnBooks
        <5> QED BY <2>2, <4>1, <5>1 DEF Book!Next, Book!Settle
      <4>4. CASE ~Settled(p)' /\ Settled(p)
        <5>1. p \in OnBooks /\ OnBooks' = OnBooks \ {p}
          BY <4>1, <4>4 DEF OnBooks
        <5>2. PICK r \in Requests : request[r].at = "update" /\ request[r].id = p
          BY <4>4, ReopenedByCreate
        <5>3. p \notin Reported
          BY <5>2, RunningRequest DEF Reported
        <5> QED BY <2>2, <4>1, <5>1, <5>3 DEF Book!Next, Book!Reopen
      <4> QED BY <4>2, <4>3, <4>4
    <3>3. ASSUME UNCHANGED <<payment, log>>, NEW e \in Event, sent' = sent \cup {e}
          PROVE  Book!Next \/ UNCHANGED <<Reported, OnBooks, Acknowledged, restocked>>
      <4>1. UNCHANGED <<OnBooks, Acknowledged>>
        BY <3>3 DEF OnBooks, Acknowledged, Settled
      <4>2. CASE e.kind = "COMPLETED" /\ e \notin sent
        <5>1. e.id \in Ids /\ e = Ev("COMPLETED", e.id)
          BY <3>3, <4>2, ChargeEvents DEF Event
        <5>2. e.id \notin Reported /\ Reported' = Reported \cup {e.id}
          BY <3>3, <4>2, <5>1, ChargeEvents DEF Reported
        <5> QED BY <2>2, <4>1, <5>1, <5>2 DEF Book!Next, Book!Report
      <4>3. CASE e.kind # "COMPLETED" \/ e \in sent
        <5>1. UNCHANGED Reported
          BY <3>3, <4>3, ChargeEvents DEF Reported
        <5> QED BY <2>2, <4>1, <5>1
      <4> QED BY <4>2, <4>3
    <3>4. ASSUME UNCHANGED <<payment, sent>>,
                 \/ Acknowledged' = Acknowledged
                 \/ \E p \in Reported \cap OnBooks : Acknowledged' = Acknowledged \cup {p}
          PROVE  Book!Next \/ UNCHANGED <<Reported, OnBooks, Acknowledged, restocked>>
      <4>1. UNCHANGED <<Reported, OnBooks>>
        BY <3>4 DEF Reported, OnBooks, Settled
      <4>2. \A p \in Reported : p \in Ids
        BY DEF Reported
      <4> QED BY <2>2, <3>4, <4>1, <4>2 DEF Book!Next, Book!Acknowledge
    <3> QED BY <3>1, <3>2, <3>3, <3>4, BookColumns
  <2> QED BY <2>1, <2>2
<1> QED BY AlwaysIInv, AlwaysRestockedIffCancelled, <1>1, <1>2, <1>3, <1>4, PTL
        DEF Spec, ImplementsChargeBook, Book!Spec, Book!bookVars

\* Settled payments stay on the books, and a charge that create(), an event or an
\* administrator has settled cannot be cancelled away, whoever races.
THEOREM SettlementAlwaysKept == Spec => SettlementIsKept
BY OnlyCreateEverReopens, ChargeAlwaysBlocksCancel DEF SettlementIsKept

===============================================================================
