------------------------------- MODULE Refunds -------------------------------
(***************************************************************************)
(* The refunds of one completed payment: PaymentsService.createRefund in    *)
(* its three phases, the customer's refund requests and their approval,     *)
(* refunds issued at Stripe's dashboard and the charge.refunded events      *)
(* (src/src/payments/payments.service.ts, refund-requests.service.ts).      *)
(*                                                                         *)
(* Transactions that lock the payment row or the request row are one step.  *)
(* Between them runs the process of a refund (`call`) or of an approval     *)
(* (`approval`), which may die.  Stripe moves money at most once per        *)
(* idempotency key, the id of the refund row, never beyond the charge, and  *)
(* delivers its events late, in any order and repeatedly.                   *)
(***************************************************************************)
EXTENDS OrderLifecycle, PaymentPolicy, Money, Functions, FiniteSets

CONSTANTS
  Items,        \* the lines of the order
  Ordered,      \* [Items -> Nat], pieces ordered
  AnyItem,      \* the line whose pieces the refinement follows
  Price,        \* [Items -> Nat], unit price
  Charged,      \* payments.amount
  Quantities,   \* the quantities of an item a client asks for
  Refunds,      \* rows of refunds that createRefund may insert
  Requests,     \* rows of refund_requests
  Dashboard,    \* refunds issued at Stripe
  Sums,         \* the amounts they may have
  LatestKnown,  \* the charge of an event lists its latest refund
  None,         \* no request, no refund
  MaxFaults     \* bound: answers lost, saves that throw, processes that die

ASSUME ItemsAssumption ==
  /\ IsFiniteSet(Items)
  /\ AnyItem \in Items
  /\ Ordered \in [Items -> Nat]
  /\ Price \in [Items -> Nat]
  /\ Quantities \subseteq Nat \ {0}
ASSUME MoneyAssumption == Charged \in Nat /\ Sums \subseteq Nat
ASSUME RefundsAssumption ==
  /\ IsFiniteSet(Refunds) /\ IsFiniteSet(Dashboard)
  /\ Refunds \cap Dashboard = {}
ASSUME NoneAssumption == None \notin Refunds \cup Requests
ASSUME FaultsAssumption == MaxFaults \in Nat

VARIABLES
  online,         \* a gateway provider is registered for the payment's method
  paymentStatus,  \* payments.status
  refund,         \* rows of refunds inserted by createRefund
  call,           \* where the createRefund of each row stands
  request,        \* rows of refund_requests
  approval,       \* running approve() calls
  returned,       \* money Stripe has given back, by refund
  sent,           \* charge.refunded events Stripe has emitted
  handled,        \* those a delivery has dispatched
  booked,         \* rows of refunds inserted for gateway events, by refund
  faults

refundVars  == <<refund, call>>
requestVars == <<request, approval>>
stripeVars  == <<returned, sent>>
eventVars   == <<handled, booked>>
vars == <<orderVars, online, paymentStatus, refundVars, requestVars, stripeVars,
          eventVars, faults>>

-----------------------------------------------------------------------------
\* Values

RefundStatus == {"PENDING", "SUCCEEDED", "FAILED"}

\* What a refund or a request lists: some pieces of some items.
Nothing == [i \in Items |-> 0]
Listing == [Items -> Quantities \cup {0}]
Basket  == Listing \ {Nothing}

\* `for` is the request whose approval made the refund; the code passes it on
\* only through the caller that waits.
RefundRow ==
  [status : RefundStatus, items : Basket, for : Requests \cup {None}]
NoRefund == [status |-> "NONE", items |-> Nothing, for |-> None]

\* Not running, calling provider.refund, or about to save the answer.
CallState == {"idle", "gateway", "succeeded", "failed"}

RequestStatus == {"PENDING", "APPROVED", "REJECTED"}
RequestRow ==
  [status : RequestStatus, items : Basket, refund : Refunds \cup {None}]
NoRequest == [status |-> "NONE", items |-> Nothing, refund |-> None]

\* approve() has reserved the request and is about to call createRefund, waits
\* for it, is about to save the link, or is about to take the request back.
IdleApproval == [at |-> "idle", refund |-> None]
ApprovalState ==
  [at : {"reserved", "reverting"}, refund : {None}]
    \cup [at : {"waiting", "linking"}, refund : Refunds] \cup {IdleApproval}

TxIds == Refunds \cup Dashboard

\* An event carries the charge as it was: its latest refund and its total.
Event == [latest : TxIds, total : Nat]

\* Wrong form of the next definition, what docs/features/payments.md says.
SucceededOnly == {"SUCCEEDED"}

CommittedStatuses == {"PENDING", "SUCCEEDED"}

RefundsIn(statuses) == {r \in Refunds : refund[r].status \in statuses}

Subtotal == SumFunction([i \in Items |-> Price[i] * Ordered[i]])

RefundAmount(items) ==
  SumFunction([i \in Items |-> ItemAmount(Price[i], items[i], Charged, Subtotal)])

AmountOf == [r \in Refunds |-> RefundAmount(refund[r].items)]

\* getRefundQuantitiesByItem and getPendingQuantitiesByItem
CommittedQty(i) ==
  SumFunctionOnSet([r \in Refunds |-> refund[r].items[i]], RefundsIn(CommittedStatuses))
PendingQty(i) ==
  SumFunctionOnSet([q \in Requests |-> request[q].items[i]],
                   {q \in Requests : request[q].status = "PENDING"})

\* sumRefundAmount: rows of both origins count.
RefundSum(statuses) ==
  SumFunctionOnSet(AmountOf, RefundsIn(statuses)) + SumFunction(booked)

SucceededTotal == RefundSum({"SUCCEEDED"})

ReturnedTotal == SumFunction(returned)

\* Wrong form of Refundable: no assertWithinRefundableBalance.
RefundableBeyondBalance(items, reserved) ==
  /\ paymentStatus \in RefundableStatuses
  /\ \A i \in Items :
       items[i] > 0 => items[i] + reserved[i] + CommittedQty(i) <= Ordered[i]

\* resolveRefundableItems accepts the items, `reserved` pieces being set aside.
Refundable(items, reserved) ==
  /\ paymentStatus \in RefundableStatuses
  /\ \A i \in Items :
       items[i] > 0 => items[i] + reserved[i] + CommittedQty(i) <= Ordered[i]
  /\ RefundAmount(items) + RefundSum(CommittedStatuses) <= Charged

\* Wrong form of FollowTotal: a first refund makes the payment REFUNDED.
FollowFirst(total) ==
  /\ paymentStatus' = IF total > 0 THEN "REFUNDED" ELSE "PARTIALLY_REFUNDED"
  /\ ApplyStatusChange(paymentStatus')

\* The payment and the order after money was returned.
FollowTotal(total) ==
  /\ paymentStatus' = IF total >= Charged THEN "REFUNDED" ELSE "PARTIALLY_REFUNDED"
  /\ ApplyStatusChange(paymentStatus')

Fault ==
  /\ faults < MaxFaults
  /\ faults' = faults + 1

-----------------------------------------------------------------------------
\* POST /payments/:id/refunds: createRefund, directly or from approve()

\* Phase 1, under the lock of the payment row.  Without a provider phase 2 has
\* nothing to do.
InsertRefund(r, items, q) ==
  /\ refund[r].status = "NONE"
  /\ Refundable(items, Nothing)
  /\ refund' = [refund EXCEPT ![r] = [status |-> "PENDING", items |-> items, for |-> q]]
  /\ call' = [call EXCEPT ![r] = IF online THEN "gateway" ELSE "succeeded"]

CreateRefund(r, items) ==
  /\ InsertRefund(r, items, None)
  /\ UNCHANGED <<orderVars, online, paymentStatus, requestVars, stripeVars,
                 eventVars, faults>>

\* Stripe returns money and announces it.
ReturnMoney(t, amount) ==
  /\ amount > 0
  /\ ReturnedTotal + amount <= Charged
  /\ returned' = [returned EXCEPT ![t] = amount]
  /\ sent' = sent \cup {[latest |-> t, total |-> ReturnedTotal + amount]}

SetCall(r, state) == call' = [call EXCEPT ![r] = state]

\* Phase 2: provider.refund
GatewayRefunds(r) ==
  /\ call[r] = "gateway"
  /\ ReturnMoney(r, AmountOf[r])
  /\ SetCall(r, "succeeded")
  /\ UNCHANGED <<orderVars, online, paymentStatus, refund, requestVars, eventVars, faults>>

GatewayRefuses(r) ==
  /\ call[r] = "gateway"
  /\ SetCall(r, "failed")
  /\ UNCHANGED <<orderVars, online, paymentStatus, refund, requestVars, stripeVars,
                 eventVars, faults>>

\* Stripe returns the money, the answer never comes: to createRefund an error.
GatewayAnswerLost(r) ==
  /\ Fault
  /\ call[r] = "gateway"
  /\ ReturnMoney(r, AmountOf[r])
  /\ SetCall(r, "failed")
  /\ UNCHANGED <<orderVars, online, paymentStatus, refund, requestVars, eventVars>>

\* Wrong form of AnswerCaller: the approval keeps the refund that failed.
AnswerCallerKeeping(r, at) ==
  /\ SetCall(r, "idle")
  /\ approval' = [q \in Requests |->
       IF q = refund[r].for THEN [at |-> at, refund |-> r] ELSE approval[q]]

\* createRefund returns or throws: an approval that waits goes on.
AnswerCaller(r, at) ==
  /\ SetCall(r, "idle")
  /\ approval' = [q \in Requests |->
       IF q = refund[r].for
       THEN [at |-> at, refund |-> IF at = "linking" THEN r ELSE None]
       ELSE approval[q]]

\* Wrong form of SetRefundStatus: the row is not saved.
KeepRefundStatus(r, status) == UNCHANGED refund

SetRefundStatus(r, status) == refund' = [refund EXCEPT ![r].status = status]

\* Wrong forms of Settle: the payment follows this refund instead of the sum of
\* all; the order does not follow.
SettleAlone(r) ==
  /\ call[r] = "succeeded"
  /\ SetRefundStatus(r, "SUCCEEDED")
  /\ FollowTotal(AmountOf[r])

SettleWithoutOrder(r) ==
  /\ call[r] = "succeeded"
  /\ SetRefundStatus(r, "SUCCEEDED")
  /\ paymentStatus' = IF SucceededTotal + AmountOf[r] >= Charged
                      THEN "REFUNDED" ELSE "PARTIALLY_REFUNDED"
  /\ UNCHANGED orderVars

\* Phase 3 after an answer, under the lock of the payment row.
Settle(r) ==
  /\ call[r] = "succeeded"
  /\ SetRefundStatus(r, "SUCCEEDED")
  /\ FollowTotal(SucceededTotal + AmountOf[r])

\* Wrong form of RefundSucceeds: the notification of the order's new status,
\* sent after the commit, is allowed to throw.
RefundSucceedsThenThrows(r) ==
  /\ Settle(r)
  /\ AnswerCaller(r, "reverting")
  /\ UNCHANGED <<online, request, stripeVars, eventVars, faults>>

RefundSucceeds(r) ==
  /\ Settle(r)
  /\ AnswerCaller(r, "linking")
  /\ UNCHANGED <<online, request, stripeVars, eventVars, faults>>

\* Phase 3 has committed, the read of the saved row throws.
RefundReadThrows(r) ==
  /\ Fault
  /\ Settle(r)
  /\ AnswerCaller(r, "reverting")
  /\ UNCHANGED <<online, request, stripeVars, eventVars>>

\* Phase 3 after an error, which is thrown again.
RefundFails(r) ==
  /\ call[r] = "failed"
  /\ SetRefundStatus(r, "FAILED")
  /\ AnswerCaller(r, "reverting")
  /\ UNCHANGED <<orderVars, online, paymentStatus, request, stripeVars, eventVars, faults>>

\* The transaction of phase 3 rolls back: the row stays PENDING.
SettleThrows(r) ==
  /\ Fault
  /\ call[r] \in {"succeeded", "failed"}
  /\ AnswerCaller(r, "reverting")
  /\ UNCHANGED <<orderVars, online, paymentStatus, refund, request, stripeVars, eventVars>>

\* The process dies, and with it the approval that waits for it.
RefundDies(r) ==
  /\ Fault
  /\ call[r] # "idle"
  /\ SetCall(r, "idle")
  /\ approval' = [q \in Requests |-> IF q = refund[r].for THEN IdleApproval ELSE approval[q]]
  /\ UNCHANGED <<orderVars, online, paymentStatus, refund, request, stripeVars, eventVars>>

-----------------------------------------------------------------------------
\* Refund requests

\* POST /refund-requests, under the lock of the payment row
RequestRefund(q, items) ==
  /\ request[q].status = "NONE"
  /\ Refundable(items, [i \in Items |-> PendingQty(i)])
  /\ request' = [request EXCEPT ![q] = [status |-> "PENDING", items |-> items, refund |-> None]]
  /\ UNCHANGED <<orderVars, online, paymentStatus, refundVars, approval, stripeVars,
                 eventVars, faults>>

SetRequestStatus(q, status) == request' = [request EXCEPT ![q].status = status]
SetApproval(q, state) == approval' = [approval EXCEPT ![q] = state]

\* Wrong form of ApproveRequest: no assertReviewable.
ApproveAnyRequest(q) ==
  /\ request[q].status # "NONE"
  /\ approval[q].at = "idle"
  /\ SetRequestStatus(q, "APPROVED")
  /\ SetApproval(q, [at |-> "reserved", refund |-> None])
  /\ UNCHANGED <<orderVars, online, paymentStatus, refundVars, stripeVars, eventVars, faults>>

\* approve(), phase 1: under the lock of the request row
ApproveRequest(q) ==
  /\ request[q].status = "PENDING"
  /\ approval[q].at = "idle"
  /\ SetRequestStatus(q, "APPROVED")
  /\ SetApproval(q, [at |-> "reserved", refund |-> None])
  /\ UNCHANGED <<orderVars, online, paymentStatus, refundVars, stripeVars, eventVars, faults>>

\* approve(), phase 2: createRefund, which may refuse
ApprovalRefunds(q, r) ==
  /\ approval[q].at = "reserved"
  /\ InsertRefund(r, request[q].items, q)
  /\ SetApproval(q, [at |-> "waiting", refund |-> r])
  /\ UNCHANGED <<orderVars, online, paymentStatus, request, stripeVars, eventVars, faults>>

ApprovalRefused(q) ==
  /\ approval[q].at = "reserved"
  /\ ~Refundable(request[q].items, Nothing)
  /\ SetApproval(q, [at |-> "reverting", refund |-> None])
  /\ UNCHANGED <<orderVars, online, paymentStatus, refundVars, request, stripeVars,
                 eventVars, faults>>

\* The refund exists: save its id.
LinkRefund(q) ==
  /\ approval[q].at = "linking"
  /\ request' = [request EXCEPT ![q].refund = approval[q].refund]
  /\ SetApproval(q, IdleApproval)
  /\ UNCHANGED <<orderVars, online, paymentStatus, refundVars, stripeVars, eventVars, faults>>

\* createRefund threw: the entity of phase 1 is saved as PENDING.
RevertApproval(q) ==
  /\ approval[q].at = "reverting"
  /\ SetRequestStatus(q, "PENDING")
  /\ SetApproval(q, IdleApproval)
  /\ UNCHANGED <<orderVars, online, paymentStatus, refundVars, stripeVars, eventVars, faults>>

\* The process dies, or its save throws.
ApprovalDies(q) ==
  /\ Fault
  /\ approval[q].at \in {"reserved", "linking", "reverting"}
  /\ SetApproval(q, IdleApproval)
  /\ UNCHANGED <<orderVars, online, paymentStatus, refundVars, request, stripeVars, eventVars>>

\* Wrong form of RejectRequest: no assertReviewable.
RejectAnyRequest(q) ==
  /\ request[q].status # "NONE"
  /\ SetRequestStatus(q, "REJECTED")
  /\ UNCHANGED <<orderVars, online, paymentStatus, refundVars, approval, stripeVars,
                 eventVars, faults>>

\* reject(), under the lock of the request row
RejectRequest(q) ==
  /\ request[q].status = "PENDING"
  /\ SetRequestStatus(q, "REJECTED")
  /\ UNCHANGED <<orderVars, online, paymentStatus, refundVars, approval, stripeVars,
                 eventVars, faults>>

-----------------------------------------------------------------------------
\* Stripe's dashboard and the webhook event

DashboardRefund(d, amount) ==
  /\ online
  /\ returned[d] = 0
  /\ ReturnMoney(d, amount)
  /\ UNCHANGED <<orderVars, online, paymentStatus, refundVars, requestVars, eventVars, faults>>

\* A row with this transactionId exists: createRefund stores it when it settles.
Recorded(t) == IF t \in Refunds THEN refund[t].status = "SUCCEEDED" \/ booked[t] > 0
                                ELSE booked[t] > 0

\* Wrong form of RefundFromGatewayEvent: the event's total taken for its amount.
BookWholeTotal(e) ==
  /\ e \in sent
  /\ handled' = handled \cup {e}
  /\ IF /\ paymentStatus \in RefundableStatuses
        /\ ~(LatestKnown /\ Recorded(e.latest))
        /\ e.total > SucceededTotal
     THEN /\ booked' = [booked EXCEPT ![e.latest] = @ + e.total]
          /\ FollowTotal(e.total)
     ELSE UNCHANGED <<orderVars, paymentStatus, booked>>
  /\ UNCHANGED <<online, refundVars, requestVars, stripeVars, faults>>

\* refundFromGatewayEvent, under the lock of the payment row
RefundFromGatewayEvent(e) ==
  /\ e \in sent
  /\ handled' = handled \cup {e}
  /\ IF /\ paymentStatus \in RefundableStatuses
        /\ ~(LatestKnown /\ Recorded(e.latest))
        /\ e.total > SucceededTotal
     THEN /\ booked' = [booked EXCEPT ![e.latest] = @ + (e.total - SucceededTotal)]
          /\ FollowTotal(e.total)
     ELSE UNCHANGED <<orderVars, paymentStatus, booked>>
  /\ UNCHANGED <<online, refundVars, requestVars, stripeVars, faults>>

-----------------------------------------------------------------------------
\* The orders module acting on the same order.  It cannot be cancelled: the
\* payment is held until it is REFUNDED, and then so is the order.

HasPaidPayment == paymentStatus \in PaidStatuses

AdminMovesOrder(to) ==
  /\ UpdateOrderStatus(to, HasPaidPayment)
  /\ UNCHANGED <<online, paymentStatus, refundVars, requestVars, stripeVars, eventVars, faults>>

-----------------------------------------------------------------------------
\* The payment has just been completed: by a charge that confirmed the order,
\* or by one that came after the order was cancelled.
Init ==
  /\ \/ /\ orderStatus = "CONFIRMED"
        /\ restocked = 0
     \/ /\ orderStatus = "CANCELLED"
        /\ restocked = 1
  /\ history = <<[from |-> NoStatus, to |-> "PENDING"], [from |-> "PENDING", to |-> orderStatus]>>
  /\ online \in BOOLEAN
  /\ paymentStatus = "COMPLETED"
  /\ refund = [r \in Refunds |-> NoRefund]
  /\ call = [r \in Refunds |-> "idle"]
  /\ request = [q \in Requests |-> NoRequest]
  /\ approval = [q \in Requests |-> IdleApproval]
  /\ returned = [t \in TxIds |-> 0]
  /\ sent = {}
  /\ handled = {}
  /\ booked = [t \in TxIds |-> 0]
  /\ faults = 0

RefundStep(r) ==
  \/ \E items \in Basket : CreateRefund(r, items)
  \/ GatewayRefunds(r)
  \/ GatewayRefuses(r)
  \/ GatewayAnswerLost(r)
  \/ RefundSucceeds(r)
  \/ RefundReadThrows(r)
  \/ RefundFails(r)
  \/ SettleThrows(r)
  \/ RefundDies(r)

RequestStep(q) ==
  \/ \E items \in Basket : RequestRefund(q, items)
  \/ ApproveRequest(q)
  \/ \E r \in Refunds : ApprovalRefunds(q, r)
  \/ ApprovalRefused(q)
  \/ LinkRefund(q)
  \/ RevertApproval(q)
  \/ ApprovalDies(q)
  \/ RejectRequest(q)

StripeStep ==
  \/ \E d \in Dashboard, amount \in Sums : DashboardRefund(d, amount)
  \/ \E e \in sent : RefundFromGatewayEvent(e)

Next ==
  \/ \E r \in Refunds : RefundStep(r)
  \/ \E q \in Requests : RequestStep(q)
  \/ StripeStep
  \/ \E to \in OrderStatus : AdminMovesOrder(to)

Spec == Init /\ [][Next]_vars

-----------------------------------------------------------------------------
\* Properties

\* The rows and the processes, without the amounts Stripe deals in.
RowsTypeOK ==
  /\ OrderTypeOK
  /\ online \in BOOLEAN
  /\ paymentStatus \in TerminalStatuses
  /\ refund \in [Refunds -> RefundRow \cup {NoRefund}]
  /\ call \in [Refunds -> CallState]
  /\ request \in [Requests -> RequestRow \cup {NoRequest}]
  /\ approval \in [Requests -> ApprovalState]
  /\ faults \in 0 .. MaxFaults

TypeOK ==
  /\ RowsTypeOK
  /\ returned \in [TxIds -> Nat]
  /\ sent \subseteq Event
  /\ handled \subseteq sent
  /\ booked \in [TxIds -> Nat]

\* Whatever runs at the same time - direct refunds, approvals of rival requests -
\* no piece of an item is refunded twice: PENDING refunds count although their
\* gateway call is still under way (payments.service.ts:529-533).
NeverRefundedTwice == \A i \in Items : CommittedQty(i) <= Ordered[i]

\* The status of the payment is what its refund rows add up to, whether
\* createRefund, a late event or both wrote it, and in which order
\* (payments.service.ts:387-391, 591-597).  A refund of nothing - of an item whose
\* share of the payment rounds to zero - counts too.
NothingSettled == RefundsIn({"SUCCEEDED"}) = {} /\ \A t \in TxIds : booked[t] = 0

PaymentFollowsBooks ==
  paymentStatus = IF NothingSettled THEN "COMPLETED"
                  ELSE IF SucceededTotal >= Charged THEN "REFUNDED" ELSE "PARTIALLY_REFUNDED"

\* Order and payment tell the same story: an order is (partially) refunded
\* exactly when its payment is, also one that was cancelled before the money
\* came, or that an administrator moves on meanwhile (payments.service.ts:590-612).
OrderFollowsPayment ==
  IF paymentStatus = "COMPLETED"
  THEN orderStatus \notin {"PARTIALLY_REFUNDED", "REFUNDED"}
  ELSE orderStatus = paymentStatus

\* A refund that counts as SUCCEEDED has moved exactly its amount, though its
\* row is written after the fact (payments.service.ts:553-572).
SucceededRefundReturned ==
  online => \A r \in Refunds :
    refund[r].status = "SUCCEEDED" => returned[r] = AmountOf[r]

\* The gateway, the refund rows and the payment tell the same story.
RefundsAreBooked == PaymentFollowsBooks /\ SucceededRefundReturned

\* A request under approval stays reserved: no second approval and no
\* rejection gets in while money may be moving
\* (refund-requests.service.ts:114-123).
RunningApprovalIsReserved ==
  \A q \in Requests : approval[q].at # "idle" => request[q].status = "APPROVED"

\* A request that names a refund is APPROVED for good and the refund is its
\* own: made by its approval, of its items, and successful
\* (refund-requests.service.ts:167-182).
LinkedRefundIsOwn ==
  \A q \in Requests : LET r == request[q].refund IN
    r # None => /\ request[q].status = "APPROVED"
                /\ refund[r].status = "SUCCEEDED"
                /\ refund[r].for = q
                /\ refund[r].items = request[q].items

\* From its reservation on, an approval owns the request and the refund it makes.
ApprovalOwnsRefund == RunningApprovalIsReserved /\ LinkedRefundIsOwn

\* approve() takes a request back to PENDING when createRefund throws, believing
\* that no money has moved (refund-requests.service.ts:153-165).  That takes a
\* lost answer or a failed save: without one, nothing was returned for a request
\* that is still to be decided.
OnlyFaultsReopenRefunded ==
  faults = 0 => \A q \in Requests, r \in Refunds :
    request[q].status \in {"PENDING", "REJECTED"} /\ refund[r].for = q => returned[r] = 0

\* A customer's request that an administrator has turned down is never acted
\* upon: no approval, no refund (refund-requests.service.ts:189-205).
RejectedIsFinal ==
  [][\A q \in Requests : request[q].status = "REJECTED" =>
       /\ request'[q] = request[q]
       /\ \A r \in Refunds : refund'[r].for = q => refund[r].for = q]_vars

\* Refunds issued at the dashboard alone are booked completely and once,
\* though their events come late, in any order and twice
\* (payments.service.ts:335-372).
DashboardReconciled ==
  (\A r \in Refunds : refund[r].status = "NONE") =>
    /\ SucceededTotal <= ReturnedTotal
    /\ handled = sent => SucceededTotal = ReturnedTotal

\* Where the charge of an event does not list its refunds, the event with the
\* latest total makes up for whatever the books lack: lost answers, failed saves
\* and processes that died included, in whatever order the events come
\* (payments.service.ts:335-365).
EventsCompleteBooks ==
  ~LatestKnown /\ handled = sent => SucceededTotal >= ReturnedTotal

\* What refundFromGatewayEvent is for: refunds of the dashboard are booked once,
\* and what createRefund failed to book is booked as well.
EventsReconcile == DashboardReconciled /\ EventsCompleteBooks

\* createRefund needs no event to account for its own money: without a fault,
\* once every call has come back the books hold all that Stripe has returned
\* (payments.service.ts:553-597).
CallsCompleteBooks ==
  /\ faults = 0
  /\ \A d \in Dashboard : returned[d] = 0
  /\ \A r \in Refunds : call[r] = "idle"
  => SucceededTotal >= ReturnedTotal

\* What createRefund and approve() promise without help from events, as long as
\* no answer is lost, no save fails and no process dies.
FaultlessCallsAgree == OnlyFaultsReopenRefunded /\ CallsCompleteBooks

\* An event alone never books more than Stripe has returned, and neither does
\* createRefund alone: the books come to exceed it only when a refund settles
\* that an event may have booked already (payments.service.ts:316-318, 360-365).
SettlesAfterEvent(r) ==
  /\ call[r] = "succeeded"
  /\ refund'[r].status = "SUCCEEDED"
  /\ \E t \in TxIds : booked[t] > 0

OverbookedBySettling ==
  \/ ~online
  \/ UNCHANGED <<RefundsIn({"SUCCEEDED"}), booked>>
  \/ \E r \in Refunds : SettlesAfterEvent(r)
  \/ SucceededTotal <= ReturnedTotal => SucceededTotal' <= ReturnedTotal'

OnlySettlingOverbooks == [][OverbookedBySettling]_vars

\* The pieces of any item, and the money of the payment, are spent the way
\* RefundLedger says.
PieceEntries ==
  [r \in Refunds |-> [state |-> refund[r].status, qty |-> refund[r].items[AnyItem]]]

MoneyEntries ==
  [r \in Refunds |-> [state |-> refund[r].status, qty |-> AmountOf[r]]]

Pieces == INSTANCE RefundLedger WITH
  Entries <- Refunds, Capacity <- Ordered[AnyItem], Quantities <- Quantities \cup {0},
  entry <- PieceEntries

MoneyPaid == INSTANCE RefundLedger WITH
  Entries <- Refunds, Capacity <- Charged, Quantities <- 0 .. Charged,
  entry <- MoneyEntries

ImplementsPieces == Pieces!Spec
ImplementsMoney  == MoneyPaid!Spec

\* payments.service.ts:316-318: the lock of refundFromGatewayEvent "also guards
\* against racing/overlapping with createRefund on the same payment".
BooksNeverExceed == online => SucceededTotal <= ReturnedTotal

\* docs/features/payments.md: "`charge.refunded` events reconcile refunds
\* issued outside the API".  Once every event is handled and nobody is at work
\* the books hold all that Stripe has returned.
QuietBooksComplete ==
  handled = sent /\ (\A r \in Refunds : call[r] = "idle")
    => SucceededTotal >= ReturnedTotal

\* stripe-gateway.provider.ts:105-109: without the idempotency key "an
\* application-level retry after an ambiguous timeout" could "create a second
\* real refund at Stripe even though the first request actually succeeded".
LostAnswerRefundedOnce ==
  \A q \in Requests : \A r, s \in Refunds :
    /\ r # s
    /\ refund[r].for = q
    /\ refund[s].for = q
    /\ refund[r].status = "FAILED"
    /\ returned[r] > 0
    => returned[s] = 0

=============================================================================
