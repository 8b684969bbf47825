---------------------------- MODULE RefundsProofs ----------------------------
(***************************************************************************)
(* Safety of Refunds for any number of items, refunds, requests and faults: *)
(* the rows and processes keep their types, an approval and its refund stay *)
(* together (IInv), the order follows the payment, and the pieces of any    *)
(* item are spent as RefundLedger says.                                     *)
(***************************************************************************)
EXTENDS Refunds, OrderLifecycleProofs

\* Money was returned: payment and order have the same status, and the change
\* of the order is recorded.
LEMMA FollowTotalEffect ==
  ASSUME OrderTypeOK, NEW total, FollowTotal(total)
  PROVE  /\ paymentStatus' \in {"PARTIALLY_REFUNDED", "REFUNDED"}
         /\ orderStatus' = paymentStatus'
         /\ AuditedStep
         /\ OrderTypeOK'
<1>1. paymentStatus' \in {"PARTIALLY_REFUNDED", "REFUNDED"}
  BY DEF FollowTotal
<1>2. orderStatus' = paymentStatus' /\ AuditedStep /\ restocked' = restocked
  BY <1>1 DEF FollowTotal, ApplyStatusChange, CanApplyExternalStatusChange, SetStatus,
     AuditedStep, AuditedMove, orderVars, OrderStatus
<1>3. OrderTypeOK'
  BY <1>2, AuditedStepType DEF OrderTypeOK
<1> QED BY <1>1, <1>2, <1>3

\* An administrator moves the order on.
LEMMA AdminMoveEffect ==
  ASSUME OrderTypeOK, NEW to \in OrderStatus, AdminMovesOrder(to)
  PROVE  /\ AuditedStep
         /\ OrderTypeOK'
         /\ orderStatus \in {"PENDING", "CONFIRMED", "PROCESSING", "SHIPPED"}
         /\ orderStatus' \in {"CONFIRMED", "PROCESSING", "SHIPPED", "DELIVERED", "CANCELLED"}
<1>1. UpdateOrderStatus(to, HasPaidPayment)
  BY DEF AdminMovesOrder
<1>2. OrderStep
  BY <1>1, OrderOperations
<1>3. AuditedStep
  BY <1>2 DEF OrderStep, OrderMove, AuditedStep, AuditedMove, orderVars
<1>4. SetStatus(to) /\ to \in AllowedTransitions[orderStatus]
  BY <1>1 DEF UpdateOrderStatus, CanTransition
<1> QED BY <1>2, <1>3, <1>4, OrderStepType DEF SetStatus, AllowedTransitions, OrderTypeOK, OrderStatus

\* Every step of the system leaves payment and order alone, or is one of the
\* two above.
MoneyStep == \E total : FollowTotal(total)

LEMMA SettleIsMoneyStep ==
  ASSUME NEW r, Settle(r) PROVE MoneyStep
BY DEF Settle, MoneyStep

LEMMA NextOrderEffect ==
  ASSUME RowsTypeOK, [Next]_vars
  PROVE  \/ MoneyStep
         \/ UNCHANGED <<orderVars, paymentStatus>>
         \/ \E to \in OrderStatus : AdminMovesOrder(to)
<1>1. CASE UNCHANGED vars
  BY <1>1 DEF vars, orderVars
<1>2. ASSUME NEW r \in Refunds, RefundStep(r)
      PROVE  MoneyStep \/ UNCHANGED <<orderVars, paymentStatus>>
  BY <1>2, SettleIsMoneyStep
  DEF RefundStep, CreateRefund, GatewayRefunds, GatewayRefuses, GatewayAnswerLost,
      RefundSucceeds, RefundReadThrows, RefundFails, SettleThrows, RefundDies
<1>3. ASSUME NEW q \in Requests, RequestStep(q)
      PROVE  UNCHANGED <<orderVars, paymentStatus>>
  BY <1>3 DEF RequestStep, RequestRefund, ApproveRequest, ApprovalRefunds, ApprovalRefused,
     LinkRefund, RevertApproval, ApprovalDies, RejectRequest
<1>4. CASE StripeStep
  BY <1>4 DEF StripeStep, DashboardRefund, RefundFromGatewayEvent, MoneyStep
<1> QED BY <1>1, <1>2, <1>3, <1>4 DEF Next

-----------------------------------------------------------------------------
\* The initial state is well typed.
LEMMA RowsTypeInit == Init => RowsTypeOK
<1> SUFFICES ASSUME Init PROVE RowsTypeOK
  OBVIOUS
<1>1. OrderTypeOK
  BY DEF Init, OrderTypeOK, OrderStatus, HistoryRow, NoStatus
<1> QED BY <1>1, FaultsAssumption DEF Init, RowsTypeOK, TerminalStatuses, CallState, ApprovalState

\* The order's share of the type invariant is kept by every step.
LEMMA OrderTypeStep ==
  ASSUME RowsTypeOK, [Next]_vars PROVE OrderTypeOK' /\ paymentStatus' \in TerminalStatuses
<1>1. CASE MoneyStep
  <2>1. PICK total : FollowTotal(total)  BY <1>1 DEF MoneyStep
  <2> QED BY <2>1, FollowTotalEffect DEF RowsTypeOK, TerminalStatuses
<1>2. CASE UNCHANGED <<orderVars, paymentStatus>>
  BY <1>2 DEF RowsTypeOK, OrderTypeOK, orderVars
<1>3. ASSUME NEW to \in OrderStatus, AdminMovesOrder(to)
      PROVE  OrderTypeOK' /\ paymentStatus' \in TerminalStatuses
  BY <1>3, AdminMoveEffect DEF RowsTypeOK, AdminMovesOrder
<1> QED BY <1>1, <1>2, <1>3, NextOrderEffect

\* createRefund answers a caller that knows its request, or nobody.
LEMMA AnswerCallerType ==
  ASSUME RowsTypeOK, NEW r \in Refunds, NEW at \in {"linking", "reverting"},
         AnswerCaller(r, at)
  PROVE  call' \in [Refunds -> CallState] /\ approval' \in [Requests -> ApprovalState]
<1>1. [at |-> at, refund |-> IF at = "linking" THEN r ELSE None] \in ApprovalState
  BY DEF ApprovalState
<1> QED BY <1>1 DEF AnswerCaller, SetCall, RowsTypeOK, CallState

\* A row of refunds that exists keeps what it lists when its status changes.
LEMMA SetRefundStatusType ==
  ASSUME RowsTypeOK, NEW r \in Refunds, refund[r].status # "NONE",
         NEW status \in RefundStatus, SetRefundStatus(r, status)
  PROVE  /\ refund' \in [Refunds -> RefundRow \cup {NoRefund}]
         /\ refund'[r].status = status
         /\ refund'[r].items = refund[r].items
         /\ refund'[r].for = refund[r].for
         /\ \A s \in Refunds : s # r => refund'[s] = refund[s]
<1>1. PICK row \in RefundRow : refund[r] = row
  BY DEF RowsTypeOK, NoRefund
<1>2. [row EXCEPT !.status = status] \in RefundRow
  BY DEF RefundRow
<1>3. refund' = [refund EXCEPT ![r] = [row EXCEPT !.status = status]]
  BY <1>1 DEF SetRefundStatus
<1> QED BY <1>1, <1>2, <1>3 DEF RowsTypeOK, RefundRow

\* The same for a request.
LEMMA SetRequestStatusType ==
  ASSUME RowsTypeOK, NEW q \in Requests, request[q].status # "NONE",
         NEW status \in RequestStatus, SetRequestStatus(q, status)
  PROVE  /\ request' \in [Requests -> RequestRow \cup {NoRequest}]
         /\ request'[q].status = status
         /\ request'[q].items = request[q].items
         /\ request'[q].refund = request[q].refund
         /\ \A p \in Requests : p # q => request'[p] = request[p]
<1>1. PICK row \in RequestRow : request[q] = row
  BY DEF RowsTypeOK, NoRequest
<1>2. [row EXCEPT !.status = status] \in RequestRow
  BY DEF RequestRow
<1>3. request' = [request EXCEPT ![q] = [row EXCEPT !.status = status]]
  BY <1>1 DEF SetRequestStatus
<1> QED BY <1>1, <1>2, <1>3 DEF RowsTypeOK, RequestRow

-----------------------------------------------------------------------------
\* A running createRefund has a PENDING row, and the approval that called it,
\* if any, waits for it.
CallsMatch ==
  \A r \in Refunds : call[r] # "idle" =>
    /\ refund[r].status = "PENDING"
    /\ \A q \in Requests : refund[r].for = q =>
         approval[q] = [at |-> "waiting", refund |-> r]

\* The refund of an approval is the one its request asks for.
RefundIsFor(r, q) == refund[r].for = q /\ refund[r].items = request[q].items

\* A running approval holds its request, and its refund is its own.
ApprovalsMatch ==
  \A q \in Requests :
    /\ approval[q].at # "idle" => request[q].status = "APPROVED" /\ request[q].refund = None
    /\ approval[q].at = "waiting" =>
         call[approval[q].refund] # "idle" /\ RefundIsFor(approval[q].refund, q)
    /\ approval[q].at = "linking" =>
         refund[approval[q].refund].status = "SUCCEEDED" /\ RefundIsFor(approval[q].refund, q)

\* A refund is linked to an APPROVED request, after it has succeeded.
LinksMatch ==
  \A q \in Requests : request[q].refund # None =>
    /\ request[q].status = "APPROVED"
    /\ refund[request[q].refund].status = "SUCCEEDED"
    /\ RefundIsFor(request[q].refund, q)

IInv == RowsTypeOK /\ CallsMatch /\ ApprovalsMatch /\ LinksMatch

\* What approvals and requests name are refunds.
LEMMA LinkTypes ==
  ASSUME RowsTypeOK, NEW q \in Requests
  PROVE  /\ approval[q].at \in {"waiting", "linking"} => approval[q].refund \in Refunds
         /\ request[q].refund # None => request[q].refund \in Refunds
BY DEF RowsTypeOK, ApprovalState, IdleApproval, RequestRow, NoRequest

\* Nothing runs at first.
LEMMA IInvInit == Init => IInv
BY RowsTypeInit DEF Init, IInv, CallsMatch, ApprovalsMatch, LinksMatch, NoRefund, NoRequest,
   IdleApproval

\* A step that leaves refunds and requests alone.
LEMMA ElsewhereKeepsIInv ==
  ASSUME IInv, RowsTypeOK', UNCHANGED <<refundVars, requestVars>>
  PROVE  IInv'
BY DEF IInv, CallsMatch, ApprovalsMatch, LinksMatch, RefundIsFor, refundVars, requestVars

\* Phase 1 of createRefund takes a row nobody refers to.
LEMMA InsertRefundEffect ==
  ASSUME IInv, NEW r \in Refunds, NEW items \in Basket, NEW q \in Requests \cup {None},
         InsertRefund(r, items, q)
  PROVE  /\ refund' \in [Refunds -> RefundRow \cup {NoRefund}]
         /\ call' \in [Refunds -> CallState]
         /\ refund'[r] = [status |-> "PENDING", items |-> items, for |-> q]
         /\ call'[r] # "idle"
         /\ call[r] = "idle"
         /\ \A s \in Refunds : s # r => refund'[s] = refund[s] /\ call'[s] = call[s]
         /\ \A p \in Requests : /\ request[p].refund # r
                                /\ approval[p].at \in {"waiting", "linking"}
                                     => approval[p].refund # r
<1>1. [status |-> "PENDING", items |-> items, for |-> q] \in RefundRow
  BY DEF RefundRow, RefundStatus
<1>2. refund[r].status = "NONE"
  BY DEF InsertRefund
<1>3. call[r] = "idle"
  BY <1>2 DEF IInv, CallsMatch
<1>4. \A p \in Requests : request[p].refund # r
  BY <1>2, NoneAssumption DEF IInv, LinksMatch
<1>5. \A p \in Requests : approval[p].at \in {"waiting", "linking"} => approval[p].refund # r
  BY <1>2, <1>3 DEF IInv, ApprovalsMatch
<1> QED BY <1>1, <1>3, <1>4, <1>5 DEF InsertRefund, IInv, RowsTypeOK, CallState

LEMMA CreateRefundKeepsIInv ==
  ASSUME IInv, NEW r \in Refunds, NEW items \in Basket, CreateRefund(r, items),
         OrderTypeOK', paymentStatus' \in TerminalStatuses
  PROVE  IInv'
<1>1. InsertRefund(r, items, None) /\ UNCHANGED <<request, approval, online, faults>>
  BY DEF CreateRefund, requestVars
<1>2. /\ refund' \in [Refunds -> RefundRow \cup {NoRefund}]
      /\ call' \in [Refunds -> CallState]
      /\ refund'[r].status = "PENDING" /\ refund'[r].for = None
      /\ \A s \in Refunds : s # r => refund'[s] = refund[s] /\ call'[s] = call[s]
      /\ \A p \in Requests : /\ request[p].refund # r
                             /\ approval[p].at \in {"waiting", "linking"}
                                  => approval[p].refund # r
  <2> DEFINE row == [status |-> "PENDING", items |-> items, for |-> None]
  <2>1. None \in Requests \cup {None}  OBVIOUS
  <2>2. row.status = "PENDING" /\ row.for = None  OBVIOUS
  <2>3. refund'[r] = row  BY <1>1, <2>1, InsertRefundEffect
  <2> HIDE DEF row
  <2> QED BY <1>1, <2>1, <2>2, <2>3, InsertRefundEffect
<1>3. RowsTypeOK'
  BY <1>1, <1>2 DEF IInv, RowsTypeOK
<1>4. CallsMatch'
  <2> SUFFICES ASSUME NEW s \in Refunds, call'[s] # "idle"
               PROVE  /\ refund'[s].status = "PENDING"
                      /\ \A q \in Requests : refund'[s].for = q =>
                           approval'[q] = [at |-> "waiting", refund |-> s]
    BY DEF CallsMatch
  <2>1. CASE s = r  BY <1>2, <2>1, NoneAssumption
  <2>2. CASE s # r  BY <1>1, <1>2, <2>2 DEF IInv, CallsMatch
  <2> QED BY <2>1, <2>2
<1>5. ApprovalsMatch' /\ LinksMatch'
  BY <1>1, <1>2, LinkTypes DEF IInv, ApprovalsMatch, LinksMatch, RefundIsFor
<1> QED BY <1>3, <1>4, <1>5 DEF IInv

\* A step of a running call that only moves the call on.
LEMMA CallMovesOn ==
  ASSUME IInv, RowsTypeOK', NEW r \in Refunds, call[r] # "idle",
         NEW state, SetCall(r, state), UNCHANGED <<refund, requestVars>>, state # "idle"
  PROVE  IInv'
<1>1. \A s \in Refunds : call'[s] # "idle" <=> call[s] # "idle"
  BY DEF SetCall, IInv, RowsTypeOK
<1>2. \A q \in Requests : approval[q].at = "waiting" => approval[q].refund \in Refunds
  BY LinkTypes DEF IInv
<1> QED BY <1>1, <1>2 DEF IInv, CallsMatch, ApprovalsMatch, LinksMatch, RefundIsFor, requestVars

\* A call ends: whoever waited for it goes on - to link the refund only when
\* it has succeeded.
LEMMA CallEnds ==
  ASSUME IInv, RowsTypeOK', NEW r \in Refunds, call[r] # "idle", SetCall(r, "idle"),
         NEW state,
         approval' = [q \in Requests |-> IF q = refund[r].for THEN state ELSE approval[q]],
         \/ state.at \in {"idle", "reverting"}
         \/ state = [at |-> "linking", refund |-> r] /\ refund'[r].status = "SUCCEEDED",
         refund'[r].items = refund[r].items,
         refund'[r].for = refund[r].for,
         \A s \in Refunds : s # r => refund'[s] = refund[s],
         UNCHANGED request
  PROVE  IInv'
<1>1. refund[r].status = "PENDING"
  BY DEF IInv, CallsMatch
<1>2. \A q \in Requests : refund[r].for = q => approval[q] = [at |-> "waiting", refund |-> r]
  BY DEF IInv, CallsMatch
<1>3. call'[r] = "idle" /\ \A s \in Refunds : s # r => call'[s] = call[s]
  BY DEF SetCall, IInv, RowsTypeOK
<1>4. CallsMatch'
  <2> SUFFICES ASSUME NEW s \in Refunds, call'[s] # "idle"
               PROVE  /\ refund'[s].status = "PENDING"
                      /\ \A q \in Requests : refund'[s].for = q =>
                           approval'[q] = [at |-> "waiting", refund |-> s]
    BY DEF CallsMatch
  <2>1. s # r /\ refund'[s] = refund[s] /\ call[s] # "idle"
    BY <1>3
  <2>2. refund[s].status = "PENDING"
    BY <2>1 DEF IInv, CallsMatch
  <2>3. ASSUME NEW q \in Requests, refund[s].for = q
        PROVE  approval'[q] = [at |-> "waiting", refund |-> s]
    <3>1. approval[q] = [at |-> "waiting", refund |-> s]
      BY <2>1, <2>3 DEF IInv, CallsMatch
    <3>2. q # refund[r].for
      BY <1>2, <2>1, <3>1
    <3> QED BY <3>1, <3>2
  <2> QED BY <2>1, <2>2, <2>3
<1>5. ApprovalsMatch'
  <2> SUFFICES ASSUME NEW q \in Requests
               PROVE  /\ approval'[q].at # "idle" =>
                           request[q].status = "APPROVED" /\ request[q].refund = None
                      /\ approval'[q].at = "waiting" =>
                           /\ call'[approval'[q].refund] # "idle"
                           /\ refund'[approval'[q].refund].for = q
                           /\ refund'[approval'[q].refund].items = request[q].items
                      /\ approval'[q].at = "linking" =>
                           /\ refund'[approval'[q].refund].status = "SUCCEEDED"
                           /\ refund'[approval'[q].refund].for = q
                           /\ refund'[approval'[q].refund].items = request[q].items
    BY DEF ApprovalsMatch, RefundIsFor
  <2>1. CASE q = refund[r].for
    <3>1. approval'[q] = state /\ approval[q].at = "waiting" /\ approval[q].refund = r
      BY <1>2, <2>1
    <3>2. request[q].status = "APPROVED" /\ request[q].refund = None /\ RefundIsFor(r, q)
      BY <3>1 DEF IInv, ApprovalsMatch
    <3> QED BY <2>1, <3>1, <3>2 DEF RefundIsFor
  <2>2. CASE q # refund[r].for
    <3>1. approval'[q] = approval[q]
      BY <2>2
    <3>2. approval[q].at \in {"waiting", "linking"} =>
            approval[q].refund \in Refunds /\ RefundIsFor(approval[q].refund, q)
      BY LinkTypes DEF IInv, ApprovalsMatch
    <3>3. approval[q].at \in {"waiting", "linking"} => approval[q].refund # r
      BY <2>2, <3>2 DEF RefundIsFor
    <3> QED BY <1>3, <3>1, <3>2, <3>3 DEF IInv, ApprovalsMatch, RefundIsFor
  <2> QED BY <2>1, <2>2
<1>6. LinksMatch'
  <2> SUFFICES ASSUME NEW q \in Requests, request[q].refund # None
               PROVE  /\ request[q].status = "APPROVED"
                      /\ refund'[request[q].refund].status = "SUCCEEDED"
                      /\ refund'[request[q].refund].for = q
                      /\ refund'[request[q].refund].items = request[q].items
    BY DEF LinksMatch, RefundIsFor
  <2>1. request[q].refund \in Refunds /\ request[q].refund # r
    BY <1>1, LinkTypes DEF IInv, LinksMatch
  <2> QED BY <2>1 DEF IInv, LinksMatch, RefundIsFor
<1> QED BY <1>4, <1>5, <1>6 DEF IInv

-----------------------------------------------------------------------------
\* A fault is counted.
LEMMA FaultType ==
  ASSUME RowsTypeOK, Fault PROVE faults' \in 0 .. MaxFaults
BY FaultsAssumption DEF RowsTypeOK, Fault

\* The gateway answers, or does not.
LEMMA GatewayKeepsIInv ==
  ASSUME IInv, NEW r \in Refunds,
         GatewayRefunds(r) \/ GatewayRefuses(r) \/ GatewayAnswerLost(r),
         OrderTypeOK', paymentStatus' \in TerminalStatuses
  PROVE  IInv'
<1>1. call[r] # "idle"
  BY DEF GatewayRefunds, GatewayRefuses, GatewayAnswerLost
<1>2. PICK state \in {"succeeded", "failed"} : SetCall(r, state)
  BY DEF GatewayRefunds, GatewayRefuses, GatewayAnswerLost
<1>3. UNCHANGED <<online, refund, requestVars>>
  BY DEF GatewayRefunds, GatewayRefuses, GatewayAnswerLost
<1>4. faults' \in 0 .. MaxFaults
  BY FaultType DEF GatewayRefunds, GatewayRefuses, GatewayAnswerLost, IInv, RowsTypeOK
<1>5. RowsTypeOK'
  BY <1>2, <1>3, <1>4 DEF IInv, RowsTypeOK, SetCall, CallState, requestVars
<1> QED BY <1>1, <1>2, <1>3, <1>5, CallMovesOn

\* createRefund comes to an end with a status that is saved.
LEMMA SettledCallKeepsIInv ==
  ASSUME IInv, NEW r \in Refunds,
         RefundSucceeds(r) \/ RefundReadThrows(r) \/ RefundFails(r),
         OrderTypeOK', paymentStatus' \in TerminalStatuses
  PROVE  IInv'
<1>1. call[r] # "idle"
  BY DEF RefundSucceeds, RefundReadThrows, RefundFails, Settle
<1>2. PICK status \in {"SUCCEEDED", "FAILED"}, at \in {"linking", "reverting"} :
        /\ SetRefundStatus(r, status)
        /\ AnswerCaller(r, at)
        /\ at = "linking" => status = "SUCCEEDED"
  BY DEF RefundSucceeds, RefundReadThrows, RefundFails, Settle
<1>3. UNCHANGED <<online, request>>
  BY DEF RefundSucceeds, RefundReadThrows, RefundFails
<1>4. faults' \in 0 .. MaxFaults
  BY FaultType DEF RefundSucceeds, RefundReadThrows, RefundFails, IInv, RowsTypeOK
<1>5. refund[r].status = "PENDING"
  BY <1>1 DEF IInv, CallsMatch
<1>6. /\ refund' \in [Refunds -> RefundRow \cup {NoRefund}]
      /\ refund'[r].status = status
      /\ refund'[r].items = refund[r].items
      /\ refund'[r].for = refund[r].for
      /\ \A s \in Refunds : s # r => refund'[s] = refund[s]
  BY <1>2, <1>5, SetRefundStatusType DEF IInv, RefundStatus
<1>7. call' \in [Refunds -> CallState] /\ approval' \in [Requests -> ApprovalState]
  BY <1>2, AnswerCallerType DEF IInv
<1>8. RowsTypeOK'
  BY <1>3, <1>4, <1>6, <1>7 DEF IInv, RowsTypeOK
<1> DEFINE state == [at |-> at, refund |-> IF at = "linking" THEN r ELSE None]
<1>9. /\ SetCall(r, "idle")
      /\ approval' = [q \in Requests |-> IF q = refund[r].for THEN state ELSE approval[q]]
  BY <1>2 DEF AnswerCaller
<1>10. \/ state.at \in {"idle", "reverting"}
       \/ state = [at |-> "linking", refund |-> r] /\ refund'[r].status = "SUCCEEDED"
  BY <1>2, <1>6
<1> HIDE DEF state
<1> QED BY <1>1, <1>3, <1>6, <1>8, <1>9, <1>10, CallEnds

\* createRefund comes to an end and saves nothing.
LEMMA BrokenCallKeepsIInv ==
  ASSUME IInv, NEW r \in Refunds, SettleThrows(r) \/ RefundDies(r),
         OrderTypeOK', paymentStatus' \in TerminalStatuses
  PROVE  IInv'
<1>1. call[r] # "idle" /\ SetCall(r, "idle") /\ UNCHANGED <<online, refund, request>>
  BY DEF SettleThrows, RefundDies, AnswerCaller
<1>2. PICK state \in {IdleApproval, [at |-> "reverting", refund |-> None]} :
        approval' = [q \in Requests |-> IF q = refund[r].for THEN state ELSE approval[q]]
  BY DEF SettleThrows, RefundDies, AnswerCaller
<1>3. state \in ApprovalState /\ state.at \in {"idle", "reverting"}
  BY DEF ApprovalState, IdleApproval
<1>4. faults' \in 0 .. MaxFaults
  BY FaultType DEF SettleThrows, RefundDies, IInv
<1>5. RowsTypeOK'
  BY <1>1, <1>2, <1>3, <1>4 DEF IInv, RowsTypeOK, SetCall, CallState
<1> QED BY <1>1, <1>2, <1>3, <1>5, CallEnds

-----------------------------------------------------------------------------
\* approve() calls createRefund, which takes the row r for it.
LEMMA ApprovalRefundsKeepsIInv ==
  ASSUME IInv, NEW q \in Requests, NEW r \in Refunds, ApprovalRefunds(q, r),
         OrderTypeOK', paymentStatus' \in TerminalStatuses
  PROVE  IInv'
<1> DEFINE row   == [status |-> "PENDING", items |-> request[q].items, for |-> q]
           state == [at |-> "waiting", refund |-> r]
<1>1. approval[q].at = "reserved" /\ InsertRefund(r, request[q].items, q)
        /\ approval' = [approval EXCEPT ![q] = state] /\ UNCHANGED <<online, request, faults>>
  BY DEF ApprovalRefunds, SetApproval
<1>2. request[q].status = "APPROVED" /\ request[q].refund = None
  BY <1>1 DEF IInv, ApprovalsMatch
<1>3. request[q].items \in Basket
  BY <1>2 DEF IInv, RowsTypeOK, RequestRow, NoRequest
<1>4. /\ refund' \in [Refunds -> RefundRow \cup {NoRefund}]
      /\ call' \in [Refunds -> CallState]
      /\ refund'[r] = row
      /\ call'[r] # "idle"
      /\ \A s \in Refunds : s # r => refund'[s] = refund[s] /\ call'[s] = call[s]
      /\ \A p \in Requests : /\ request[p].refund # r
                             /\ approval[p].at \in {"waiting", "linking"}
                                  => approval[p].refund # r
  BY <1>1, <1>3, InsertRefundEffect
<1>5. row.status = "PENDING" /\ row.for = q /\ row.items = request[q].items
        /\ state \in ApprovalState /\ state.at = "waiting" /\ state.refund = r
  BY DEF ApprovalState
<1>6. approval' \in [Requests -> ApprovalState]
        /\ approval'[q] = state /\ \A p \in Requests : p # q => approval'[p] = approval[p]
  BY <1>1, <1>5 DEF IInv, RowsTypeOK
<1> HIDE DEF row
<1>7. RowsTypeOK'
  BY <1>1, <1>4, <1>6 DEF IInv, RowsTypeOK
<1>8. CallsMatch'
  <2> SUFFICES ASSUME NEW s \in Refunds, call'[s] # "idle"
               PROVE  /\ refund'[s].status = "PENDING"
                      /\ \A p \in Requests : refund'[s].for = p =>
                           approval'[p] = [at |-> "waiting", refund |-> s]
    BY DEF CallsMatch
  <2>1. CASE s = r  BY <1>4, <1>5, <1>6, <2>1
  <2>2. CASE s # r
    <3>1. refund[s].status = "PENDING" /\ refund'[s] = refund[s]
            /\ \A p \in Requests : refund[s].for = p =>
                 approval[p] = [at |-> "waiting", refund |-> s]
      BY <1>4, <2>2 DEF IInv, CallsMatch
    <3>2. refund[s].for # q
      BY <1>1, <3>1
    <3> QED BY <1>6, <3>1, <3>2
  <2> QED BY <2>1, <2>2
<1> HIDE DEF state
<1>9. ApprovalsMatch'
  <2> SUFFICES ASSUME NEW p \in Requests
               PROVE  /\ approval'[p].at # "idle" =>
                           request[p].status = "APPROVED" /\ request[p].refund = None
                      /\ approval'[p].at = "waiting" =>
                           /\ call'[approval'[p].refund] # "idle"
                           /\ refund'[approval'[p].refund].for = p
                           /\ refund'[approval'[p].refund].items = request[p].items
                      /\ approval'[p].at = "linking" =>
                           /\ refund'[approval'[p].refund].status = "SUCCEEDED"
                           /\ refund'[approval'[p].refund].for = p
                           /\ refund'[approval'[p].refund].items = request[p].items
    BY <1>1 DEF ApprovalsMatch, RefundIsFor
  <2>1. CASE p = q  BY <1>2, <1>4, <1>5, <1>6, <2>1
  <2>2. CASE p # q
    BY <1>4, <1>6, <2>2, LinkTypes DEF IInv, ApprovalsMatch, RefundIsFor
  <2> QED BY <2>1, <2>2
<1>10. LinksMatch'
  BY <1>1, <1>4, LinkTypes DEF IInv, LinksMatch, RefundIsFor
<1> QED BY <1>7, <1>8, <1>9, <1>10 DEF IInv

\* The steps of an approval that do not touch refunds: none of them leaves or
\* enters the wait for a call.
LEMMA ApprovalStepKeepsIInv ==
  ASSUME IInv, NEW q \in Requests, NEW state \in ApprovalState,
         approval[q].at # "waiting", state.at \in {"idle", "reserved", "reverting"},
         SetApproval(q, state),
         state.at # "idle" => request'[q].status = "APPROVED" /\ request'[q].refund = None,
         request' \in [Requests -> RequestRow \cup {NoRequest}],
         \A p \in Requests : p # q => request'[p] = request[p],
         request'[q].refund # None =>
           /\ request'[q].status = "APPROVED"
           /\ refund[request'[q].refund].status = "SUCCEEDED"
           /\ refund[request'[q].refund].for = q
           /\ refund[request'[q].refund].items = request'[q].items,
         UNCHANGED <<online, refundVars>>, faults' \in 0 .. MaxFaults,
         OrderTypeOK', paymentStatus' \in TerminalStatuses
  PROVE  IInv'
<1>1. approval' \in [Requests -> ApprovalState] /\ approval'[q] = state
        /\ \A p \in Requests : p # q => approval'[p] = approval[p]
  BY DEF SetApproval, IInv, RowsTypeOK
<1>2. RowsTypeOK'
  BY <1>1 DEF IInv, RowsTypeOK, refundVars
<1>3. CallsMatch'
  <2> SUFFICES ASSUME NEW s \in Refunds, call[s] # "idle"
               PROVE  /\ refund[s].status = "PENDING"
                      /\ \A p \in Requests : refund[s].for = p =>
                           approval'[p] = [at |-> "waiting", refund |-> s]
    BY DEF CallsMatch, refundVars
  <2>1. /\ refund[s].status = "PENDING"
        /\ \A p \in Requests : refund[s].for = p =>
             approval[p] = [at |-> "waiting", refund |-> s]
    BY DEF IInv, CallsMatch
  <2>2. refund[s].for # q
    BY <2>1
  <2> QED BY <1>1, <2>1, <2>2
<1>4. ApprovalsMatch'
  <2> SUFFICES ASSUME NEW p \in Requests
               PROVE  /\ approval'[p].at # "idle" =>
                           request'[p].status = "APPROVED" /\ request'[p].refund = None
                      /\ approval'[p].at = "waiting" =>
                           /\ call[approval'[p].refund] # "idle"
                           /\ refund[approval'[p].refund].for = p
                           /\ refund[approval'[p].refund].items = request'[p].items
                      /\ approval'[p].at = "linking" =>
                           /\ refund[approval'[p].refund].status = "SUCCEEDED"
                           /\ refund[approval'[p].refund].for = p
                           /\ refund[approval'[p].refund].items = request'[p].items
    BY DEF ApprovalsMatch, RefundIsFor, refundVars
  <2>1. CASE p = q  BY <1>1, <2>1
  <2>2. CASE p # q  BY <1>1, <2>2 DEF IInv, ApprovalsMatch, RefundIsFor
  <2> QED BY <2>1, <2>2
<1>5. LinksMatch'
  <2> SUFFICES ASSUME NEW p \in Requests, request'[p].refund # None
               PROVE  /\ request'[p].status = "APPROVED"
                      /\ refund[request'[p].refund].status = "SUCCEEDED"
                      /\ refund[request'[p].refund].for = p
                      /\ refund[request'[p].refund].items = request'[p].items
    BY DEF LinksMatch, RefundIsFor, refundVars
  <2> QED BY DEF IInv, LinksMatch, RefundIsFor
<1> QED BY <1>2, <1>3, <1>4, <1>5 DEF IInv

\* An approval is running exactly on a request that is APPROVED.
LEMMA ReviewableIsIdle ==
  ASSUME IInv, NEW q \in Requests, request[q].status # "APPROVED"
  PROVE  approval[q] = IdleApproval /\ request[q].refund = None
<1>1. approval[q].at = "idle" /\ request[q].refund = None
  BY DEF IInv, ApprovalsMatch, LinksMatch
<1> QED BY <1>1 DEF IInv, RowsTypeOK, ApprovalState, IdleApproval

\* A row of a request, whole.
LEMMA RequestRows ==
  ASSUME RowsTypeOK, NEW q \in Requests, NEW items \in Basket
  PROVE  [status |-> "PENDING", items |-> items, refund |-> None] \in RequestRow
BY DEF RequestRow, RequestStatus

\* The customer requests, the administrator decides.
LEMMA RequestStepKeepsIInv ==
  ASSUME IInv, NEW q \in Requests, RequestStep(q),
         OrderTypeOK', paymentStatus' \in TerminalStatuses
  PROVE  IInv'
<1> USE DEF IdleApproval
<1>1. ASSUME NEW items \in Basket, RequestRefund(q, items) PROVE IInv'
  <2> DEFINE row == [status |-> "PENDING", items |-> items, refund |-> None]
  <2>1. request' = [request EXCEPT ![q] = row] /\ request[q].status = "NONE"
          /\ UNCHANGED <<online, refundVars, approval, faults>>
    BY <1>1 DEF RequestRefund
  <2>2. row \in RequestRow /\ row.refund = None
    BY RequestRows DEF IInv
  <2>3. approval[q] = IdleApproval
    BY <2>1, ReviewableIsIdle
  <2> HIDE DEF row
  <2>4. SetApproval(q, IdleApproval)
    BY <2>1, <2>3 DEF SetApproval, IInv, RowsTypeOK
  <2>5. request' \in [Requests -> RequestRow \cup {NoRequest}] /\ request'[q] = row
          /\ \A p \in Requests : p # q => request'[p] = request[p]
    BY <2>1, <2>2 DEF IInv, RowsTypeOK
  <2> QED BY <2>1, <2>2, <2>3, <2>4, <2>5, ApprovalStepKeepsIInv
          DEF ApprovalState, IInv, RowsTypeOK
<1>2. ASSUME ApproveRequest(q) PROVE IInv'
  <2> DEFINE state == [at |-> "reserved", refund |-> None]
  <2>1. request[q].status = "PENDING" /\ SetRequestStatus(q, "APPROVED")
          /\ SetApproval(q, state) /\ UNCHANGED <<online, refundVars, faults>>
    BY <1>2 DEF ApproveRequest
  <2>2. approval[q] = IdleApproval /\ request[q].refund = None
    BY <2>1, ReviewableIsIdle
  <2>3. state \in ApprovalState /\ state.at = "reserved"
    BY DEF ApprovalState
  <2> HIDE DEF state
  <2> QED BY <2>1, <2>2, <2>3, SetRequestStatusType, ApprovalStepKeepsIInv
          DEF IInv, RowsTypeOK, RequestStatus
<1>3. ASSUME NEW r \in Refunds, ApprovalRefunds(q, r) PROVE IInv'
  BY <1>3, ApprovalRefundsKeepsIInv
<1>4. ASSUME ApprovalRefused(q) \/ ApprovalDies(q) \/ LinkRefund(q) PROVE IInv'
  <2>1. PICK state \in {IdleApproval, [at |-> "reverting", refund |-> None]} :
          SetApproval(q, state)
    BY <1>4 DEF ApprovalRefused, ApprovalDies, LinkRefund
  <2>2. state \in ApprovalState /\ state.at \in {"idle", "reverting"}
    BY DEF ApprovalState
  <2>3. approval[q].at \notin {"idle", "waiting"} /\ UNCHANGED <<online, refundVars>>
    BY <1>4 DEF ApprovalRefused, ApprovalDies, LinkRefund
  <2>4. request[q].status = "APPROVED" /\ request[q].refund = None
    BY <2>3 DEF IInv, ApprovalsMatch
  <2>5. faults' \in 0 .. MaxFaults
    BY <1>4, FaultType DEF ApprovalRefused, ApprovalDies, LinkRefund, IInv, RowsTypeOK
  <2>6. CASE ApprovalRefused(q) \/ ApprovalDies(q)
    <3>1. UNCHANGED request
      BY <2>6 DEF ApprovalRefused, ApprovalDies
    <3> QED BY <2>1, <2>2, <2>3, <2>4, <2>5, <3>1, ApprovalStepKeepsIInv DEF IInv, RowsTypeOK
  <2>7. CASE LinkRefund(q)
    <3>1. approval[q].at = "linking" /\ request' = [request EXCEPT ![q].refund = approval[q].refund]
            /\ SetApproval(q, IdleApproval)
      BY <2>7 DEF LinkRefund
    <3>2. PICK row \in RequestRow : request[q] = row
      BY <2>4 DEF IInv, RowsTypeOK, NoRequest
    <3> DEFINE linked == [row EXCEPT !.refund = approval[q].refund]
    <3>3. approval[q].refund \in Refunds
      BY <3>1, LinkTypes DEF IInv
    <3>4. linked \in RequestRow /\ linked.status = "APPROVED" /\ linked.items = request[q].items
            /\ linked.refund = approval[q].refund
      BY <2>4, <3>2, <3>3 DEF RequestRow
    <3>5. request' = [request EXCEPT ![q] = linked]
      BY <3>1, <3>2
    <3> HIDE DEF linked
    <3>6. request' \in [Requests -> RequestRow \cup {NoRequest}] /\ request'[q] = linked
            /\ \A p \in Requests : p # q => request'[p] = request[p]
      BY <3>4, <3>5 DEF IInv, RowsTypeOK
    <3>7. /\ refund[linked.refund].status = "SUCCEEDED"
          /\ refund[linked.refund].for = q
          /\ refund[linked.refund].items = linked.items
      BY <3>1, <3>4 DEF IInv, ApprovalsMatch, RefundIsFor
    <3>8. IdleApproval \in ApprovalState
      BY DEF ApprovalState
    <3> QED BY <2>3, <2>5, <3>1, <3>4, <3>6, <3>7, <3>8, ApprovalStepKeepsIInv
  <2> QED BY <1>4, <2>6, <2>7
<1>5. ASSUME RevertApproval(q) PROVE IInv'
  <2>1. approval[q].at = "reverting" /\ SetRequestStatus(q, "PENDING")
          /\ SetApproval(q, IdleApproval) /\ UNCHANGED <<online, refundVars, faults>>
    BY <1>5 DEF RevertApproval
  <2>2. request[q].status = "APPROVED" /\ request[q].refund = None
    BY <2>1 DEF IInv, ApprovalsMatch
  <2> QED BY <2>1, <2>2, SetRequestStatusType, ApprovalStepKeepsIInv
          DEF IInv, RowsTypeOK, RequestStatus, ApprovalState
<1>6. ASSUME RejectRequest(q) PROVE IInv'
  <2>1. request[q].status = "PENDING" /\ SetRequestStatus(q, "REJECTED")
          /\ UNCHANGED <<online, refundVars, approval, faults>>
    BY <1>6 DEF RejectRequest
  <2>2. approval[q] = IdleApproval /\ request[q].refund = None
    BY <2>1, ReviewableIsIdle
  <2>3. SetApproval(q, IdleApproval)
    BY <2>1, <2>2 DEF SetApproval, IInv, RowsTypeOK
  <2> QED BY <2>1, <2>2, <2>3, SetRequestStatusType, ApprovalStepKeepsIInv
          DEF IInv, RowsTypeOK, RequestStatus, ApprovalState
<1> QED BY <1>1, <1>2, <1>3, <1>4, <1>5, <1>6 DEF RequestStep

\* IInv is inductive.
LEMMA IInvStep == IInv /\ [Next]_vars => IInv'
<1> SUFFICES ASSUME IInv, [Next]_vars PROVE IInv'
  OBVIOUS
<1>0. OrderTypeOK' /\ paymentStatus' \in TerminalStatuses
  BY OrderTypeStep DEF IInv
<1>1. CASE /\ UNCHANGED <<online, refundVars, requestVars, faults>>
  <2>1. RowsTypeOK'
    BY <1>0, <1>1 DEF IInv, RowsTypeOK, refundVars, requestVars
  <2> QED BY <1>1, <2>1, ElsewhereKeepsIInv
<1>2. ASSUME NEW r \in Refunds, RefundStep(r) PROVE IInv'
  BY <1>0, <1>2, CreateRefundKeepsIInv, GatewayKeepsIInv, SettledCallKeepsIInv,
     BrokenCallKeepsIInv
  DEF RefundStep
<1>3. ASSUME NEW q \in Requests, RequestStep(q) PROVE IInv'
  BY <1>0, <1>3, RequestStepKeepsIInv
<1>4. StripeStep \/ UNCHANGED vars \/ (\E to \in OrderStatus : AdminMovesOrder(to))
        => UNCHANGED <<online, refundVars, requestVars, faults>>
  BY DEF StripeStep, DashboardRefund, RefundFromGatewayEvent, vars, AdminMovesOrder
<1> QED BY <1>1, <1>2, <1>3, <1>4 DEF Next

LEMMA AlwaysIInv == Spec => []IInv
BY IInvInit, IInvStep, PTL DEF Spec

-----------------------------------------------------------------------------
\* Rows and processes keep their types.
THEOREM RowsTypeCorrect == Spec => []RowsTypeOK
<1>1. IInv => RowsTypeOK
  BY DEF IInv
<1> QED BY AlwaysIInv, <1>1, PTL

\* While an approval runs nobody else can decide on its request.
THEOREM RunningAlwaysReserved == Spec => []RunningApprovalIsReserved
<1>1. IInv => RunningApprovalIsReserved
  BY DEF IInv, ApprovalsMatch, RunningApprovalIsReserved
<1> QED BY AlwaysIInv, <1>1, PTL

\* A request never names a refund that is not its own or has not succeeded.
THEOREM LinkedAlwaysOwn == Spec => []LinkedRefundIsOwn
<1>1. IInv => LinkedRefundIsOwn
  BY DEF IInv, LinksMatch, RefundIsFor, LinkedRefundIsOwn
<1> QED BY AlwaysIInv, <1>1, PTL

\* From its reservation on, an approval owns its request and its refund.
THEOREM ApprovalAlwaysOwns == Spec => []ApprovalOwnsRefund
<1>1. RunningApprovalIsReserved /\ LinkedRefundIsOwn => ApprovalOwnsRefund
  BY DEF ApprovalOwnsRefund
<1> QED BY RunningAlwaysReserved, LinkedAlwaysOwn, <1>1, PTL

\* The order is refunded exactly when its payment is.
THEOREM OrderAlwaysFollows == Spec => []OrderFollowsPayment
<1>1. Init => OrderFollowsPayment
  BY DEF Init, OrderFollowsPayment
<1>2. OrderFollowsPayment /\ RowsTypeOK /\ [Next]_vars => OrderFollowsPayment'
  <2> SUFFICES ASSUME OrderFollowsPayment, RowsTypeOK, [Next]_vars
               PROVE  OrderFollowsPayment'
    OBVIOUS
  <2>1. CASE MoneyStep
    <3>1. PICK total : FollowTotal(total)  BY <2>1 DEF MoneyStep
    <3> QED BY <3>1, FollowTotalEffect DEF RowsTypeOK, OrderFollowsPayment
  <2>2. CASE UNCHANGED <<orderVars, paymentStatus>>
    BY <2>2 DEF OrderFollowsPayment, orderVars
  <2>3. ASSUME NEW to \in OrderStatus, AdminMovesOrder(to) PROVE OrderFollowsPayment'
    BY <2>3, AdminMoveEffect DEF RowsTypeOK, OrderFollowsPayment, AdminMovesOrder,
       TerminalStatuses
  <2> QED BY <2>1, <2>2, <2>3, NextOrderEffect
<1> QED BY <1>1, <1>2, RowsTypeCorrect, PTL DEF Spec

\* The audit trail stays a chain, refunds included.
THEOREM RefundHistoryAlwaysChain == Spec => []HistoryIsChain
<1>1. Init => HistoryIsChain
  BY DEF Init, HistoryIsChain, NoStatus
<1>2. HistoryIsChain /\ RowsTypeOK /\ [Next]_vars => HistoryIsChain'
  <2> SUFFICES ASSUME HistoryIsChain, RowsTypeOK, [Next]_vars PROVE HistoryIsChain'
    OBVIOUS
  <2>1. AuditedStep
    <3>1. MoneyStep => AuditedStep
      BY FollowTotalEffect DEF MoneyStep, RowsTypeOK
    <3>2. UNCHANGED <<orderVars, paymentStatus>> => AuditedStep
      BY DEF AuditedStep, orderVars
    <3>3. ASSUME NEW to \in OrderStatus, AdminMovesOrder(to) PROVE AuditedStep
      BY <3>3, AdminMoveEffect DEF RowsTypeOK
    <3> QED BY <3>1, <3>2, <3>3, NextOrderEffect
  <2> QED BY <2>1, AuditedStepChain DEF RowsTypeOK
<1> QED BY <1>1, <1>2, RowsTypeCorrect, PTL DEF Spec

-----------------------------------------------------------------------------
\* The three things that can happen to the rows of refunds.
LEMMA RefundRowsStep ==
  ASSUME IInv, [Next]_vars
  PROVE  \/ UNCHANGED refund
         \/ \E r \in Refunds, items \in Basket, q \in Requests \cup {None} :
              /\ InsertRefund(r, items, q)
              /\ q \in Requests => approval[q].at = "reserved"
         \/ \E r \in Refunds, status \in {"SUCCEEDED", "FAILED"} :
              refund[r].status = "PENDING" /\ SetRefundStatus(r, status)
<1>1. ASSUME NEW r \in Refunds, NEW items \in Basket, CreateRefund(r, items)
      PROVE  InsertRefund(r, items, None)
  BY <1>1 DEF CreateRefund
<1>2. ASSUME NEW r \in Refunds, RefundSucceeds(r) \/ RefundReadThrows(r) \/ RefundFails(r)
      PROVE  /\ refund[r].status = "PENDING"
             /\ SetRefundStatus(r, "SUCCEEDED") \/ SetRefundStatus(r, "FAILED")
  BY <1>2 DEF RefundSucceeds, RefundReadThrows, RefundFails, Settle, IInv, CallsMatch
<1>3. ASSUME NEW r \in Refunds, GatewayRefunds(r) \/ GatewayRefuses(r)
               \/ GatewayAnswerLost(r) \/ SettleThrows(r) \/ RefundDies(r)
      PROVE  UNCHANGED refund
  BY <1>3 DEF GatewayRefunds, GatewayRefuses, GatewayAnswerLost, SettleThrows, RefundDies
<1>4. ASSUME NEW q \in Requests, NEW r \in Refunds, ApprovalRefunds(q, r)
      PROVE  /\ InsertRefund(r, request[q].items, q)
             /\ request[q].items \in Basket
             /\ approval[q].at = "reserved"
  <2>1. InsertRefund(r, request[q].items, q) /\ approval[q].at = "reserved"
    BY <1>4 DEF ApprovalRefunds
  <2>2. request[q].status = "APPROVED"
    BY <2>1 DEF IInv, ApprovalsMatch
  <2> QED BY <2>1, <2>2 DEF IInv, RowsTypeOK, RequestRow, NoRequest
<1>5. ASSUME NEW q \in Requests, RequestStep(q), \A r \in Refunds : ~ApprovalRefunds(q, r)
      PROVE  UNCHANGED refund
  BY <1>5 DEF RequestStep, RequestRefund, ApproveRequest, ApprovalRefused, LinkRefund,
     RevertApproval, ApprovalDies, RejectRequest, refundVars
<1>6. StripeStep \/ UNCHANGED vars \/ (\E to \in OrderStatus : AdminMovesOrder(to))
        => UNCHANGED refund
  BY DEF StripeStep, DashboardRefund, RefundFromGatewayEvent, vars, AdminMovesOrder, refundVars
<1>7. ASSUME NEW r \in Refunds, RefundStep(r)
      PROVE  \/ UNCHANGED refund
             \/ \E items \in Basket : InsertRefund(r, items, None)
             \/ \E status \in {"SUCCEEDED", "FAILED"} :
                  refund[r].status = "PENDING" /\ SetRefundStatus(r, status)
  BY <1>1, <1>2, <1>3, <1>7 DEF RefundStep
<1> QED BY <1>4, <1>5, <1>6, <1>7, NoneAssumption DEF Next

\* The ledger sums with its own instance of the library's operator.
LEMMA SameSum ==
  ASSUME NEW f, NEW S PROVE Pieces!SumFunctionOnSet(f, S) = SumFunctionOnSet(f, S)
BY DEF SumFunctionOnSet, FoldFunctionOnSet, MapThenFoldSet, Pieces!SumFunctionOnSet,
   Pieces!FoldFunctionOnSet, Pieces!MapThenFoldSet

\* What createRefund counts as committed is what the ledger counts as taken.
LEMMA CommittedIsTaken ==
  ASSUME RowsTypeOK PROVE CommittedQty(AnyItem) = Pieces!Taken
<1>1. [r \in Refunds |-> refund[r].items[AnyItem]] = [r \in Refunds |-> PieceEntries[r].qty]
  BY DEF PieceEntries
<1>2. RefundsIn(CommittedStatuses) = {r \in Refunds : PieceEntries[r].state \in Pieces!Open}
  BY DEF RefundsIn, CommittedStatuses, PieceEntries, Pieces!Open
<1>3. CommittedQty(AnyItem) =
        SumFunctionOnSet([r \in Refunds |-> refund[r].items[AnyItem]],
                         RefundsIn(CommittedStatuses))
  BY DEF CommittedQty
<1>4. Pieces!Taken =
        SumFunctionOnSet([r \in Refunds |-> PieceEntries[r].qty],
                         {r \in Refunds : PieceEntries[r].state \in Pieces!Open})
  BY SameSum DEF Pieces!Taken
<1> QED BY <1>1, <1>2, <1>3, <1>4

\* createRefund, whoever calls it and whatever races it, spends the pieces of
\* an item as the ledger says.
THEOREM PiecesAreLedger == Spec => ImplementsPieces
<1>1. Init => Pieces!Init
  BY DEF Init, Pieces!Init, PieceEntries, NoRefund
<1>2. IInv /\ [Next]_vars => [Pieces!Next]_PieceEntries
  <2> SUFFICES ASSUME IInv, [Next]_vars PROVE Pieces!Next \/ UNCHANGED PieceEntries
    OBVIOUS
  <2>0. RowsTypeOK
    BY DEF IInv
  <2>1. CASE UNCHANGED refund
    BY <2>1 DEF PieceEntries
  <2>2. ASSUME NEW r \in Refunds, NEW items \in Basket, NEW q \in Requests \cup {None},
               InsertRefund(r, items, q)
        PROVE  Pieces!Next
    <3> DEFINE n == items[AnyItem]
    <3>1. n \in Quantities \cup {0} /\ n \in Nat
      <4>1. items \in [Items -> Quantities \cup {0}]
        BY DEF Basket, Listing
      <4>2. items[AnyItem] \in Quantities \cup {0}
        BY <4>1, ItemsAssumption
      <4>3. Quantities \cup {0} \subseteq Nat
        BY ItemsAssumption
      <4>4. items[AnyItem] \in Nat
        BY <4>2, <4>3
      <4> QED BY <4>2, <4>4 DEF n
    <3>2. refund[r].status = "NONE" /\ Refundable(items, Nothing)
            /\ refund' = [refund EXCEPT ![r] = [status |-> "PENDING", items |-> items, for |-> q]]
      BY <2>2 DEF InsertRefund
    <3>3. n > 0 => n + 0 + CommittedQty(AnyItem) <= Ordered[AnyItem]
      BY <3>2, ItemsAssumption DEF Refundable, Nothing
    <3>4. n > 0 => n + Pieces!Taken <= Ordered[AnyItem]
      <4>1. n + 0 = n  BY <3>1
      <4> QED BY <4>1, <3>3, <2>0, CommittedIsTaken
    <3>5. PieceEntries[r].state = "NONE"
      BY <3>2 DEF PieceEntries
    <3>6. PieceEntries' = [PieceEntries EXCEPT ![r] = [state |-> "PENDING", qty |-> n]]
      BY <2>0, <3>2 DEF PieceEntries, RowsTypeOK
    <3>7. Pieces!Reserve(r, n)
      BY <3>4, <3>5, <3>6 DEF Pieces!Reserve
    <3> QED BY <3>1, <3>7 DEF Pieces!Next
  <2>3. ASSUME NEW r \in Refunds, NEW status \in {"SUCCEEDED", "FAILED"},
               refund[r].status = "PENDING", SetRefundStatus(r, status)
        PROVE  Pieces!Next
    <3>1. /\ refund'[r].status = status
          /\ refund'[r].items = refund[r].items
          /\ \A s \in Refunds : s # r => refund'[s] = refund[s]
      BY <2>0, <2>3, SetRefundStatusType DEF RefundStatus
    <3>2. PieceEntries' =
            [PieceEntries EXCEPT ![r] = [state |-> status, qty |-> PieceEntries[r].qty]]
      BY <3>1 DEF PieceEntries
    <3>3. PieceEntries[r].state = "PENDING"
      BY <2>3 DEF PieceEntries
    <3>4. Pieces!Settle(r) \/ Pieces!Release(r)
      BY <3>2, <3>3 DEF Pieces!Settle, Pieces!Release
    <3> QED BY <3>4 DEF Pieces!Next
  <2> QED BY <2>1, <2>2, <2>3, RefundRowsStep
<1> QED BY <1>1, <1>2, AlwaysIInv, PTL DEF Spec, ImplementsPieces, Pieces!Spec

\* A request that was turned down is never acted upon.
THEOREM RejectedAlwaysFinal == Spec => RejectedIsFinal
<1> DEFINE A == \A q \in Requests : request[q].status = "REJECTED" =>
                  /\ request'[q] = request[q]
                  /\ \A r \in Refunds : refund'[r].for = q => refund[r].for = q
<1>1. IInv /\ [Next]_vars => [A]_vars
  <2> SUFFICES ASSUME IInv, [Next]_vars, NEW q \in Requests, request[q].status = "REJECTED"
               PROVE  /\ request'[q] = request[q]
                      /\ \A r \in Refunds : refund'[r].for = q => refund[r].for = q
    OBVIOUS
  <2>1. approval[q].at = "idle"
    BY DEF IInv, ApprovalsMatch
  <2>2. request'[q] = request[q]
    <3>1. ASSUME NEW p \in Requests, RequestStep(p) PROVE request'[q] = request[q]
      BY <2>1, <3>1 DEF RequestStep, RequestRefund, ApproveRequest, ApprovalRefunds,
         ApprovalRefused, LinkRefund, RevertApproval, ApprovalDies, RejectRequest,
         SetRequestStatus, IInv, RowsTypeOK
    <3>2. ASSUME NEW r \in Refunds, RefundStep(r) PROVE request' = request
      BY <3>2 DEF RefundStep, CreateRefund, GatewayRefunds, GatewayRefuses, GatewayAnswerLost,
         RefundSucceeds, RefundReadThrows, RefundFails, SettleThrows, RefundDies, requestVars
    <3>3. StripeStep \/ UNCHANGED vars \/ (\E to \in OrderStatus : AdminMovesOrder(to))
            => request' = request
      BY DEF StripeStep, DashboardRefund, RefundFromGatewayEvent, vars, AdminMovesOrder,
         requestVars
    <3> QED BY <3>1, <3>2, <3>3 DEF Next
  <2>3. \A r \in Refunds : refund'[r].for = q => refund[r].for = q
    <3>1. ASSUME NEW r \in Refunds, NEW items \in Basket, NEW p \in Requests \cup {None},
                 InsertRefund(r, items, p), p \in Requests => approval[p].at = "reserved",
                 NEW s \in Refunds, refund'[s].for = q
          PROVE  refund[s].for = q
      <4>1. p # q
        BY <2>1, <3>1
      <4>2. refund' = [refund EXCEPT ![r] = [status |-> "PENDING", items |-> items, for |-> p]]
        BY <3>1 DEF InsertRefund
      <4> QED BY <3>1, <4>1, <4>2 DEF IInv, RowsTypeOK
    <3>2. ASSUME NEW r \in Refunds, NEW status \in {"SUCCEEDED", "FAILED"},
                 refund[r].status = "PENDING", SetRefundStatus(r, status),
                 NEW s \in Refunds, refund'[s].for = q
          PROVE  refund[s].for = q
      BY <3>2, SetRefundStatusType DEF IInv, RefundStatus
    <3> QED BY <3>1, <3>2, RefundRowsStep
  <2> QED BY <2>2, <2>3
<1> QED BY AlwaysIInv, <1>1, PTL DEF Spec, RejectedIsFinal

=============================================================================
