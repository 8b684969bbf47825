--------------------------- MODULE RefundMoneyProofs ---------------------------
(***************************************************************************)
(* The sums of Refunds, for any number of items, refunds and events: no     *)
(* piece is refunded twice, the money of the payment is spent as            *)
(* RefundLedger says, and the refund rows, the payment's status and what     *)
(* Stripe has returned tell the same story.                                 *)
(***************************************************************************)
EXTENDS RefundsProofs, FiniteSums

\* Money is counted in natural numbers.
LEMMA NatProduct == ASSUME NEW a \in Nat, NEW b \in Nat PROVE a * b \in Nat
OBVIOUS

LEMMA NatQuotient == ASSUME NEW n \in Nat, NEW d \in Nat \ {0} PROVE n \div d \in Nat
OBVIOUS

LEMMA HalfUpIsNat ==
  ASSUME NEW n \in Nat, NEW d \in Nat \ {0} PROVE HalfUp(n, d) \in Nat
<1>1. 2 * n + d \in Nat /\ 2 * d \in Nat \ {0}
  OBVIOUS
<1> QED BY <1>1, NatQuotient DEF HalfUp

\* What a number of pieces gives back.
LEMMA ItemAmountIsNat ==
  ASSUME NEW price \in Nat, NEW qty \in Nat, NEW paid \in Nat, NEW subtotal \in Nat
  PROVE  ItemAmount(price, qty, paid, subtotal) \in Nat
<1>1. price * qty \in Nat /\ price * qty * paid \in Nat
  <2>1. price * qty \in Nat  BY NatProduct
  <2> QED BY <2>1, NatProduct
<1> DEFINE n == price * qty * paid
<1> HIDE DEF n
<1>2. n \in Nat
  BY <1>1 DEF n
<1>3. CASE subtotal # 0
  <2>1. n \div subtotal \in Nat /\ HalfUp(n, subtotal) \in Nat
    BY <1>2, <1>3, NatQuotient, HalfUpIsNat
  <2> DEFINE short == (2 * n) % (2 * subtotal) = subtotal /\ QuotientIsShort(paid, subtotal)
  <2>2. ItemAmount(price, qty, paid, subtotal) =
          IF short THEN n \div subtotal ELSE HalfUp(n, subtotal)
    BY <1>3 DEF ItemAmount, n
  <2> HIDE DEF short
  <2> QED BY <2>1, <2>2
<1> QED BY <1>1, <1>3 DEF ItemAmount

LEMMA SubtotalIsNat == Subtotal \in Nat
<1> DEFINE f == [i \in Items |-> Price[i] * Ordered[i]]
<1>1. \A i \in Items : f[i] \in Nat
  BY ItemsAssumption, NatProduct
<1>2. DOMAIN f = Items
  OBVIOUS
<1>3. Subtotal = SumFunctionOnSet(f, Items)
  BY <1>2 DEF Subtotal, SumFunction
<1> HIDE DEF f
<1> QED BY <1>1, <1>3, ItemsAssumption, SumIsNat

LEMMA ListingCounts ==
  ASSUME NEW items \in Listing PROVE \A i \in Items : items[i] \in Nat
<1>1. items \in [Items -> Quantities \cup {0}]
  BY DEF Listing
<1>2. Quantities \cup {0} \subseteq Nat
  BY ItemsAssumption
<1> QED BY <1>1, <1>2

LEMMA RefundAmountIsNat ==
  ASSUME NEW items \in Listing PROVE RefundAmount(items) \in Nat
<1> DEFINE f == [i \in Items |-> ItemAmount(Price[i], items[i], Charged, Subtotal)]
<1>1. \A i \in Items : f[i] \in Nat
  <2> SUFFICES ASSUME NEW i \in Items PROVE ItemAmount(Price[i], items[i], Charged, Subtotal) \in Nat
    OBVIOUS
  <2>1. Price[i] \in Nat /\ items[i] \in Nat
    BY ItemsAssumption, ListingCounts
  <2> QED BY <2>1, SubtotalIsNat, MoneyAssumption, ItemAmountIsNat
<1>2. DOMAIN f = Items
  OBVIOUS
<1>3. RefundAmount(items) = SumFunctionOnSet(f, Items)
  BY <1>2 DEF RefundAmount, SumFunction
<1> HIDE DEF f
<1> QED BY <1>1, <1>3, ItemsAssumption, SumIsNat

\* Every row lists pieces, and so has an amount.
LEMMA RowsHaveAmounts ==
  ASSUME RowsTypeOK
  PROVE  \A r \in Refunds : /\ refund[r].items \in Listing
                            /\ \A i \in Items : refund[r].items[i] \in Nat
                            /\ AmountOf[r] = RefundAmount(refund[r].items)
                            /\ AmountOf[r] \in Nat
<1> SUFFICES ASSUME NEW r \in Refunds
             PROVE  /\ refund[r].items \in Listing
                    /\ \A i \in Items : refund[r].items[i] \in Nat
                    /\ AmountOf[r] = RefundAmount(refund[r].items)
                    /\ AmountOf[r] \in Nat
  OBVIOUS
<1>1. refund[r].items \in Listing
  BY DEF RowsTypeOK, RefundRow, NoRefund, Basket, Listing, Nothing
<1>2. \A i \in Items : refund[r].items[i] \in Nat
  BY <1>1, ListingCounts
<1>3. AmountOf[r] = RefundAmount(refund[r].items)
  BY DEF AmountOf
<1> QED BY <1>1, <1>2, <1>3, RefundAmountIsNat

\* The same after a step.
LEMMA RowsStillHaveAmounts ==
  ASSUME RowsTypeOK'
  PROVE  \A r \in Refunds : /\ \A i \in Items : refund'[r].items[i] \in Nat
                            /\ AmountOf'[r] = RefundAmount(refund'[r].items)
                            /\ AmountOf'[r] \in Nat
<1> SUFFICES ASSUME NEW r \in Refunds
             PROVE  /\ \A i \in Items : refund'[r].items[i] \in Nat
                    /\ AmountOf'[r] = RefundAmount(refund'[r].items)
                    /\ AmountOf'[r] \in Nat
  OBVIOUS
<1>1. refund'[r].items \in Listing
  BY DEF RowsTypeOK, RefundRow, NoRefund, Basket, Listing, Nothing
<1>2. AmountOf'[r] = RefundAmount(refund'[r].items)
  BY DEF AmountOf
<1> QED BY <1>1, <1>2, ListingCounts, RefundAmountIsNat

-----------------------------------------------------------------------------
\* What Stripe knows, and what its events have left in the books.
StripeTypeOK ==
  /\ returned \in [TxIds -> Nat]
  /\ sent \subseteq Event
  /\ handled \subseteq sent
  /\ booked \in [TxIds -> Nat]

LEMMA TxIdsFinite == IsFiniteSet(TxIds)
BY RefundsAssumption, FS_Union DEF TxIds

LEMMA RowSetsFinite ==
  ASSUME NEW statuses PROVE IsFiniteSet(RefundsIn(statuses)) /\ RefundsIn(statuses) \subseteq Refunds
BY RefundsAssumption, FS_Subset DEF RefundsIn

\* The totals, term by term.
LEMMA Totals ==
  ASSUME RowsTypeOK, StripeTypeOK
  PROVE  /\ ReturnedTotal = SumFunctionOnSet(returned, TxIds) /\ ReturnedTotal \in Nat
         /\ SumFunction(booked) = SumFunctionOnSet(booked, TxIds) /\ SumFunction(booked) \in Nat
         /\ \A statuses : /\ SumFunctionOnSet(AmountOf, RefundsIn(statuses)) \in Nat
                          /\ RefundSum(statuses) \in Nat
<1>1. DOMAIN returned = TxIds /\ DOMAIN booked = TxIds
        /\ (\A t \in TxIds : returned[t] \in Nat) /\ (\A t \in TxIds : booked[t] \in Nat)
  BY DEF StripeTypeOK
<1>2. ReturnedTotal = SumFunctionOnSet(returned, TxIds)
        /\ SumFunction(booked) = SumFunctionOnSet(booked, TxIds)
  BY <1>1 DEF ReturnedTotal, SumFunction
<1>3. ReturnedTotal \in Nat /\ SumFunction(booked) \in Nat
  BY <1>1, <1>2, TxIdsFinite, SumIsNat
<1>4. ASSUME NEW statuses
      PROVE  /\ SumFunctionOnSet(AmountOf, RefundsIn(statuses)) \in Nat
             /\ RefundSum(statuses) \in Nat
  <2>1. \A r \in RefundsIn(statuses) : AmountOf[r] \in Nat
    BY RowsHaveAmounts, RowSetsFinite
  <2>2. SumFunctionOnSet(AmountOf, RefundsIn(statuses)) \in Nat
    BY <2>1, RowSetsFinite, SumIsNat
  <2> QED BY <1>3, <2>2 DEF RefundSum
<1> QED BY <1>2, <1>3, <1>4

\* Stripe returns `amount` for the refund t.
LEMMA ReturnMoneyEffect ==
  ASSUME RowsTypeOK, StripeTypeOK, NEW t \in TxIds, NEW amount \in Nat, ReturnMoney(t, amount),
         returned[t] = 0
  PROVE  /\ returned' \in [TxIds -> Nat]
         /\ sent' \subseteq Event
         /\ sent \subseteq sent'
         /\ returned'[t] = amount /\ amount > 0
         /\ \A u \in TxIds : u # t => returned'[u] = returned[u]
         /\ ReturnedTotal' = ReturnedTotal + amount
         /\ ReturnedTotal' <= Charged
         /\ sent' = sent \cup {[latest |-> t, total |-> ReturnedTotal + amount]}
         /\ [latest |-> t, total |-> ReturnedTotal + amount] \in Event
<1>1. returned' = [returned EXCEPT ![t] = amount] /\ amount > 0
        /\ ReturnedTotal + amount <= Charged
        /\ sent' = sent \cup {[latest |-> t, total |-> ReturnedTotal + amount]}
  BY DEF ReturnMoney
<1>2. /\ returned' \in [TxIds -> Nat] /\ returned'[t] = amount
      /\ \A u \in TxIds : u # t => returned'[u] = returned[u]
  BY <1>1 DEF StripeTypeOK
<1>3. ReturnedTotal = SumFunctionOnSet(returned, TxIds) /\ ReturnedTotal \in Nat
  BY Totals
<1>4. [latest |-> t, total |-> ReturnedTotal + amount] \in Event
  BY <1>3 DEF Event
<1>5. ReturnedTotal' = SumFunctionOnSet(returned', TxIds)
  <2>1. DOMAIN returned' = TxIds  BY <1>2
  <2> QED BY <2>1 DEF ReturnedTotal, SumFunction
<1>6. \A u \in TxIds : returned[u] \in Nat /\ returned'[u] \in Nat
  BY <1>2 DEF StripeTypeOK
<1>7. SumFunctionOnSet(returned', TxIds) =
        SumFunctionOnSet(returned, TxIds) + returned'[t] - returned[t]
  BY <1>2, <1>6, TxIdsFinite, TermChanged
<1>8. ReturnedTotal' = ReturnedTotal + amount
  BY <1>2, <1>3, <1>5, <1>7
<1> QED BY <1>1, <1>2, <1>4, <1>8 DEF StripeTypeOK

-----------------------------------------------------------------------------
\* What a step does to the rows of refunds and to the money.
MoneyUntouched == UNCHANGED <<online, paymentStatus, returned, sent, handled, booked>>

RowInserted(r) ==
  \E items \in Basket, q \in Requests \cup {None} : InsertRefund(r, items, q) /\ MoneyUntouched

RowSettled(r) ==
  Settle(r) /\ SetCall(r, "idle") /\ UNCHANGED <<online, returned, sent, handled, booked>>

RowFailed(r) ==
  call[r] = "failed" /\ SetRefundStatus(r, "FAILED") /\ SetCall(r, "idle") /\ MoneyUntouched

MoneyReturned(r) ==
  /\ call[r] = "gateway"
  /\ ReturnMoney(r, AmountOf[r])
  /\ \E state \in {"succeeded", "failed"} : SetCall(r, state)
  /\ UNCHANGED <<online, paymentStatus, refund, handled, booked>>

CallDropped(r) ==
  /\ call[r] # "idle"
  /\ \E state \in {"failed", "idle"} : SetCall(r, state)
  /\ UNCHANGED refund
  /\ MoneyUntouched

BooksUntouched == UNCHANGED refundVars /\ MoneyUntouched

LEMMA BooksStep ==
  ASSUME IInv, [Next]_vars
  PROVE  \/ \E r \in Refunds : \/ RowInserted(r)
                              \/ RowSettled(r)
                              \/ RowFailed(r)
                              \/ MoneyReturned(r)
                              \/ CallDropped(r)
         \/ \E d \in Dashboard, amount \in Sums : DashboardRefund(d, amount)
         \/ \E e \in sent : RefundFromGatewayEvent(e)
         \/ BooksUntouched
<1>1. ASSUME NEW r \in Refunds, NEW items \in Basket, CreateRefund(r, items)
      PROVE  RowInserted(r)
  BY <1>1 DEF CreateRefund, RowInserted, MoneyUntouched, stripeVars, eventVars
<1>2. ASSUME NEW r \in Refunds, RefundSucceeds(r) \/ RefundReadThrows(r)
      PROVE  RowSettled(r)
  BY <1>2 DEF RefundSucceeds, RefundReadThrows, RowSettled, AnswerCaller, stripeVars, eventVars
<1>3. ASSUME NEW r \in Refunds, RefundFails(r)
      PROVE  RowFailed(r)
  BY <1>3 DEF RefundFails, RowFailed, AnswerCaller, MoneyUntouched, stripeVars, eventVars
<1>4. ASSUME NEW r \in Refunds, GatewayRefunds(r) \/ GatewayAnswerLost(r)
      PROVE  MoneyReturned(r)
  BY <1>4 DEF GatewayRefunds, GatewayAnswerLost, MoneyReturned, eventVars
<1>5. ASSUME NEW r \in Refunds, GatewayRefuses(r) \/ SettleThrows(r) \/ RefundDies(r)
      PROVE  CallDropped(r)
  BY <1>5 DEF GatewayRefuses, SettleThrows, RefundDies, CallDropped, AnswerCaller,
     MoneyUntouched, stripeVars, eventVars
<1>6. ASSUME NEW q \in Requests, NEW r \in Refunds, ApprovalRefunds(q, r)
      PROVE  RowInserted(r)
  <2>1. InsertRefund(r, request[q].items, q) /\ approval[q].at = "reserved" /\ MoneyUntouched
    BY <1>6 DEF ApprovalRefunds, MoneyUntouched, stripeVars, eventVars
  <2>2. request[q].status = "APPROVED"
    BY <2>1 DEF IInv, ApprovalsMatch
  <2>3. request[q].items \in Basket
    BY <2>2 DEF IInv, RowsTypeOK, RequestRow, NoRequest
  <2> QED BY <2>1, <2>3 DEF RowInserted
<1>7. ASSUME NEW q \in Requests, RequestStep(q), \A r \in Refunds : ~ApprovalRefunds(q, r)
      PROVE  BooksUntouched
  BY <1>7 DEF RequestStep, RequestRefund, ApproveRequest, ApprovalRefused, LinkRefund,
     RevertApproval, ApprovalDies, RejectRequest, BooksUntouched, MoneyUntouched, stripeVars,
     eventVars
<1>8. UNCHANGED vars \/ (\E to \in OrderStatus : AdminMovesOrder(to)) => BooksUntouched
  BY DEF vars, AdminMovesOrder, BooksUntouched, MoneyUntouched, stripeVars, eventVars
<1>9. ASSUME NEW r \in Refunds, RefundStep(r)
      PROVE  RowInserted(r) \/ RowSettled(r) \/ RowFailed(r) \/ MoneyReturned(r) \/ CallDropped(r)
  BY <1>1, <1>2, <1>3, <1>4, <1>5, <1>9 DEF RefundStep
<1>10. ASSUME NEW q \in Requests, RequestStep(q)
       PROVE  BooksUntouched \/ \E r \in Refunds : RowInserted(r)
  BY <1>6, <1>7, <1>10
<1> QED BY <1>8, <1>9, <1>10 DEF Next, StripeStep

\* A new row counts as committed, and not yet as succeeded.
LEMMA RowInsertedEffect ==
  ASSUME IInv, NEW r \in Refunds, RowInserted(r)
  PROVE  /\ r \notin RefundsIn(CommittedStatuses)
         /\ RefundsIn(CommittedStatuses)' = RefundsIn(CommittedStatuses) \cup {r}
         /\ RefundsIn({"SUCCEEDED"})' = RefundsIn({"SUCCEEDED"})
         /\ refund[r].status = "NONE" /\ refund'[r].status = "PENDING"
         /\ refund'[r].items \in Basket /\ Refundable(refund'[r].items, Nothing)
         /\ call'[r] = IF online THEN "gateway" ELSE "succeeded"
         /\ \A s \in Refunds : s # r => refund'[s] = refund[s] /\ call'[s] = call[s]
<1>1. PICK items \in Basket, q \in Requests \cup {None} : InsertRefund(r, items, q)
  BY DEF RowInserted
<1>2. /\ refund'[r] = [status |-> "PENDING", items |-> items, for |-> q]
      /\ \A s \in Refunds : s # r => refund'[s] = refund[s] /\ call'[s] = call[s]
  BY <1>1, InsertRefundEffect
<1>3. refund[r].status = "NONE" /\ Refundable(items, Nothing)
        /\ call' = [call EXCEPT ![r] = IF online THEN "gateway" ELSE "succeeded"]
  BY <1>1 DEF InsertRefund
<1>4. call'[r] = IF online THEN "gateway" ELSE "succeeded"
  BY <1>3 DEF IInv, RowsTypeOK
<1>5. refund'[r].status = "PENDING" /\ refund'[r].items = items
  BY <1>2
<1> QED BY <1>2, <1>3, <1>4, <1>5 DEF RefundsIn, CommittedStatuses

\* The status of a row is saved.
LEMMA RowDecidedEffect ==
  ASSUME IInv, NEW r \in Refunds, call[r] # "idle",
         NEW status \in {"SUCCEEDED", "FAILED"}, SetRefundStatus(r, status)
  PROVE  /\ refund[r].status = "PENDING" /\ refund'[r].status = status
         /\ AmountOf' = AmountOf
         /\ \A s \in Refunds : refund'[s].items = refund[s].items /\ refund'[s].for = refund[s].for
         /\ \A s \in Refunds : s # r => refund'[s] = refund[s]
         /\ r \in RefundsIn(CommittedStatuses) /\ r \notin RefundsIn({"SUCCEEDED"})
         /\ RefundsIn(CommittedStatuses)' =
              IF status = "FAILED" THEN RefundsIn(CommittedStatuses) \ {r}
                                   ELSE RefundsIn(CommittedStatuses)
         /\ RefundsIn({"SUCCEEDED"})' =
              IF status = "FAILED" THEN RefundsIn({"SUCCEEDED"})
                                   ELSE RefundsIn({"SUCCEEDED"}) \cup {r}
<1>1. refund[r].status = "PENDING"
  BY DEF IInv, CallsMatch
<1>2. /\ refund'[r].status = status
      /\ refund'[r].items = refund[r].items
      /\ refund'[r].for = refund[r].for
      /\ \A s \in Refunds : s # r => refund'[s] = refund[s]
  BY <1>1, SetRefundStatusType DEF IInv, RefundStatus
<1>3. \A s \in Refunds : refund'[s].items = refund[s].items /\ refund'[s].for = refund[s].for
  BY <1>2
<1>4. AmountOf' = AmountOf
  BY <1>3 DEF AmountOf
<1> QED BY <1>1, <1>2, <1>3, <1>4 DEF RefundsIn, CommittedStatuses

-----------------------------------------------------------------------------
\* Nothing has been returned for a row before the gateway was asked.
UnpaidYet ==
  \A r \in Refunds : refund[r].status = "NONE" \/ call[r] = "gateway" => returned[r] = 0

MoneyInv == IInv /\ StripeTypeOK /\ UnpaidYet

\* refundFromGatewayEvent books what the event adds to the books, or nothing.
Books(e) ==
  /\ paymentStatus \in RefundableStatuses
  /\ ~(LatestKnown /\ Recorded(e.latest))
  /\ e.total > SucceededTotal

LEMMA GatewayEventEffect ==
  ASSUME RowsTypeOK, StripeTypeOK, NEW e \in sent, RefundFromGatewayEvent(e)
  PROVE  /\ e.latest \in TxIds /\ e.total \in Nat
         /\ handled' = handled \cup {e}
         /\ UNCHANGED <<online, refund, call, returned, sent>>
         /\ Books(e) => /\ booked' \in [TxIds -> Nat]
                        /\ booked'[e.latest] > 0
                        /\ \A t \in TxIds : t # e.latest => booked'[t] = booked[t]
                        /\ SumFunction(booked') = SumFunction(booked) + e.total - SucceededTotal
                        /\ FollowTotal(e.total)
         /\ ~Books(e) => UNCHANGED <<paymentStatus, booked>>
<1>1. e \in Event
  BY DEF StripeTypeOK
<1>2. PICK t \in TxIds, n \in Nat : e = [latest |-> t, total |-> n]
  BY <1>1 DEF Event
<1>3. e.latest = t /\ e.total = n
  BY <1>2
<1>4. handled' = handled \cup {e} /\ UNCHANGED <<online, refund, call, returned, sent>>
  BY DEF RefundFromGatewayEvent, refundVars, stripeVars
<1>5. IF Books(e) THEN /\ booked' = [booked EXCEPT ![t] = @ + (n - SucceededTotal)]
                       /\ FollowTotal(n)
                  ELSE UNCHANGED <<orderVars, paymentStatus, booked>>
  BY <1>3 DEF RefundFromGatewayEvent, Books
<1>6. ASSUME Books(e)
      PROVE  /\ booked' \in [TxIds -> Nat]
             /\ booked'[t] > 0
             /\ \A u \in TxIds : u # t => booked'[u] = booked[u]
             /\ SumFunction(booked') = SumFunction(booked) + n - SucceededTotal
             /\ FollowTotal(n)
  <2>1. n > SucceededTotal /\ SucceededTotal \in Nat /\ SumFunction(booked) \in Nat
          /\ SumFunction(booked) = SumFunctionOnSet(booked, TxIds)
    BY <1>3, <1>6, Totals DEF Books, SucceededTotal
  <2> DEFINE more == n - SucceededTotal
  <2>2. more \in Nat /\ more > 0
    BY <2>1
  <2> HIDE DEF more
  <2>3. booked' = [booked EXCEPT ![t] = @ + more] /\ FollowTotal(n)
    BY <1>5, <1>6 DEF more
  <2>4. booked \in [TxIds -> Nat] /\ booked[t] \in Nat
    BY DEF StripeTypeOK
  <2>5. booked[t] + more \in Nat /\ booked[t] + more > 0
    BY <2>2, <2>4
  <2>6. booked' \in [TxIds -> Nat] /\ booked'[t] = booked[t] + more
          /\ \A u \in TxIds : u # t => booked'[u] = booked[u]
    BY <2>3, <2>4, <2>5
  <2>7. \A u \in TxIds : booked[u] \in Nat /\ booked'[u] \in Nat
    BY <2>4, <2>6
  <2>8. SumFunctionOnSet(booked', TxIds) = SumFunctionOnSet(booked, TxIds) + booked'[t] - booked[t]
    BY <2>6, <2>7, TxIdsFinite, TermChanged
  <2>9. SumFunction(booked') = SumFunctionOnSet(booked', TxIds)
    <3>1. DOMAIN booked' = TxIds  BY <2>6
    <3> QED BY <3>1 DEF SumFunction
  <2>10. SumFunction(booked') = SumFunction(booked) + more
    BY <2>1, <2>2, <2>4, <2>6, <2>8, <2>9
  <2>11. SumFunction(booked') = SumFunction(booked) + n - SucceededTotal
    BY <2>1, <2>10 DEF more
  <2> QED BY <2>3, <2>5, <2>6, <2>11
<1> QED BY <1>3, <1>4, <1>5, <1>6

\* A refund made at the dashboard.
LEMMA DashboardEffect ==
  ASSUME MoneyInv, NEW d \in Dashboard, NEW amount \in Sums, DashboardRefund(d, amount)
  PROVE  /\ returned[d] = 0 /\ d \in TxIds /\ d \notin Refunds /\ amount \in Nat
         /\ ReturnMoney(d, amount)
         /\ UNCHANGED <<online, paymentStatus, refund, call, handled, booked>>
BY RefundsAssumption, MoneyAssumption DEF DashboardRefund, TxIds, refundVars, eventVars

\* Money that is returned for a row.
LEMMA MoneyReturnedEffect ==
  ASSUME MoneyInv, NEW r \in Refunds, MoneyReturned(r)
  PROVE  /\ returned[r] = 0 /\ r \in TxIds /\ AmountOf[r] \in Nat
         /\ ReturnMoney(r, AmountOf[r])
         /\ call[r] = "gateway" /\ call'[r] \in {"succeeded", "failed"}
         /\ \A s \in Refunds : s # r => call'[s] = call[s]
         /\ UNCHANGED <<online, paymentStatus, refund, handled, booked>>
<1>1. returned[r] = 0 /\ r \in TxIds
  BY DEF MoneyReturned, MoneyInv, UnpaidYet, TxIds
<1>2. AmountOf[r] \in Nat
  BY RowsHaveAmounts DEF MoneyInv, IInv
<1> QED BY <1>1, <1>2 DEF MoneyReturned, SetCall, MoneyInv, IInv, RowsTypeOK

\* A call that comes to an end, or hears an error, is idle or failed.
LEMMA CallOver ==
  ASSUME IInv, NEW r \in Refunds, RowSettled(r) \/ RowFailed(r) \/ CallDropped(r)
  PROVE  /\ call[r] # "idle" /\ call'[r] \in {"idle", "failed"}
         /\ \A s \in Refunds : s # r => call'[s] = call[s]
BY DEF RowSettled, RowFailed, CallDropped, Settle, SetCall, IInv, RowsTypeOK

LEMMA MoneyInvInit == Init => MoneyInv
<1> SUFFICES ASSUME Init PROVE MoneyInv
  OBVIOUS
<1>1. IInv
  BY IInvInit
<1>2. StripeTypeOK /\ UnpaidYet
  BY DEF Init, StripeTypeOK, UnpaidYet, TxIds
<1> QED BY <1>1, <1>2 DEF MoneyInv

LEMMA MoneyInvStep == MoneyInv /\ [Next]_vars => MoneyInv'
<1> SUFFICES ASSUME MoneyInv, [Next]_vars PROVE MoneyInv'
  OBVIOUS
<1>0. IInv /\ IInv' /\ RowsTypeOK /\ StripeTypeOK
  BY IInvStep DEF MoneyInv, IInv
<1>1. ASSUME NEW r \in Refunds, RowInserted(r) PROVE StripeTypeOK' /\ UnpaidYet'
  <2>1. /\ refund[r].status = "NONE" /\ refund'[r].status = "PENDING"
        /\ \A s \in Refunds : s # r => refund'[s] = refund[s] /\ call'[s] = call[s]
    BY <1>0, <1>1, RowInsertedEffect
  <2>2. MoneyUntouched
    BY <1>1 DEF RowInserted
  <2> QED BY <2>1, <2>2 DEF MoneyUntouched, MoneyInv, StripeTypeOK, UnpaidYet
<1>2. ASSUME NEW r \in Refunds, RowSettled(r) \/ RowFailed(r) \/ CallDropped(r)
      PROVE  StripeTypeOK' /\ UnpaidYet'
  <2>1. UNCHANGED <<returned, sent, handled, booked>>
    BY <1>2 DEF RowSettled, RowFailed, CallDropped, MoneyUntouched
  <2>2. /\ call[r] # "idle" /\ call'[r] \in {"idle", "failed"}
        /\ \A s \in Refunds : s # r => call'[s] = call[s]
    BY <1>0, <1>2, CallOver
  <2>3. /\ refund'[r].status # "NONE"
        /\ \A s \in Refunds : s # r => refund'[s] = refund[s]
    <3>1. CASE CallDropped(r)
      BY <1>0, <2>2, <3>1 DEF CallDropped, IInv, CallsMatch
    <3>2. CASE RowSettled(r) \/ RowFailed(r)
      <4>1. PICK status \in {"SUCCEEDED", "FAILED"} : SetRefundStatus(r, status)
        BY <3>2 DEF RowSettled, RowFailed, Settle
      <4> QED BY <1>0, <2>2, <4>1, RowDecidedEffect
    <3> QED BY <1>2, <3>1, <3>2
  <2> QED BY <2>1, <2>2, <2>3 DEF MoneyInv, StripeTypeOK, UnpaidYet
<1>3. ASSUME NEW r \in Refunds, MoneyReturned(r) PROVE StripeTypeOK' /\ UnpaidYet'
  <2>1. /\ returned[r] = 0 /\ r \in TxIds /\ AmountOf[r] \in Nat
        /\ ReturnMoney(r, AmountOf[r])
        /\ call[r] = "gateway" /\ call'[r] \in {"succeeded", "failed"}
        /\ \A s \in Refunds : s # r => call'[s] = call[s]
        /\ UNCHANGED <<online, paymentStatus, refund, handled, booked>>
    BY <1>3, MoneyReturnedEffect
  <2>2. /\ returned' \in [TxIds -> Nat] /\ sent' \subseteq Event /\ sent \subseteq sent'
        /\ \A u \in TxIds : u # r => returned'[u] = returned[u]
    BY <1>0, <2>1, ReturnMoneyEffect
  <2>3. refund'[r].status # "NONE"
    BY <1>0, <2>1 DEF IInv, CallsMatch
  <2> QED BY <2>1, <2>2, <2>3 DEF MoneyInv, StripeTypeOK, UnpaidYet, TxIds
<1>4. ASSUME NEW d \in Dashboard, NEW amount \in Sums, DashboardRefund(d, amount)
      PROVE  StripeTypeOK' /\ UnpaidYet'
  <2>1. /\ returned[d] = 0 /\ d \in TxIds /\ d \notin Refunds /\ amount \in Nat
        /\ ReturnMoney(d, amount)
        /\ UNCHANGED <<online, paymentStatus, refund, call, handled, booked>>
    BY <1>4, DashboardEffect
  <2>2. /\ returned' \in [TxIds -> Nat] /\ sent' \subseteq Event /\ sent \subseteq sent'
        /\ \A u \in TxIds : u # d => returned'[u] = returned[u]
    BY <1>0, <2>1, ReturnMoneyEffect
  <2> QED BY <2>1, <2>2 DEF MoneyInv, StripeTypeOK, UnpaidYet, TxIds
<1>5. ASSUME NEW e \in sent, RefundFromGatewayEvent(e) PROVE StripeTypeOK' /\ UnpaidYet'
  <2>1. /\ handled' = handled \cup {e}
        /\ UNCHANGED <<online, refund, call, returned, sent>>
        /\ booked' \in [TxIds -> Nat]
    BY <1>0, <1>5, GatewayEventEffect DEF StripeTypeOK
  <2> QED BY <2>1 DEF MoneyInv, StripeTypeOK, UnpaidYet
<1>6. ASSUME BooksUntouched PROVE StripeTypeOK' /\ UnpaidYet'
  BY <1>6 DEF BooksUntouched, MoneyUntouched, refundVars, MoneyInv, StripeTypeOK, UnpaidYet
<1>7. StripeTypeOK' /\ UnpaidYet'
  BY <1>0, <1>1, <1>2, <1>3, <1>4, <1>5, <1>6, BooksStep
<1> QED BY <1>0, <1>7 DEF MoneyInv

LEMMA AlwaysMoneyInv == Spec => []MoneyInv
BY MoneyInvInit, MoneyInvStep, PTL DEF Spec

\* Rows, processes, Stripe's balances, events and books keep their types: no
\* booked amount is negative, however late an event comes.
THEOREM RefundsTypeCorrect == Spec => []TypeOK
<1>1. MoneyInv => TypeOK
  BY DEF MoneyInv, IInv, StripeTypeOK, TypeOK
<1> QED BY AlwaysMoneyInv, <1>1, PTL

-----------------------------------------------------------------------------
\* A new row adds its term to the committed rows and none to the succeeded.
LEMMA InsertedSum ==
  ASSUME IInv, NEW r \in Refunds, RowInserted(r), NEW f, NEW g,
         \A s \in Refunds : f[s] \in Nat /\ g[s] \in Nat,
         \A s \in Refunds : s # r => f[s] = g[s]
  PROVE  /\ SumFunctionOnSet(g, RefundsIn(CommittedStatuses)') =
              g[r] + SumFunctionOnSet(f, RefundsIn(CommittedStatuses))
         /\ SumFunctionOnSet(g, RefundsIn({"SUCCEEDED"})') =
              SumFunctionOnSet(f, RefundsIn({"SUCCEEDED"}))
<1> DEFINE open    == RefundsIn(CommittedStatuses)
           settled == RefundsIn({"SUCCEEDED"})
<1>1. /\ r \notin open /\ RefundsIn(CommittedStatuses)' = open \cup {r}
      /\ r \notin settled /\ RefundsIn({"SUCCEEDED"})' = settled
  BY RowInsertedEffect DEF RefundsIn
<1>2. IsFiniteSet(open) /\ open \subseteq Refunds /\ IsFiniteSet(settled) /\ settled \subseteq Refunds
  BY RowSetsFinite
<1> HIDE DEF open, settled
<1>3. SumFunctionOnSet(g, open \cup {r}) = g[r] + SumFunctionOnSet(g, open)
  BY <1>1, <1>2, TermAdded
<1>4. SumFunctionOnSet(g, open) = SumFunctionOnSet(f, open)
        /\ SumFunctionOnSet(g, settled) = SumFunctionOnSet(f, settled)
  <2>1. (\A s \in open : g[s] = f[s]) /\ (\A s \in settled : g[s] = f[s])
    BY <1>1, <1>2
  <2> QED BY <1>2, <2>1, SameTermsSameSum
<1>5. SumFunctionOnSet(g, RefundsIn(CommittedStatuses)') = g[r] + SumFunctionOnSet(f, open)
        /\ SumFunctionOnSet(g, RefundsIn({"SUCCEEDED"})') = SumFunctionOnSet(f, settled)
  BY <1>1, <1>3, <1>4
<1> QED BY <1>5 DEF open, settled

\* A row that is decided leaves the committed rows when it failed, and joins
\* the succeeded ones when it did not.
LEMMA DecidedSum ==
  ASSUME IInv, NEW r \in Refunds, call[r] # "idle",
         NEW status \in {"SUCCEEDED", "FAILED"}, SetRefundStatus(r, status),
         NEW f, \A s \in Refunds : f[s] \in Nat
  PROVE  /\ status = "FAILED" =>
              /\ SumFunctionOnSet(f, RefundsIn(CommittedStatuses)') =
                   SumFunctionOnSet(f, RefundsIn(CommittedStatuses)) - f[r]
              /\ SumFunctionOnSet(f, RefundsIn({"SUCCEEDED"})') =
                   SumFunctionOnSet(f, RefundsIn({"SUCCEEDED"}))
         /\ status = "SUCCEEDED" =>
              /\ SumFunctionOnSet(f, RefundsIn(CommittedStatuses)') =
                   SumFunctionOnSet(f, RefundsIn(CommittedStatuses))
              /\ SumFunctionOnSet(f, RefundsIn({"SUCCEEDED"})') =
                   SumFunctionOnSet(f, RefundsIn({"SUCCEEDED"})) + f[r]
         /\ SumFunctionOnSet(f, RefundsIn(CommittedStatuses)) \in Nat
         /\ SumFunctionOnSet(f, RefundsIn({"SUCCEEDED"})) \in Nat
<1> DEFINE open    == RefundsIn(CommittedStatuses)
           settled == RefundsIn({"SUCCEEDED"})
<1>1. /\ r \in open /\ r \notin settled
      /\ RefundsIn(CommittedStatuses)' = IF status = "FAILED" THEN open \ {r} ELSE open
      /\ RefundsIn({"SUCCEEDED"})' = IF status = "FAILED" THEN settled ELSE settled \cup {r}
  BY RowDecidedEffect
<1>2. IsFiniteSet(open) /\ open \subseteq Refunds /\ IsFiniteSet(settled) /\ settled \subseteq Refunds
  BY RowSetsFinite
<1> HIDE DEF open, settled
<1>3. SumFunctionOnSet(f, open) = f[r] + SumFunctionOnSet(f, open \ {r})
  BY <1>1, <1>2, AnyTermFirst
<1>4. SumFunctionOnSet(f, settled \cup {r}) = f[r] + SumFunctionOnSet(f, settled)
  BY <1>1, <1>2, TermAdded
<1>5. SumFunctionOnSet(f, open) \in Nat /\ SumFunctionOnSet(f, open \ {r}) \in Nat
        /\ SumFunctionOnSet(f, settled) \in Nat /\ f[r] \in Nat
  <2>1. IsFiniteSet(open \ {r})
    BY <1>2, FS_RemoveElement
  <2> QED BY <1>2, <2>1, SumIsNat
<1>6. ASSUME status = "FAILED"
      PROVE  /\ SumFunctionOnSet(f, RefundsIn(CommittedStatuses)') = SumFunctionOnSet(f, open) - f[r]
             /\ SumFunctionOnSet(f, RefundsIn({"SUCCEEDED"})') = SumFunctionOnSet(f, settled)
  <2>1. RefundsIn(CommittedStatuses)' = open \ {r} /\ RefundsIn({"SUCCEEDED"})' = settled
    BY <1>1, <1>6
  <2>2. SumFunctionOnSet(f, open \ {r}) = SumFunctionOnSet(f, open) - f[r]
    BY <1>3, <1>5
  <2> QED BY <2>1, <2>2
<1>7. ASSUME status = "SUCCEEDED"
      PROVE  /\ SumFunctionOnSet(f, RefundsIn(CommittedStatuses)') = SumFunctionOnSet(f, open)
             /\ SumFunctionOnSet(f, RefundsIn({"SUCCEEDED"})') = SumFunctionOnSet(f, settled) + f[r]
  <2>1. RefundsIn(CommittedStatuses)' = open /\ RefundsIn({"SUCCEEDED"})' = settled \cup {r}
    BY <1>1, <1>7
  <2> QED BY <1>4, <1>5, <2>1
<1> QED BY <1>5, <1>6, <1>7 DEF open, settled

\* createRefund, whoever calls it and whatever races it, never commits more
\* pieces of an item than were ordered.
THEOREM NeverRefundsTwice == Spec => []NeverRefundedTwice
<1>1. Init => NeverRefundedTwice
  <2> SUFFICES ASSUME Init, NEW i \in Items PROVE CommittedQty(i) <= Ordered[i]
    BY DEF NeverRefundedTwice
  <2>1. RefundsIn(CommittedStatuses) = {}
    BY DEF Init, RefundsIn, CommittedStatuses, NoRefund
  <2>2. CommittedQty(i) = 0
    BY <2>1, SumOfNothing DEF CommittedQty
  <2> QED BY <2>2, ItemsAssumption
<1>2. NeverRefundedTwice /\ IInv /\ IInv' /\ [Next]_vars => NeverRefundedTwice'
  <2> SUFFICES ASSUME NeverRefundedTwice, IInv, IInv', [Next]_vars, NEW i \in Items
               PROVE  CommittedQty(i)' <= Ordered[i]
    BY DEF NeverRefundedTwice
  <2> DEFINE f == [s \in Refunds |-> refund[s].items[i]]
             g == [s \in Refunds |-> refund'[s].items[i]]
  <2>1. (\A s \in Refunds : f[s] \in Nat /\ f[s] = refund[s].items[i])
          /\ (\A s \in Refunds : g[s] \in Nat /\ g[s] = refund'[s].items[i])
    <3>1. (\A s \in Refunds : refund[s].items[i] \in Nat)
      BY RowsHaveAmounts DEF IInv
    <3>2. (\A s \in Refunds : refund'[s].items[i] \in Nat)
      BY RowsStillHaveAmounts DEF IInv
    <3> QED BY <3>1, <3>2
  <2>2. CommittedQty(i) = SumFunctionOnSet(f, RefundsIn(CommittedStatuses))
          /\ CommittedQty(i)' = SumFunctionOnSet(g, RefundsIn(CommittedStatuses)')
          /\ CommittedQty(i) \in Nat /\ CommittedQty(i) <= Ordered[i] /\ Ordered[i] \in Nat
    <3>1. CommittedQty(i) = SumFunctionOnSet(f, RefundsIn(CommittedStatuses))
            /\ CommittedQty(i)' = SumFunctionOnSet(g, RefundsIn(CommittedStatuses)')
      BY DEF CommittedQty
    <3> HIDE DEF f, g
    <3>2. \A s \in RefundsIn(CommittedStatuses) : f[s] \in Nat
      BY <2>1, RowSetsFinite
    <3> QED BY <3>1, <3>2, RowSetsFinite, SumIsNat, ItemsAssumption DEF NeverRefundedTwice
  <2>3. UNCHANGED refund => f = g /\ UNCHANGED RefundsIn(CommittedStatuses)
    BY DEF RefundsIn
  <2>4. ASSUME NEW r \in Refunds, RowInserted(r) PROVE CommittedQty(i)' <= Ordered[i]
    <3>1. /\ \A s \in Refunds : s # r => refund'[s] = refund[s]
          /\ Refundable(refund'[r].items, Nothing)
      BY <2>4, RowInsertedEffect
    <3>2. g[r] > 0 => g[r] + 0 + CommittedQty(i) <= Ordered[i]
      BY <2>1, <3>1 DEF Refundable, Nothing
    <3>3. \A s \in Refunds : s # r => f[s] = g[s]
      BY <3>1
    <3> HIDE DEF f, g
    <3>4. CommittedQty(i)' = g[r] + CommittedQty(i)
      BY <2>1, <2>2, <2>4, <3>3, InsertedSum
    <3>5. g[r] \in Nat
      BY <2>1
    <3> QED BY <2>2, <3>2, <3>4, <3>5
  <2>5. ASSUME NEW r \in Refunds, RowSettled(r) \/ RowFailed(r) PROVE CommittedQty(i)' <= Ordered[i]
    <3>1. PICK status \in {"SUCCEEDED", "FAILED"} : SetRefundStatus(r, status)
      BY <2>5 DEF RowSettled, RowFailed, Settle
    <3>2. call[r] # "idle"
      BY <2>5, CallOver
    <3>3. \A s \in Refunds : refund'[s].items = refund[s].items
      BY <3>1, <3>2, RowDecidedEffect
    <3>4. f = g
      BY <3>3
    <3> HIDE DEF f, g
    <3>5. f[r] \in Nat /\ CommittedQty(i)' \in {CommittedQty(i) - f[r], CommittedQty(i)}
      BY <2>1, <2>2, <3>1, <3>2, <3>4, DecidedSum
    <3> QED BY <2>2, <3>5
  <2>6. ASSUME UNCHANGED refund PROVE CommittedQty(i)' <= Ordered[i]
    BY <2>2, <2>3, <2>6
  <2>7. \A r \in Refunds : MoneyReturned(r) \/ CallDropped(r) => UNCHANGED refund
    BY DEF MoneyReturned, CallDropped
  <2>8. \/ \E d \in Dashboard, amount \in Sums : DashboardRefund(d, amount)
        \/ \E e \in sent : RefundFromGatewayEvent(e)
        \/ BooksUntouched
        => UNCHANGED refund
    BY DEF DashboardRefund, RefundFromGatewayEvent, BooksUntouched, refundVars
  <2> HIDE DEF f, g
  <2> QED BY <2>4, <2>5, <2>6, <2>7, <2>8, BooksStep
<1> QED BY <1>1, <1>2, AlwaysIInv, PTL DEF Spec

-----------------------------------------------------------------------------
\* The total of the books, step by step.
LEMMA InsertedTotal ==
  ASSUME MoneyInv, IInv', NEW r \in Refunds, RowInserted(r)
  PROVE  /\ SucceededTotal' = SucceededTotal /\ NothingSettled' = NothingSettled
         /\ SumFunctionOnSet(AmountOf', RefundsIn(CommittedStatuses)') =
              AmountOf'[r] + SumFunctionOnSet(AmountOf, RefundsIn(CommittedStatuses))
         /\ \A s \in Refunds : s # r => AmountOf'[s] = AmountOf[s]
<1>1. booked' = booked
  BY DEF RowInserted, MoneyUntouched
<1>2. /\ \A s \in Refunds : s # r => refund'[s] = refund[s]
      /\ RefundsIn({"SUCCEEDED"})' = RefundsIn({"SUCCEEDED"})
  BY RowInsertedEffect DEF MoneyInv
<1>3. \A s \in Refunds : s # r => AmountOf'[s] = AmountOf[s]
  BY <1>2 DEF AmountOf
<1>4. (\A s \in Refunds : AmountOf[s] \in Nat) /\ (\A s \in Refunds : AmountOf'[s] \in Nat)
  BY RowsHaveAmounts, RowsStillHaveAmounts DEF MoneyInv, IInv
<1>5. /\ SumFunctionOnSet(AmountOf', RefundsIn(CommittedStatuses)') =
           AmountOf'[r] + SumFunctionOnSet(AmountOf, RefundsIn(CommittedStatuses))
      /\ SumFunctionOnSet(AmountOf', RefundsIn({"SUCCEEDED"})') =
           SumFunctionOnSet(AmountOf, RefundsIn({"SUCCEEDED"}))
  BY <1>3, <1>4, InsertedSum DEF MoneyInv
<1>6. SucceededTotal' = SucceededTotal
  BY <1>1, <1>5 DEF SucceededTotal, RefundSum
<1>7. NothingSettled' = NothingSettled
  BY <1>1, <1>2 DEF NothingSettled
<1> QED BY <1>3, <1>5, <1>6, <1>7

LEMMA DecidedTotal ==
  ASSUME MoneyInv, NEW r \in Refunds, call[r] # "idle",
         NEW status \in {"SUCCEEDED", "FAILED"}, SetRefundStatus(r, status), booked' = booked
  PROVE  /\ status = "SUCCEEDED" => /\ SucceededTotal' = SucceededTotal + AmountOf[r]
                                    /\ ~NothingSettled'
         /\ status = "FAILED" => SucceededTotal' = SucceededTotal /\ NothingSettled' = NothingSettled
         /\ AmountOf' = AmountOf
<1>1. AmountOf' = AmountOf /\ (\A s \in Refunds : AmountOf[s] \in Nat)
  BY RowDecidedEffect, RowsHaveAmounts DEF MoneyInv, IInv
<1>2. /\ status = "FAILED" =>
           SumFunctionOnSet(AmountOf, RefundsIn({"SUCCEEDED"})') =
             SumFunctionOnSet(AmountOf, RefundsIn({"SUCCEEDED"}))
      /\ status = "SUCCEEDED" =>
           SumFunctionOnSet(AmountOf, RefundsIn({"SUCCEEDED"})') =
             SumFunctionOnSet(AmountOf, RefundsIn({"SUCCEEDED"})) + AmountOf[r]
      /\ SumFunctionOnSet(AmountOf, RefundsIn({"SUCCEEDED"})) \in Nat
  BY <1>1, DecidedSum DEF MoneyInv
<1>3. /\ status = "FAILED" => RefundsIn({"SUCCEEDED"})' = RefundsIn({"SUCCEEDED"})
      /\ status = "SUCCEEDED" => r \in RefundsIn({"SUCCEEDED"})'
  BY RowDecidedEffect DEF MoneyInv
<1>4. /\ SucceededTotal = SumFunctionOnSet(AmountOf, RefundsIn({"SUCCEEDED"})) + SumFunction(booked)
      /\ SucceededTotal' = SumFunctionOnSet(AmountOf, RefundsIn({"SUCCEEDED"})') + SumFunction(booked)
  BY <1>1 DEF SucceededTotal, RefundSum
<1>5. SumFunction(booked) \in Nat /\ AmountOf[r] \in Nat
  BY <1>1, Totals DEF MoneyInv, IInv
<1>6. status = "FAILED" => SucceededTotal' = SucceededTotal /\ NothingSettled' = NothingSettled
  BY <1>2, <1>3, <1>4 DEF NothingSettled
<1>7. status = "SUCCEEDED" => SucceededTotal' = SucceededTotal + AmountOf[r] /\ ~NothingSettled'
  BY <1>2, <1>3, <1>4, <1>5 DEF NothingSettled
<1> QED BY <1>1, <1>6, <1>7

LEMMA BookedTotal ==
  ASSUME MoneyInv, NEW e \in sent, RefundFromGatewayEvent(e)
  PROVE  /\ Books(e) => SucceededTotal' = e.total /\ ~NothingSettled'
         /\ ~Books(e) => SucceededTotal' = SucceededTotal /\ NothingSettled' = NothingSettled
         /\ AmountOf' = AmountOf
<1>1. /\ e.latest \in TxIds /\ e.total \in Nat /\ refund' = refund
      /\ Books(e) => /\ booked' \in [TxIds -> Nat]
                     /\ booked'[e.latest] > 0
                     /\ SumFunction(booked') = SumFunction(booked) + e.total - SucceededTotal
      /\ ~Books(e) => booked' = booked
  BY GatewayEventEffect DEF MoneyInv, IInv
<1>2. AmountOf' = AmountOf /\ RefundsIn({"SUCCEEDED"})' = RefundsIn({"SUCCEEDED"})
  BY <1>1 DEF AmountOf, RefundsIn
<1>3. /\ SucceededTotal = SumFunctionOnSet(AmountOf, RefundsIn({"SUCCEEDED"})) + SumFunction(booked)
      /\ SucceededTotal' = SumFunctionOnSet(AmountOf, RefundsIn({"SUCCEEDED"})) + SumFunction(booked')
  BY <1>2 DEF SucceededTotal, RefundSum
<1>4. SumFunction(booked) \in Nat /\ SumFunctionOnSet(AmountOf, RefundsIn({"SUCCEEDED"})) \in Nat
  BY Totals DEF MoneyInv, IInv
<1>5. ~Books(e) => SucceededTotal' = SucceededTotal /\ NothingSettled' = NothingSettled
  BY <1>1, <1>2, <1>3 DEF NothingSettled
<1>6. Books(e) => ~NothingSettled'
  <2> SUFFICES ASSUME Books(e) PROVE booked'[e.latest] # 0
    BY <1>1 DEF NothingSettled
  <2> QED BY <1>1
<1>7. Books(e) => SucceededTotal' = e.total
  BY <1>1, <1>3, <1>4
<1> QED BY <1>2, <1>5, <1>6, <1>7

LEMMA SameTotal ==
  ASSUME UNCHANGED <<refund, booked>>
  PROVE  SucceededTotal' = SucceededTotal /\ NothingSettled' = NothingSettled /\ AmountOf' = AmountOf
<1>1. AmountOf' = AmountOf /\ \A statuses : RefundsIn(statuses)' = RefundsIn(statuses)
  BY DEF AmountOf, RefundsIn
<1> QED BY <1>1 DEF SucceededTotal, RefundSum, NothingSettled, RefundsIn

\* The status of a payment of which `total` has been refunded.
LEMMA FollowedStatus ==
  ASSUME NEW total, FollowTotal(total)
  PROVE  paymentStatus' = IF total >= Charged THEN "REFUNDED" ELSE "PARTIALLY_REFUNDED"
BY DEF FollowTotal

-----------------------------------------------------------------------------
\* The status of the payment is the one its books call for.
LEMMA PaymentAlwaysFollowsBooks == Spec => []PaymentFollowsBooks
<1>1. Init => PaymentFollowsBooks
  <2> SUFFICES ASSUME Init PROVE PaymentFollowsBooks
    OBVIOUS
  <2>1. NothingSettled /\ paymentStatus = "COMPLETED"
    BY DEF Init, NothingSettled, RefundsIn, NoRefund
  <2> QED BY <2>1 DEF PaymentFollowsBooks
<1>2. PaymentFollowsBooks /\ MoneyInv /\ MoneyInv' /\ [Next]_vars => PaymentFollowsBooks'
  <2> SUFFICES ASSUME PaymentFollowsBooks, MoneyInv, MoneyInv', [Next]_vars
               PROVE  PaymentFollowsBooks'
    OBVIOUS
  <2>0. IInv /\ IInv'
    BY DEF MoneyInv
  <2>1. ASSUME SucceededTotal' = SucceededTotal, NothingSettled' = NothingSettled,
               paymentStatus' = paymentStatus
        PROVE  PaymentFollowsBooks'
    BY <2>1 DEF PaymentFollowsBooks
  <2>2. ASSUME ~NothingSettled', FollowTotal(SucceededTotal')
        PROVE  PaymentFollowsBooks'
    BY <2>2, FollowedStatus DEF PaymentFollowsBooks
  <2>3. ASSUME NEW r \in Refunds, RowInserted(r) PROVE PaymentFollowsBooks'
    BY <2>0, <2>1, <2>3, InsertedTotal DEF RowInserted, MoneyUntouched
  <2>4. ASSUME NEW r \in Refunds, RowSettled(r) PROVE PaymentFollowsBooks'
    <3>1. SetRefundStatus(r, "SUCCEEDED") /\ FollowTotal(SucceededTotal + AmountOf[r])
            /\ booked' = booked
      BY <2>4 DEF RowSettled, Settle
    <3>2. SucceededTotal' = SucceededTotal + AmountOf[r] /\ ~NothingSettled'
      BY <2>0, <2>4, <3>1, CallOver, DecidedTotal
    <3> QED BY <2>2, <3>1, <3>2
  <2>5. ASSUME NEW r \in Refunds, RowFailed(r) PROVE PaymentFollowsBooks'
    <3>1. SetRefundStatus(r, "FAILED") /\ booked' = booked /\ paymentStatus' = paymentStatus
      BY <2>5 DEF RowFailed, MoneyUntouched
    <3>2. SucceededTotal' = SucceededTotal /\ NothingSettled' = NothingSettled
      BY <2>0, <2>5, <3>1, CallOver, DecidedTotal
    <3> QED BY <2>1, <3>1, <3>2
  <2>6. ASSUME UNCHANGED <<refund, booked, paymentStatus>> PROVE PaymentFollowsBooks'
    BY <2>1, <2>6, SameTotal
  <2>7. ASSUME NEW e \in sent, RefundFromGatewayEvent(e) PROVE PaymentFollowsBooks'
    <3>1. CASE Books(e)
      BY <2>0, <2>2, <2>7, <3>1, BookedTotal, GatewayEventEffect DEF MoneyInv, IInv
    <3>2. CASE ~Books(e)
      BY <2>0, <2>1, <2>7, <3>2, BookedTotal, GatewayEventEffect DEF MoneyInv, IInv
    <3> QED BY <3>1, <3>2
  <2>8. /\ \A r \in Refunds : MoneyReturned(r) \/ CallDropped(r)
             => UNCHANGED <<refund, booked, paymentStatus>>
        /\ \A d \in Dashboard, amount \in Sums : DashboardRefund(d, amount)
             => UNCHANGED <<refund, booked, paymentStatus>>
        /\ BooksUntouched => UNCHANGED <<refund, booked, paymentStatus>>
    BY DEF MoneyReturned, CallDropped, DashboardRefund, BooksUntouched, MoneyUntouched,
       refundVars, eventVars
  <2> QED BY <2>0, <2>3, <2>4, <2>5, <2>6, <2>7, <2>8, BooksStep
<1> QED BY <1>1, <1>2, AlwaysMoneyInv, PTL DEF Spec

\* The answer of a gateway that succeeded is about the amount asked for.
PaidAsAsked ==
  online => \A r \in Refunds : call[r] = "succeeded" => returned[r] = AmountOf[r]

\* A row that has succeeded has moved its amount.
LEMMA SucceededAlwaysReturned == Spec => []SucceededRefundReturned
<1> DEFINE Inv == PaidAsAsked /\ SucceededRefundReturned
<1>1. Init => Inv
  BY DEF Init, PaidAsAsked, SucceededRefundReturned, NoRefund
<1>2. Inv /\ MoneyInv /\ MoneyInv' /\ [Next]_vars => Inv'
  <2> SUFFICES ASSUME Inv, MoneyInv, MoneyInv', [Next]_vars, online',
                      NEW s \in Refunds
               PROVE  call'[s] = "succeeded" \/ refund'[s].status = "SUCCEEDED"
                        => returned'[s] = AmountOf'[s]
    BY DEF PaidAsAsked, SucceededRefundReturned
  <2>0. IInv /\ IInv' /\ s \in TxIds /\ StripeTypeOK /\ RowsTypeOK
    BY DEF MoneyInv, IInv, TxIds
  <2>1. online' = online
    BY <2>0, BooksStep DEF RowInserted, RowSettled, RowFailed, MoneyReturned, CallDropped,
       DashboardRefund, RefundFromGatewayEvent, BooksUntouched, MoneyUntouched
  <2>2. call[s] = "succeeded" \/ refund[s].status = "SUCCEEDED" => returned[s] = AmountOf[s]
    BY <2>1 DEF PaidAsAsked, SucceededRefundReturned
  <2>3. ASSUME NEW r \in Refunds, RowInserted(r)
        PROVE  call'[s] = "succeeded" \/ refund'[s].status = "SUCCEEDED"
                 => returned'[s] = AmountOf'[s]
    <3>1. /\ refund'[r].status = "PENDING" /\ call'[r] = "gateway"
          /\ \A t \in Refunds : t # r => /\ refund'[t] = refund[t] /\ call'[t] = call[t]
                                         /\ AmountOf'[t] = AmountOf[t]
      BY <2>0, <2>1, <2>3, RowInsertedEffect, InsertedTotal
    <3>2. returned' = returned
      BY <2>3 DEF RowInserted, MoneyUntouched
    <3> QED BY <2>2, <3>1, <3>2
  <2>4. ASSUME NEW r \in Refunds, RowSettled(r) \/ RowFailed(r)
        PROVE  call'[s] = "succeeded" \/ refund'[s].status = "SUCCEEDED"
                 => returned'[s] = AmountOf'[s]
    <3>1. PICK status \in {"SUCCEEDED", "FAILED"} :
            SetRefundStatus(r, status) /\ (status = "SUCCEEDED" => call[r] = "succeeded")
      BY <2>4 DEF RowSettled, RowFailed, Settle
    <3>2. /\ call[r] # "idle" /\ call'[r] \in {"idle", "failed"}
          /\ \A t \in Refunds : t # r => call'[t] = call[t]
      BY <2>0, <2>4, CallOver
    <3>3. /\ refund'[r].status = status /\ AmountOf' = AmountOf
          /\ \A t \in Refunds : t # r => refund'[t] = refund[t]
      BY <2>0, <3>1, <3>2, RowDecidedEffect
    <3>4. returned' = returned
      BY <2>4 DEF RowSettled, RowFailed, MoneyUntouched
    <3> QED BY <2>2, <3>1, <3>2, <3>3, <3>4
  <2>5. ASSUME NEW r \in Refunds, MoneyReturned(r)
        PROVE  call'[s] = "succeeded" \/ refund'[s].status = "SUCCEEDED"
                 => returned'[s] = AmountOf'[s]
    <3>1. /\ returned[r] = 0 /\ r \in TxIds /\ AmountOf[r] \in Nat
          /\ ReturnMoney(r, AmountOf[r])
          /\ \A t \in Refunds : t # r => call'[t] = call[t]
          /\ UNCHANGED <<refund, booked>>
      BY <2>5, MoneyReturnedEffect
    <3>2. returned'[r] = AmountOf[r] /\ \A u \in TxIds : u # r => returned'[u] = returned[u]
      BY <2>0, <3>1, ReturnMoneyEffect
    <3>3. AmountOf' = AmountOf
      BY <3>1, SameTotal
    <3> QED BY <2>0, <2>2, <3>1, <3>2, <3>3
  <2>6. ASSUME NEW r \in Refunds, CallDropped(r)
        PROVE  call'[s] = "succeeded" \/ refund'[s].status = "SUCCEEDED"
                 => returned'[s] = AmountOf'[s]
    <3>1. /\ call'[r] \in {"idle", "failed"}
          /\ \A t \in Refunds : t # r => call'[t] = call[t]
      BY <2>0, <2>6, CallOver
    <3>2. UNCHANGED <<refund, booked, returned>>
      BY <2>6 DEF CallDropped, MoneyUntouched
    <3> QED BY <2>2, <3>1, <3>2, SameTotal
  <2>7. ASSUME NEW d \in Dashboard, NEW amount \in Sums, DashboardRefund(d, amount)
        PROVE  call'[s] = "succeeded" \/ refund'[s].status = "SUCCEEDED"
                 => returned'[s] = AmountOf'[s]
    <3>1. /\ returned[d] = 0 /\ d \in TxIds /\ d \notin Refunds /\ amount \in Nat
          /\ ReturnMoney(d, amount)
          /\ UNCHANGED <<refund, call, booked>>
      BY <2>7, DashboardEffect
    <3>2. \A u \in TxIds : u # d => returned'[u] = returned[u]
      BY <2>0, <3>1, ReturnMoneyEffect
    <3> QED BY <2>0, <2>2, <3>1, <3>2, SameTotal
  <2>8. ASSUME UNCHANGED <<refund, call, returned>>
        PROVE  call'[s] = "succeeded" \/ refund'[s].status = "SUCCEEDED"
                 => returned'[s] = AmountOf'[s]
    <3>1. AmountOf' = AmountOf  BY <2>8 DEF AmountOf
    <3> QED BY <2>2, <2>8, <3>1
  <2>9. /\ \A e \in sent : RefundFromGatewayEvent(e) => UNCHANGED <<refund, call, returned>>
        /\ BooksUntouched => UNCHANGED <<refund, call, returned>>
    BY DEF RefundFromGatewayEvent, BooksUntouched, MoneyUntouched, refundVars, stripeVars
  <2> HIDE DEF Inv
  <2> QED BY <2>0, <2>3, <2>4, <2>5, <2>6, <2>7, <2>8, <2>9, BooksStep
<1>3. Inv => SucceededRefundReturned
  OBVIOUS
<1> QED BY <1>1, <1>2, <1>3, AlwaysMoneyInv, PTL DEF Spec

\* The gateway, the rows of refunds and the status of the payment agree.
THEOREM RefundsAlwaysBooked == Spec => []RefundsAreBooked
<1>1. PaymentFollowsBooks /\ SucceededRefundReturned => RefundsAreBooked
  BY DEF RefundsAreBooked
<1> QED BY PaymentAlwaysFollowsBooks, SucceededAlwaysReturned, <1>1, PTL

-----------------------------------------------------------------------------
\* Every event names a refund that moved money and a total Stripe has reached;
\* some event carries the latest total; money is booked for such refunds only.
EventsMatch ==
  /\ ReturnedTotal <= Charged
  /\ \A e \in sent : e.total <= ReturnedTotal /\ returned[e.latest] > 0
  /\ ReturnedTotal > 0 => \E e \in sent : e.total = ReturnedTotal
  /\ \A t \in TxIds : booked[t] > 0 => returned[t] > 0

NoRefundsMade == \A r \in Refunds : refund[r].status = "NONE"

\* Where only the dashboard refunds, the books hold every total that was handled
\* or booked, and no more than was returned.
DashboardBooks ==
  NoRefundsMade =>
    /\ SucceededTotal <= ReturnedTotal
    /\ \A e, f \in sent : e.latest = f.latest => e = f
    /\ \A e \in sent : e \in handled \/ booked[e.latest] > 0 => e.total <= SucceededTotal

LEMMA EventsMatchInit == Init => EventsMatch /\ DashboardBooks
<1> SUFFICES ASSUME Init PROVE EventsMatch /\ DashboardBooks
  OBVIOUS
<1>1. /\ sent = {} /\ handled = {} /\ returned = [t \in TxIds |-> 0]
      /\ booked = [t \in TxIds |-> 0] /\ RefundsIn({"SUCCEEDED"}) = {}
  BY DEF Init, RefundsIn, NoRefund
<1>2. DOMAIN returned = TxIds /\ DOMAIN booked = TxIds
        /\ (\A t \in TxIds : returned[t] = 0) /\ (\A t \in TxIds : booked[t] = 0)
  BY <1>1
<1>3. ReturnedTotal = 0 /\ SumFunction(booked) = 0
  BY <1>2, TxIdsFinite, ZerosAddUpToZero DEF ReturnedTotal, SumFunction
<1>4. SucceededTotal = 0
  <2>1. SumFunctionOnSet(AmountOf, RefundsIn({"SUCCEEDED"})) = 0
    BY <1>1, SumOfNothing
  <2> QED BY <1>3, <2>1 DEF SucceededTotal, RefundSum
<1> QED BY <1>1, <1>2, <1>3, <1>4, MoneyAssumption DEF EventsMatch, DashboardBooks

\* Stripe returns money for a refund it has not returned any for.
LEMMA ReturnKeepsEvents ==
  ASSUME MoneyInv, EventsMatch, NEW t \in TxIds, NEW amount \in Nat, ReturnMoney(t, amount),
         returned[t] = 0, booked' = booked
  PROVE  EventsMatch'
<1>1. /\ returned'[t] = amount /\ amount > 0
      /\ \A u \in TxIds : u # t => returned'[u] = returned[u]
      /\ ReturnedTotal' = ReturnedTotal + amount
      /\ ReturnedTotal' <= Charged
      /\ sent' = sent \cup {[latest |-> t, total |-> ReturnedTotal + amount]}
  BY ReturnMoneyEffect DEF MoneyInv, IInv
<1>2. ReturnedTotal \in Nat
  BY Totals DEF MoneyInv, IInv
<1>3. PICK event : event = [latest |-> t, total |-> ReturnedTotal + amount]
  OBVIOUS
<1>4. event.latest = t /\ event.total = ReturnedTotal' /\ sent' = sent \cup {event}
  BY <1>1, <1>3
<1>5. ASSUME NEW e \in sent' PROVE e.total <= ReturnedTotal' /\ returned'[e.latest] > 0
  <2>1. CASE e = event
    BY <1>1, <1>2, <1>4, <2>1
  <2>2. CASE e \in sent
    <3>1. e.latest \in TxIds /\ e.total \in Nat
      BY <2>2 DEF MoneyInv, StripeTypeOK, Event
    <3>2. e.total <= ReturnedTotal /\ returned[e.latest] > 0
      BY <2>2 DEF EventsMatch
    <3> QED BY <1>1, <1>2, <3>1, <3>2
  <2> QED BY <1>4, <2>1, <2>2
<1>6. ASSUME NEW u \in TxIds, booked'[u] > 0 PROVE returned'[u] > 0
  <2>1. returned[u] > 0
    BY <1>6 DEF EventsMatch
  <2> QED BY <1>1, <2>1
<1> QED BY <1>1, <1>4, <1>5, <1>6 DEF EventsMatch

LEMMA EventsMatchStep == EventsMatch /\ MoneyInv /\ [Next]_vars => EventsMatch'
<1> SUFFICES ASSUME EventsMatch, MoneyInv, [Next]_vars PROVE EventsMatch'
  OBVIOUS
<1>0. IInv
  BY DEF MoneyInv
<1>1. ASSUME NEW r \in Refunds, MoneyReturned(r) PROVE EventsMatch'
  BY <1>1, MoneyReturnedEffect, ReturnKeepsEvents
<1>2. ASSUME NEW d \in Dashboard, NEW amount \in Sums, DashboardRefund(d, amount)
      PROVE  EventsMatch'
  BY <1>2, DashboardEffect, ReturnKeepsEvents
<1>3. ASSUME NEW e \in sent, RefundFromGatewayEvent(e) PROVE EventsMatch'
  <2>1. returned' = returned /\ sent' = sent
          /\ \A t \in TxIds : t # e.latest => booked'[t] = booked[t]
    BY <1>0, <1>3, GatewayEventEffect DEF MoneyInv, IInv
  <2>2. returned[e.latest] > 0
    BY DEF EventsMatch
  <2>3. ReturnedTotal' = ReturnedTotal
    BY <2>1 DEF ReturnedTotal
  <2> QED BY <2>1, <2>2, <2>3 DEF EventsMatch
<1>4. ASSUME UNCHANGED <<returned, sent, booked>> PROVE EventsMatch'
  BY <1>4 DEF EventsMatch, ReturnedTotal
<1>5. /\ \A r \in Refunds : RowInserted(r) \/ RowSettled(r) \/ RowFailed(r) \/ CallDropped(r)
           => UNCHANGED <<returned, sent, booked>>
      /\ BooksUntouched => UNCHANGED <<returned, sent, booked>>
  BY DEF RowInserted, RowSettled, RowFailed, CallDropped, BooksUntouched, MoneyUntouched
<1> QED BY <1>0, <1>1, <1>2, <1>3, <1>4, <1>5, BooksStep

\* While no row is made, only the dashboard and its events touch the money.
LEMMA OnlyDashboard ==
  ASSUME IInv, [Next]_vars, NoRefundsMade'
  PROVE  /\ NoRefundsMade
         /\ \/ \E d \in Dashboard, amount \in Sums : DashboardRefund(d, amount)
            \/ \E e \in sent : RefundFromGatewayEvent(e)
            \/ BooksUntouched
<1>1. ASSUME NEW r \in Refunds, RowInserted(r) PROVE FALSE
  BY <1>1, RowInsertedEffect DEF NoRefundsMade
<1>2. ASSUME NEW r \in Refunds, RowSettled(r) \/ RowFailed(r) PROVE FALSE
  <2>1. PICK status \in {"SUCCEEDED", "FAILED"} : SetRefundStatus(r, status)
    BY <1>2 DEF RowSettled, RowFailed, Settle
  <2> QED BY <1>2, <2>1, CallOver, RowDecidedEffect DEF NoRefundsMade
<1>3. ASSUME NEW r \in Refunds, MoneyReturned(r) \/ CallDropped(r) PROVE FALSE
  <2>1. refund' = refund /\ call[r] # "idle"
    BY <1>3 DEF MoneyReturned, CallDropped
  <2> QED BY <2>1 DEF NoRefundsMade, IInv, CallsMatch
<1>4. /\ \A d \in Dashboard, amount \in Sums : DashboardRefund(d, amount) => refund' = refund
      /\ \A e \in sent : RefundFromGatewayEvent(e) => refund' = refund
      /\ BooksUntouched => refund' = refund
  BY DEF DashboardRefund, RefundFromGatewayEvent, BooksUntouched, refundVars
<1>5. refund' = refund => NoRefundsMade
  BY DEF NoRefundsMade
<1> QED BY <1>1, <1>2, <1>3, <1>4, <1>5, BooksStep

LEMMA DashboardBooksStep ==
  DashboardBooks /\ EventsMatch /\ PaymentFollowsBooks /\ MoneyInv /\ [Next]_vars => DashboardBooks'
<1> SUFFICES ASSUME DashboardBooks, EventsMatch, PaymentFollowsBooks, MoneyInv, [Next]_vars,
                    NoRefundsMade'
             PROVE  /\ SucceededTotal' <= ReturnedTotal'
                    /\ \A e, f \in sent' : e.latest = f.latest => e = f
                    /\ \A e \in sent' : e \in handled' \/ booked'[e.latest] > 0
                                       => e.total <= SucceededTotal'
  BY DEF DashboardBooks
<1>0. IInv /\ RowsTypeOK /\ StripeTypeOK
  BY DEF MoneyInv, IInv
<1>1. /\ NoRefundsMade
      /\ SucceededTotal <= ReturnedTotal
      /\ \A e, f \in sent : e.latest = f.latest => e = f
      /\ \A e \in sent : e \in handled \/ booked[e.latest] > 0 => e.total <= SucceededTotal
  BY <1>0, OnlyDashboard DEF DashboardBooks
<1>2. /\ SucceededTotal \in Nat /\ ReturnedTotal \in Nat
      /\ \A e \in sent : e.latest \in TxIds /\ e.total \in Nat
      /\ handled \subseteq sent
  BY <1>0, Totals DEF SucceededTotal, StripeTypeOK, Event
<1>3. ASSUME NEW d \in Dashboard, NEW amount \in Sums, DashboardRefund(d, amount)
      PROVE  /\ SucceededTotal' <= ReturnedTotal'
             /\ \A e, f \in sent' : e.latest = f.latest => e = f
             /\ \A e \in sent' : e \in handled' \/ booked'[e.latest] > 0
                                => e.total <= SucceededTotal'
  <2>1. /\ returned[d] = 0 /\ d \in TxIds /\ amount \in Nat /\ ReturnMoney(d, amount)
        /\ UNCHANGED <<refund, handled, booked>>
    BY <1>3, DashboardEffect
  <2>2. ReturnedTotal' = ReturnedTotal + amount
          /\ sent' = sent \cup {[latest |-> d, total |-> ReturnedTotal + amount]}
    BY <1>0, <2>1, ReturnMoneyEffect
  <2>3. SucceededTotal' = SucceededTotal
    BY <2>1, SameTotal
  <2>4. PICK event : event = [latest |-> d, total |-> ReturnedTotal + amount]
    OBVIOUS
  <2>5. event.latest = d /\ sent' = sent \cup {event}
    BY <2>2, <2>4
  <2>6. \A e \in sent : e.latest # d
    BY <2>1 DEF EventsMatch
  <2>7. ~(booked[d] > 0)
    BY <2>1 DEF EventsMatch
  <2>8. \A e, f \in sent' : e.latest = f.latest => e = f
    BY <1>1, <2>5, <2>6
  <2>9. \A e \in sent' : e \in handled' \/ booked'[e.latest] > 0 => e.total <= SucceededTotal'
    <3> SUFFICES ASSUME NEW e \in sent', e \in handled' \/ booked'[e.latest] > 0
                 PROVE  e.total <= SucceededTotal
      BY <2>3
    <3>1. e \in sent
      BY <1>2, <2>1, <2>5, <2>7
    <3> QED BY <1>1, <2>1, <3>1
  <2>10. SucceededTotal' <= ReturnedTotal'
    BY <1>1, <1>2, <2>1, <2>2, <2>3
  <2> QED BY <2>8, <2>9, <2>10
<1>4. ASSUME NEW e \in sent, RefundFromGatewayEvent(e)
      PROVE  /\ SucceededTotal' <= ReturnedTotal'
             /\ \A f, g \in sent' : f.latest = g.latest => f = g
             /\ \A f \in sent' : f \in handled' \/ booked'[f.latest] > 0
                                => f.total <= SucceededTotal'
  <2>1. /\ handled' = handled \cup {e} /\ returned' = returned /\ sent' = sent
        /\ \A t \in TxIds : t # e.latest => booked'[t] = booked[t]
        /\ ~Books(e) => booked' = booked
    BY <1>0, <1>4, GatewayEventEffect
  <2>2. ReturnedTotal' = ReturnedTotal /\ e.total <= ReturnedTotal /\ ReturnedTotal <= Charged
    BY <2>1 DEF ReturnedTotal, EventsMatch
  <2>3. CASE Books(e)
    <3>1. SucceededTotal' = e.total /\ e.total > SucceededTotal
      BY <1>4, <2>3, BookedTotal DEF Books
    <3>2. ASSUME NEW f \in sent, f \in handled' \/ booked'[f.latest] > 0
          PROVE  f.total <= e.total
      <4>1. CASE f.latest = e.latest
        BY <1>1, <1>2, <4>1
      <4>2. CASE f.latest # e.latest
        <5>1. f \in handled \/ booked[f.latest] > 0
          BY <1>2, <2>1, <3>2, <4>2
        <5>2. f.total <= SucceededTotal /\ f.total \in Nat /\ e.total \in Nat
          BY <1>1, <1>2, <5>1
        <5> QED BY <1>2, <3>1, <5>2
      <4> QED BY <4>1, <4>2
    <3> QED BY <1>1, <2>1, <2>2, <3>1, <3>2
  <2>4. CASE ~Books(e)
    <3>1. SucceededTotal' = SucceededTotal
      BY <1>4, <2>4, BookedTotal
    <3>2. e.total <= SucceededTotal
      <4>1. CASE paymentStatus \notin RefundableStatuses
        <5>1. paymentStatus = "REFUNDED"
          BY <1>0, <4>1 DEF RowsTypeOK, TerminalStatuses, RefundableStatuses
        <5>2. SucceededTotal >= Charged
          BY <5>1 DEF PaymentFollowsBooks
        <5> QED BY <1>2, <2>2, <5>2, MoneyAssumption
      <4>2. CASE Recorded(e.latest)
        <5>1. booked[e.latest] > 0
          BY <1>1, <4>2 DEF Recorded, NoRefundsMade
        <5> QED BY <1>1, <5>1
      <4>3. CASE ~(e.total > SucceededTotal)
        BY <1>2, <4>3
      <4> QED BY <2>4, <4>1, <4>2, <4>3 DEF Books
    <3> QED BY <1>1, <2>1, <2>2, <2>4, <3>1, <3>2
  <2> QED BY <2>3, <2>4
<1>5. ASSUME BooksUntouched
      PROVE  /\ SucceededTotal' <= ReturnedTotal'
             /\ \A e, f \in sent' : e.latest = f.latest => e = f
             /\ \A e \in sent' : e \in handled' \/ booked'[e.latest] > 0
                                => e.total <= SucceededTotal'
  <2>1. UNCHANGED <<refund, returned, sent, handled, booked>>
    BY <1>5 DEF BooksUntouched, MoneyUntouched, refundVars
  <2>2. SucceededTotal' = SucceededTotal /\ ReturnedTotal' = ReturnedTotal
    BY <2>1, SameTotal DEF ReturnedTotal
  <2> QED BY <1>1, <2>1, <2>2
<1> QED BY <1>0, <1>3, <1>4, <1>5, OnlyDashboard

\* What is refunded at the dashboard alone is booked completely and once.
THEOREM DashboardAlwaysReconciled == Spec => []DashboardReconciled
<1>1. EventsMatch /\ DashboardBooks /\ MoneyInv => DashboardReconciled
  <2> SUFFICES ASSUME EventsMatch, DashboardBooks, MoneyInv, NoRefundsMade
               PROVE  /\ SucceededTotal <= ReturnedTotal
                      /\ handled = sent => SucceededTotal = ReturnedTotal
    BY DEF DashboardReconciled, NoRefundsMade
  <2>1. /\ SucceededTotal <= ReturnedTotal
        /\ \A e \in sent : e \in handled => e.total <= SucceededTotal
    BY DEF DashboardBooks
  <2>2. SucceededTotal \in Nat /\ ReturnedTotal \in Nat
    BY Totals DEF MoneyInv, IInv, SucceededTotal
  <2>3. ASSUME handled = sent, ReturnedTotal > 0 PROVE SucceededTotal = ReturnedTotal
    <3>1. PICK e \in sent : e.total = ReturnedTotal
      BY <2>3 DEF EventsMatch
    <3> QED BY <2>1, <2>2, <2>3, <3>1
  <2> QED BY <2>1, <2>2, <2>3
<1>2. PaymentFollowsBooks /\ EventsMatch /\ DashboardBooks /\ MoneyInv /\ [Next]_vars
        => EventsMatch' /\ DashboardBooks'
  BY EventsMatchStep, DashboardBooksStep
<1> QED BY <1>1, <1>2, EventsMatchInit, PaymentAlwaysFollowsBooks, AlwaysMoneyInv, PTL DEF Spec

-----------------------------------------------------------------------------
TotalsTypeOK == SucceededTotal \in Nat /\ ReturnedTotal \in Nat

LEMMA TotalsType == MoneyInv => TotalsTypeOK
BY Totals DEF MoneyInv, IInv, SucceededTotal, TotalsTypeOK

LEMMA TotalsStayTyped == MoneyInv' => TotalsTypeOK'
BY TotalsType, PTL

\* What is in the books stays there.
LEMMA BooksGrow ==
  ASSUME MoneyInv, MoneyInv', [Next]_vars
  PROVE  SucceededTotal \in Nat /\ SucceededTotal' \in Nat /\ SucceededTotal <= SucceededTotal'
<1>0. IInv /\ IInv'
  BY DEF MoneyInv
<1>1. SucceededTotal \in Nat /\ SucceededTotal' \in Nat
  BY TotalsType, TotalsStayTyped DEF TotalsTypeOK
<1>2. SucceededTotal' = SucceededTotal => SucceededTotal <= SucceededTotal'
  BY <1>1
<1>3. ASSUME NEW r \in Refunds, RowInserted(r) PROVE SucceededTotal <= SucceededTotal'
  BY <1>0, <1>2, <1>3, InsertedTotal
<1>4. ASSUME NEW r \in Refunds, RowSettled(r) PROVE SucceededTotal <= SucceededTotal'
  <2>1. SetRefundStatus(r, "SUCCEEDED") /\ booked' = booked /\ call[r] # "idle"
    BY <1>0, <1>4, CallOver DEF RowSettled, Settle
  <2>2. SucceededTotal' = SucceededTotal + AmountOf[r]
    BY <2>1, DecidedTotal
  <2>3. AmountOf[r] \in Nat
    BY <1>0, RowsHaveAmounts DEF IInv
  <2> QED BY <1>1, <2>2, <2>3
<1>5. ASSUME NEW r \in Refunds, RowFailed(r) PROVE SucceededTotal <= SucceededTotal'
  <2>1. SetRefundStatus(r, "FAILED") /\ booked' = booked /\ call[r] # "idle"
    BY <1>0, <1>5, CallOver DEF RowFailed, MoneyUntouched
  <2> QED BY <1>2, <2>1, DecidedTotal
<1>6. ASSUME NEW e \in sent, RefundFromGatewayEvent(e) PROVE SucceededTotal <= SucceededTotal'
  <2>1. CASE Books(e)
    <3>1. SucceededTotal' = e.total /\ e.total > SucceededTotal
      BY <1>6, <2>1, BookedTotal DEF Books
    <3> QED BY <1>1, <3>1
  <2>2. CASE ~Books(e)
    BY <1>2, <1>6, <2>2, BookedTotal
  <2> QED BY <2>1, <2>2
<1>7. ASSUME UNCHANGED <<refund, booked>> PROVE SucceededTotal <= SucceededTotal'
  BY <1>2, <1>7, SameTotal
<1>8. /\ \A r \in Refunds : MoneyReturned(r) \/ CallDropped(r) => UNCHANGED <<refund, booked>>
      /\ \A d \in Dashboard, amount \in Sums : DashboardRefund(d, amount)
           => UNCHANGED <<refund, booked>>
      /\ BooksUntouched => UNCHANGED <<refund, booked>>
  BY DEF MoneyReturned, CallDropped, DashboardRefund, BooksUntouched, MoneyUntouched,
     refundVars, eventVars
<1> QED BY <1>0, <1>1, <1>3, <1>4, <1>5, <1>6, <1>7, <1>8, BooksStep

\* Where events do not list their refunds, the books reach every total that was
\* handled.
HandledIsBooked == ~LatestKnown => \A e \in handled : e.total <= SucceededTotal

LEMMA HandledIsBookedStep ==
  HandledIsBooked /\ PaymentFollowsBooks /\ EventsMatch /\ MoneyInv /\ MoneyInv' /\ [Next]_vars
    => HandledIsBooked'
<1> SUFFICES ASSUME HandledIsBooked, PaymentFollowsBooks, EventsMatch, MoneyInv, MoneyInv',
                    [Next]_vars, ~LatestKnown, NEW f \in handled'
             PROVE  f.total <= SucceededTotal'
  BY DEF HandledIsBooked
<1>0. IInv /\ RowsTypeOK /\ StripeTypeOK
  BY DEF MoneyInv, IInv
<1>1. SucceededTotal \in Nat /\ SucceededTotal' \in Nat /\ SucceededTotal <= SucceededTotal'
  BY BooksGrow
<1>2. ASSUME f \in handled PROVE f.total <= SucceededTotal'
  <2>1. f.total \in Nat
    BY <1>0, <1>2 DEF StripeTypeOK, Event
  <2>2. f.total <= SucceededTotal
    BY <1>2 DEF HandledIsBooked
  <2> QED BY <1>1, <2>1, <2>2
<1>3. ASSUME RefundFromGatewayEvent(f), f \in sent PROVE f.total <= SucceededTotal'
  <2>1. f.total \in Nat /\ f.total <= ReturnedTotal /\ ReturnedTotal <= Charged
    BY <1>0, <1>3 DEF StripeTypeOK, Event, EventsMatch
  <2>2. CASE Books(f)
    BY <1>3, <2>1, <2>2, BookedTotal
  <2>3. CASE paymentStatus \notin RefundableStatuses
    <3>1. paymentStatus = "REFUNDED"
      BY <1>0, <2>3 DEF RowsTypeOK, TerminalStatuses, RefundableStatuses
    <3>2. SucceededTotal >= Charged
      BY <3>1 DEF PaymentFollowsBooks
    <3>3. ReturnedTotal \in Nat
      BY <1>0, Totals
    <3> QED BY <1>1, <2>1, <3>2, <3>3, MoneyAssumption
  <2>4. CASE ~(f.total > SucceededTotal)
    BY <1>1, <2>1, <2>4
  <2> QED BY <2>2, <2>3, <2>4 DEF Books
<1>4. ASSUME NEW e \in sent, RefundFromGatewayEvent(e) PROVE f.total <= SucceededTotal'
  <2>1. f \in handled \/ f = e
    BY <1>4 DEF RefundFromGatewayEvent
  <2> QED BY <1>2, <1>3, <1>4, <2>1
<1>5. /\ \A r \in Refunds : RowInserted(r) \/ RowSettled(r) \/ RowFailed(r) \/ MoneyReturned(r)
                              \/ CallDropped(r) => handled' = handled
      /\ \A d \in Dashboard, amount \in Sums : DashboardRefund(d, amount) => handled' = handled
      /\ BooksUntouched => handled' = handled
  BY DEF RowInserted, RowSettled, RowFailed, MoneyReturned, CallDropped, DashboardRefund,
     BooksUntouched, MoneyUntouched, eventVars
<1> QED BY <1>0, <1>2, <1>4, <1>5, BooksStep

\* refundFromGatewayEvent makes up for every fault of createRefund, where the
\* charge of an event does not list its refunds.
THEOREM EventsAlwaysCompleteBooks == Spec => []EventsCompleteBooks
<1>1. Init => HandledIsBooked
  BY DEF Init, HandledIsBooked
<1>2. HandledIsBooked /\ EventsMatch /\ MoneyInv => EventsCompleteBooks
  <2> SUFFICES ASSUME HandledIsBooked, EventsMatch, MoneyInv, ~LatestKnown, handled = sent
               PROVE  SucceededTotal >= ReturnedTotal
    BY DEF EventsCompleteBooks
  <2>1. SucceededTotal \in Nat /\ ReturnedTotal \in Nat
    BY TotalsType DEF TotalsTypeOK
  <2>2. ASSUME ReturnedTotal > 0 PROVE SucceededTotal >= ReturnedTotal
    <3>1. PICK e \in sent : e.total = ReturnedTotal
      BY <2>2 DEF EventsMatch
    <3>2. ReturnedTotal <= SucceededTotal
      BY <3>1 DEF HandledIsBooked
    <3> QED BY <2>1, <3>2
  <2> QED BY <2>1, <2>2
<1>3. EventsMatch /\ MoneyInv /\ [Next]_vars => EventsMatch'
  BY EventsMatchStep
<1>4. Init => EventsMatch
  BY EventsMatchInit
<1> QED BY <1>1, <1>2, <1>3, <1>4, HandledIsBookedStep, PaymentAlwaysFollowsBooks,
        AlwaysMoneyInv, PTL DEF Spec

\* A book of settled rows alone holds no more than was returned.
LEMMA SettledWithinReturned ==
  ASSUME MoneyInv, SucceededRefundReturned, online, \A t \in TxIds : booked[t] = 0
  PROVE  SucceededTotal <= ReturnedTotal
<1>0. RowsTypeOK /\ StripeTypeOK
  BY DEF MoneyInv, IInv
<1> DEFINE settled == RefundsIn({"SUCCEEDED"})
           amount == AmountOf
<1>1. IsFiniteSet(settled) /\ settled \subseteq Refunds
  BY RowSetsFinite
<1>2. \A t \in TxIds : returned[t] \in Nat
  BY <1>0 DEF StripeTypeOK
<1>3. \A r \in settled : amount[r] \in Nat
  BY <1>0, <1>1, RowsHaveAmounts
<1>4. \A r \in settled : amount[r] > 0 => r \in TxIds /\ amount[r] <= returned[r]
  <2> SUFFICES ASSUME NEW r \in settled PROVE r \in TxIds /\ amount[r] <= returned[r]
    OBVIOUS
  <2>1. r \in TxIds /\ returned[r] = amount[r]
    BY DEF SucceededRefundReturned, RefundsIn, TxIds
  <2> QED BY <1>2, <2>1
<1>5. ReturnedTotal = SumFunctionOnSet(returned, TxIds)
  BY <1>0, Totals
<1>6. SumFunctionOnSet(amount, settled) \in Nat /\ SumFunction(booked) = 0
  <2>1. SumFunction(booked) = SumFunctionOnSet(booked, TxIds)
    BY <1>0, Totals
  <2>2. SumFunctionOnSet(booked, TxIds) = 0
    BY TxIdsFinite, ZerosAddUpToZero
  <2> QED BY <1>0, <2>1, <2>2, Totals
<1>7. SucceededTotal = SumFunctionOnSet(amount, settled)
  BY <1>6 DEF SucceededTotal, RefundSum
<1> HIDE DEF settled, amount
<1>8. SumFunctionOnSet(amount, settled) <= SumFunctionOnSet(returned, TxIds)
  BY <1>1, <1>2, <1>3, <1>4, TxIdsFinite, SmallerTermsSmallerSum
<1> QED BY <1>5, <1>7, <1>8

LEMMA SettledStaysWithin ==
  MoneyInv' /\ SucceededRefundReturned' /\ online' /\ (\A t \in TxIds : booked[t] = 0)'
    => (SucceededTotal <= ReturnedTotal)'
BY SettledWithinReturned, PTL

\* Neither the events nor createRefund alone book more than was returned: that
\* takes a refund that settles after an event has been booked.
THEOREM OnlySettlingEverOverbooks == Spec => OnlySettlingOverbooks
<1>1. /\ EventsMatch /\ SucceededRefundReturned' /\ MoneyInv /\ MoneyInv'
      /\ [Next]_vars
      => [OverbookedBySettling]_vars
  <2> SUFFICES ASSUME EventsMatch, SucceededRefundReturned', MoneyInv, MoneyInv', [Next]_vars,
                      online, \A r \in Refunds : ~SettlesAfterEvent(r),
                      SucceededTotal <= ReturnedTotal
               PROVE  SucceededTotal' <= ReturnedTotal'
    BY DEF OverbookedBySettling
  <2>0. IInv /\ IInv' /\ RowsTypeOK /\ StripeTypeOK
    BY DEF MoneyInv, IInv
  <2>1. SucceededTotal \in Nat /\ ReturnedTotal \in Nat
    BY TotalsType DEF TotalsTypeOK
  <2>2. ASSUME UNCHANGED <<refund, booked>>, ReturnedTotal' \in Nat,
               ReturnedTotal <= ReturnedTotal'
        PROVE  SucceededTotal' <= ReturnedTotal'
    BY <2>1, <2>2, SameTotal
  <2>3. ASSUME UNCHANGED returned, SucceededTotal' = SucceededTotal
        PROVE  SucceededTotal' <= ReturnedTotal'
    <3>1. ReturnedTotal' = ReturnedTotal
      BY <2>3 DEF ReturnedTotal
    <3> QED BY <2>3, <3>1
  <2>4. ASSUME NEW r \in Refunds, RowInserted(r) PROVE SucceededTotal' <= ReturnedTotal'
    BY <2>0, <2>3, <2>4, InsertedTotal DEF RowInserted, MoneyUntouched
  <2>5. ASSUME NEW r \in Refunds, RowSettled(r) PROVE SucceededTotal' <= ReturnedTotal'
    <3>1. /\ SetRefundStatus(r, "SUCCEEDED") /\ call[r] = "succeeded"
          /\ booked' = booked /\ online'
      BY <2>5 DEF RowSettled, Settle
    <3>2. refund'[r].status = "SUCCEEDED"
      BY <2>0, <3>1, RowDecidedEffect
    <3>3. \A t \in TxIds : booked[t] = 0
      BY <2>0, <3>1, <3>2 DEF SettlesAfterEvent, StripeTypeOK
    <3>4. (\A t \in TxIds : booked[t] = 0)'
      BY <3>1, <3>3
    <3> QED BY <3>1, <3>4, SettledStaysWithin
  <2>6. ASSUME NEW r \in Refunds, RowFailed(r) PROVE SucceededTotal' <= ReturnedTotal'
    <3>1. /\ SetRefundStatus(r, "FAILED") /\ call[r] # "idle"
          /\ booked' = booked /\ returned' = returned
      BY <2>0, <2>6, CallOver DEF RowFailed, MoneyUntouched
    <3> QED BY <2>3, <3>1, DecidedTotal
  <2>7. ASSUME NEW r \in Refunds, MoneyReturned(r) PROVE SucceededTotal' <= ReturnedTotal'
    <3>1. /\ returned[r] = 0 /\ r \in TxIds /\ AmountOf[r] \in Nat
          /\ ReturnMoney(r, AmountOf[r]) /\ UNCHANGED <<refund, booked>>
      BY <2>7, MoneyReturnedEffect
    <3>2. ReturnedTotal' = ReturnedTotal + AmountOf[r]
      BY <2>0, <3>1, ReturnMoneyEffect
    <3> QED BY <2>1, <2>2, <3>1, <3>2
  <2>8. ASSUME NEW d \in Dashboard, NEW amount \in Sums, DashboardRefund(d, amount)
        PROVE  SucceededTotal' <= ReturnedTotal'
    <3>1. /\ returned[d] = 0 /\ d \in TxIds /\ amount \in Nat
          /\ ReturnMoney(d, amount) /\ UNCHANGED <<refund, booked>>
      BY <2>8, DashboardEffect
    <3>2. ReturnedTotal' = ReturnedTotal + amount
      BY <2>0, <3>1, ReturnMoneyEffect
    <3> QED BY <2>1, <2>2, <3>1, <3>2
  <2>9. ASSUME NEW e \in sent, RefundFromGatewayEvent(e) PROVE SucceededTotal' <= ReturnedTotal'
    <3>1. returned' = returned
      BY <2>9 DEF RefundFromGatewayEvent, stripeVars
    <3>2. CASE Books(e)
      <4>1. SucceededTotal' = e.total /\ e.total <= ReturnedTotal
        BY <2>9, <3>2, BookedTotal DEF EventsMatch
      <4>2. ReturnedTotal' = ReturnedTotal
        BY <3>1 DEF ReturnedTotal
      <4> QED BY <4>1, <4>2
    <3>3. CASE ~Books(e)
      BY <2>3, <2>9, <3>1, <3>3, BookedTotal
    <3> QED BY <3>2, <3>3
  <2>10. ASSUME UNCHANGED <<refund, booked, returned>> PROVE SucceededTotal' <= ReturnedTotal'
    BY <2>3, <2>10, SameTotal
  <2>11. /\ \A r \in Refunds : CallDropped(r) => UNCHANGED <<refund, booked, returned>>
         /\ BooksUntouched => UNCHANGED <<refund, booked, returned>>
    BY DEF CallDropped, BooksUntouched, MoneyUntouched, refundVars
  <2> QED BY <2>0, <2>4, <2>5, <2>6, <2>7, <2>8, <2>9, <2>10, <2>11, BooksStep
<1>2. EventsMatch /\ MoneyInv /\ [Next]_vars => EventsMatch'
  BY EventsMatchStep
<1>3. Init => EventsMatch
  BY EventsMatchInit
<1> QED BY <1>1, <1>2, <1>3, SucceededAlwaysReturned, AlwaysMoneyInv,
        PTL DEF Spec, OnlySettlingOverbooks

-----------------------------------------------------------------------------
\* Money returned for a request is held for it by its approval, which waits for
\* the answer or is about to link the refund, or by the request itself.
HeldFor(q, r) ==
  \/ approval[q] = [at |-> "waiting", refund |-> r] /\ call[r] = "succeeded"
  \/ approval[q] = [at |-> "linking", refund |-> r]
  \/ request[q].refund = r

ReturnsAreHeld ==
  faults = 0 =>
    \A r \in Refunds :
      /\ call[r] \in {"gateway", "failed"} => returned[r] = 0
      /\ \A q \in Requests : refund[r].for = q /\ returned[r] > 0 => HeldFor(q, r)

\* An approval that does not wait and does not link holds nothing.
LEMMA HoldsNothing ==
  ASSUME NEW q \in Requests, approval[q].at \notin {"waiting", "linking"},
         request[q].refund = None
  PROVE  \A r \in Refunds : ~HeldFor(q, r)
BY NoneAssumption DEF HeldFor

\* Nor does one that waits for another refund.
LEMMA HoldsAnother ==
  ASSUME IInv, NEW r \in Refunds, call[r] # "idle", NEW q \in Requests, refund[r].for = q
  PROVE  /\ approval[q] = [at |-> "waiting", refund |-> r]
         /\ \A s \in Refunds : s # r => ~HeldFor(q, s)
<1>1. approval[q] = [at |-> "waiting", refund |-> r]
  BY DEF IInv, CallsMatch
<1>2. approval[q].at = "waiting" /\ approval[q].refund = r
  BY <1>1
<1>3. request[q].refund = None
  BY <1>2 DEF IInv, ApprovalsMatch
<1> QED BY <1>1, <1>2, <1>3, NoneAssumption DEF HeldFor

LEMMA ReturnsAreHeldStep == ReturnsAreHeld /\ MoneyInv /\ [Next]_vars => ReturnsAreHeld'
<1> SUFFICES ASSUME ReturnsAreHeld, MoneyInv, [Next]_vars, faults' = 0
             PROVE  \A s \in Refunds :
                      /\ call'[s] \in {"gateway", "failed"} => returned'[s] = 0
                      /\ \A q \in Requests : refund'[s].for = q /\ returned'[s] > 0
                                            => HeldFor(q, s)'
  BY DEF ReturnsAreHeld
<1> DEFINE Held == \A s \in Refunds :
                     /\ call'[s] \in {"gateway", "failed"} => returned'[s] = 0
                     /\ \A q \in Requests : refund'[s].for = q /\ returned'[s] > 0
                                           => HeldFor(q, s)'
<1>0. IInv /\ RowsTypeOK /\ StripeTypeOK /\ faults \in Nat
  BY FaultsAssumption DEF MoneyInv, IInv, RowsTypeOK
<1>1. ~Fault
  BY <1>0 DEF Fault
<1>2. faults = 0
  BY <1>0, <1>1 DEF Next, RefundStep, RequestStep, StripeStep, CreateRefund, GatewayRefunds,
     GatewayRefuses, GatewayAnswerLost, RefundSucceeds, RefundReadThrows, RefundFails,
     SettleThrows, RefundDies, RequestRefund, ApproveRequest, ApprovalRefunds, ApprovalRefused,
     LinkRefund, RevertApproval, ApprovalDies, RejectRequest, DashboardRefund,
     RefundFromGatewayEvent, AdminMovesOrder, vars
<1>3. \A s \in Refunds :
        /\ call[s] \in {"gateway", "failed"} => returned[s] = 0
        /\ \A q \in Requests : refund[s].for = q /\ returned[s] > 0 => HeldFor(q, s)
  BY <1>2 DEF ReturnsAreHeld
<1>4. \A s \in Refunds : s \in TxIds /\ s # None /\ s \notin Dashboard
  BY NoneAssumption, RefundsAssumption DEF TxIds
<1>5. ASSUME NEW r \in Refunds, NEW items \in Basket, CreateRefund(r, items) PROVE Held
  <2>1. RowInserted(r) /\ UNCHANGED <<returned, request, approval>>
    BY <1>5 DEF CreateRefund, RowInserted, MoneyUntouched, stripeVars, requestVars, eventVars
  <2>2. /\ refund[r].status = "NONE"
        /\ \A s \in Refunds : s # r => refund'[s] = refund[s] /\ call'[s] = call[s]
    BY <1>0, <2>1, RowInsertedEffect
  <2>3. returned[r] = 0
    BY <2>2 DEF MoneyInv, UnpaidYet
  <2> QED BY <1>3, <2>1, <2>2, <2>3 DEF HeldFor
<1>6. ASSUME NEW p \in Requests, NEW r \in Refunds, ApprovalRefunds(p, r) PROVE Held
  <2>1. /\ approval[p].at = "reserved"
        /\ InsertRefund(r, request[p].items, p)
        /\ UNCHANGED <<online, paymentStatus, request, returned, sent, handled, booked>>
        /\ SetApproval(p, [at |-> "waiting", refund |-> r])
    BY <1>6 DEF ApprovalRefunds, stripeVars, eventVars
  <2>2. request[p].status = "APPROVED" /\ request[p].refund = None
    BY <1>0, <2>1 DEF IInv, ApprovalsMatch
  <2>3. request[p].items \in Basket
    BY <1>0, <2>2 DEF RowsTypeOK, RequestRow, NoRequest
  <2>4. RowInserted(r)
    BY <2>1, <2>3 DEF RowInserted, MoneyUntouched
  <2>5. /\ refund[r].status = "NONE"
        /\ \A s \in Refunds : s # r => refund'[s] = refund[s] /\ call'[s] = call[s]
    BY <1>0, <2>4, RowInsertedEffect
  <2>6. returned[r] = 0
    BY <2>5 DEF MoneyInv, UnpaidYet
  <2>7. \A s \in Refunds : ~HeldFor(p, s)
    BY <2>1, <2>2, HoldsNothing
  <2>8. \A q \in Requests : q # p => approval'[q] = approval[q]
    BY <1>0, <2>1 DEF SetApproval, RowsTypeOK
  <2>9. ASSUME NEW s \in Refunds, NEW q \in Requests, refund'[s].for = q, returned'[s] > 0
        PROVE  HeldFor(q, s)'
    <3>1. s # r /\ refund[s].for = q /\ returned[s] > 0
      BY <2>1, <2>5, <2>6, <2>9
    <3>2. HeldFor(q, s) /\ q # p
      BY <1>3, <2>7, <3>1
    <3> QED BY <2>1, <2>5, <2>8, <3>1, <3>2 DEF HeldFor
  <2> QED BY <1>3, <2>1, <2>5, <2>6, <2>9
<1>7. ASSUME NEW r \in Refunds, GatewayRefunds(r) PROVE Held
  <2>1. MoneyReturned(r) /\ SetCall(r, "succeeded") /\ UNCHANGED <<request, approval>>
    BY <1>7 DEF GatewayRefunds, MoneyReturned, requestVars, eventVars
  <2>2. /\ returned[r] = 0 /\ AmountOf[r] \in Nat /\ ReturnMoney(r, AmountOf[r])
        /\ call[r] = "gateway" /\ refund' = refund
        /\ \A s \in Refunds : s # r => call'[s] = call[s]
    BY <2>1, MoneyReturnedEffect
  <2>3. \A s \in Refunds : s # r => returned'[s] = returned[s]
    BY <1>0, <1>4, <2>2, ReturnMoneyEffect
  <2>4. call'[r] = "succeeded"
    BY <1>0, <2>1 DEF SetCall, RowsTypeOK
  <2>5. \A q \in Requests : refund[r].for = q => HeldFor(q, r)'
    BY <1>0, <2>1, <2>2, <2>4, HoldsAnother DEF HeldFor
  <2> QED BY <1>3, <2>1, <2>2, <2>3, <2>4, <2>5 DEF HeldFor
<1>8. ASSUME NEW r \in Refunds, GatewayRefuses(r) PROVE Held
  <2>1. /\ call[r] = "gateway" /\ SetCall(r, "failed")
        /\ UNCHANGED <<refund, returned, request, approval>>
    BY <1>8 DEF GatewayRefuses, requestVars, stripeVars
  <2>2. \A s \in Refunds : s # r => call'[s] = call[s]
    BY <2>1 DEF SetCall
  <2>3. returned[r] = 0
    BY <2>1, <1>3
  <2> QED BY <1>3, <2>1, <2>2, <2>3 DEF HeldFor
<1>9. ASSUME NEW r \in Refunds, RefundSucceeds(r) \/ RefundFails(r) PROVE Held
  <2>1. PICK status \in {"SUCCEEDED", "FAILED"}, at \in {"linking", "reverting"} :
          /\ SetRefundStatus(r, status) /\ AnswerCaller(r, at)
          /\ at = "linking" \/ call[r] = "failed"
          /\ call[r] # "idle" /\ UNCHANGED <<returned, request>>
    BY <1>9 DEF RefundSucceeds, RefundFails, Settle, stripeVars
  <2>2. /\ \A s \in Refunds : refund'[s].for = refund[s].for
    BY <1>0, <2>1, RowDecidedEffect
  <2>3. call'[r] = "idle" /\ \A s \in Refunds : s # r => call'[s] = call[s]
    BY <1>0, <2>1 DEF AnswerCaller, SetCall, RowsTypeOK
  <2>4. \A q \in Requests : q # refund[r].for => approval'[q] = approval[q]
    BY <2>1 DEF AnswerCaller
  <2>5. \A q \in Requests : refund[r].for = q => \A s \in Refunds : s # r => ~HeldFor(q, s)
    BY <1>0, <2>1, HoldsAnother
  <2>6. ASSUME NEW q \in Requests, refund[r].for = q, returned[r] > 0 PROVE HeldFor(q, r)'
    <3>1. at = "linking"
      BY <1>3, <2>1, <2>6
    <3>2. approval'[q] = [at |-> "linking", refund |-> r]
      BY <2>1, <2>6, <3>1 DEF AnswerCaller
    <3> QED BY <3>2 DEF HeldFor
  <2>7. ASSUME NEW s \in Refunds, NEW q \in Requests, refund[s].for = q, returned[s] > 0
        PROVE  HeldFor(q, s)'
    <3>1. CASE s = r
      BY <2>6, <2>7, <3>1
    <3>2. CASE s # r
      <4>1. HeldFor(q, s) /\ q # refund[r].for
        BY <1>3, <2>5, <2>7, <3>2
      <4> QED BY <2>1, <2>3, <2>4, <3>2, <4>1 DEF HeldFor
    <3> QED BY <3>1, <3>2
  <2> QED BY <1>3, <2>1, <2>2, <2>3, <2>7
<1>10. ASSUME NEW p \in Requests, RequestStep(p), \A r \in Refunds : ~ApprovalRefunds(p, r)
       PROVE  Held
  <2>1. UNCHANGED <<refund, call, returned>>
    BY <1>10 DEF RequestStep, RequestRefund, ApproveRequest, ApprovalRefused, LinkRefund,
       RevertApproval, ApprovalDies, RejectRequest, refundVars, stripeVars
  <2>2. \A q \in Requests : q # p => approval'[q] = approval[q] /\ request'[q] = request[q]
    BY <1>0, <1>10 DEF RequestStep, RequestRefund, ApproveRequest, ApprovalRefused, LinkRefund,
       RevertApproval, ApprovalDies, RejectRequest, SetApproval, SetRequestStatus, RowsTypeOK
  <2>3. \A s \in Refunds : HeldFor(p, s) => HeldFor(p, s)'
    <3>1. CASE LinkRefund(p)
      <4>1. approval[p].at = "linking"
              /\ request' = [request EXCEPT ![p].refund = approval[p].refund]
        BY <3>1 DEF LinkRefund
      <4>2. request[p].status = "APPROVED" /\ request[p].refund = None
        BY <1>0, <4>1 DEF IInv, ApprovalsMatch
      <4>3. request'[p].refund = approval[p].refund
        <5>1. PICK row \in RequestRow : request[p] = row
          BY <1>0, <4>2 DEF RowsTypeOK, NoRequest
        <5>2. request' = [request EXCEPT ![p] = [row EXCEPT !.refund = approval[p].refund]]
          BY <4>1, <5>1
        <5> QED BY <1>0, <5>1, <5>2 DEF RowsTypeOK, RequestRow
      <4>4. \A s \in Refunds : HeldFor(p, s) => approval[p].refund = s
        BY <1>4, <4>1, <4>2 DEF HeldFor
      <4> QED BY <4>3, <4>4 DEF HeldFor
    <3>2. CASE ~LinkRefund(p)
      <4>1. \/ request[p].status \in {"NONE", "PENDING"}
            \/ approval[p].at \in {"reserved", "reverting"}
        BY <1>1, <1>10, <3>2 DEF RequestStep, RequestRefund, ApproveRequest, ApprovalRefused,
           RevertApproval, ApprovalDies, RejectRequest
      <4>2. approval[p].at \notin {"waiting", "linking"} /\ request[p].refund = None
        BY <1>0, <4>1 DEF IInv, ApprovalsMatch, LinksMatch
      <4> QED BY <4>2, HoldsNothing
    <3> QED BY <3>1, <3>2
  <2>4. \A q \in Requests, s \in Refunds : HeldFor(q, s) => HeldFor(q, s)'
    BY <2>1, <2>2, <2>3 DEF HeldFor
  <2> QED BY <1>3, <2>1, <2>4
<1>11. ASSUME NEW d \in Dashboard, NEW amount \in Sums, DashboardRefund(d, amount) PROVE Held
  <2>1. /\ returned[d] = 0 /\ d \in TxIds /\ amount \in Nat /\ ReturnMoney(d, amount)
        /\ UNCHANGED <<refund, call, request, approval>>
    BY <1>11, DashboardEffect DEF DashboardRefund, requestVars
  <2>2. \A s \in Refunds : returned'[s] = returned[s]
    BY <1>0, <1>4, <2>1, ReturnMoneyEffect
  <2> QED BY <1>3, <2>1, <2>2 DEF HeldFor
<1>12. ASSUME UNCHANGED <<refund, call, returned, request, approval>> PROVE Held
  BY <1>3, <1>12 DEF HeldFor
<1>13. /\ \A e \in sent : RefundFromGatewayEvent(e)
            => UNCHANGED <<refund, call, returned, request, approval>>
       /\ \A to \in OrderStatus : AdminMovesOrder(to)
            => UNCHANGED <<refund, call, returned, request, approval>>
       /\ UNCHANGED vars => UNCHANGED <<refund, call, returned, request, approval>>
  BY DEF RefundFromGatewayEvent, AdminMovesOrder, vars, refundVars, stripeVars, requestVars
<1>14. \A r \in Refunds : ~(GatewayAnswerLost(r) \/ RefundReadThrows(r) \/ SettleThrows(r)
                             \/ RefundDies(r))
  BY <1>1 DEF GatewayAnswerLost, RefundReadThrows, SettleThrows, RefundDies
<1> HIDE DEF Held
<1>15. ASSUME NEW r \in Refunds, RefundStep(r) PROVE Held
  BY <1>5, <1>7, <1>8, <1>9, <1>14, <1>15 DEF RefundStep
<1>16. ASSUME NEW q \in Requests, RequestStep(q) PROVE Held
  BY <1>6, <1>10, <1>16
<1>17. ASSUME StripeStep PROVE Held
  BY <1>11, <1>12, <1>13, <1>17 DEF StripeStep
<1>18. Held
  BY <1>12, <1>13, <1>15, <1>16, <1>17 DEF Next
<1> QED BY <1>18 DEF Held

\* Unless an answer is lost or a save fails, no money has been returned for a
\* request that is still to be decided.
THEOREM OnlyFaultsReopen == Spec => []OnlyFaultsReopenRefunded
<1>1. Init => ReturnsAreHeld
  BY DEF Init, ReturnsAreHeld, TxIds
<1>2. ReturnsAreHeld /\ MoneyInv => OnlyFaultsReopenRefunded
  <2> SUFFICES ASSUME ReturnsAreHeld, MoneyInv, faults = 0, NEW q \in Requests, NEW r \in Refunds,
                      request[q].status \in {"PENDING", "REJECTED"}, refund[r].for = q
               PROVE  returned[r] = 0
    BY DEF OnlyFaultsReopenRefunded
  <2>1. approval[q].at = "idle" /\ request[q].refund = None
    BY DEF MoneyInv, IInv, ApprovalsMatch, LinksMatch
  <2>2. ~HeldFor(q, r)
    BY <2>1, HoldsNothing
  <2>3. returned[r] \in Nat
    BY DEF MoneyInv, StripeTypeOK, TxIds
  <2> QED BY <2>2, <2>3 DEF ReturnsAreHeld
<1> QED BY <1>1, <1>2, ReturnsAreHeldStep, AlwaysMoneyInv, PTL DEF Spec

-----------------------------------------------------------------------------
\* Without a fault every call is answered as the gateway decided.
LEMMA FaultlessStep ==
  ASSUME MoneyInv, [Next]_vars, faults' = 0
  PROVE  /\ faults = 0
         /\ \/ \E r \in Refunds : \/ RowInserted(r)
                                 \/ RowSettled(r)
                                 \/ RowFailed(r)
                                 \/ (MoneyReturned(r) /\ SetCall(r, "succeeded"))
                                 \/ GatewayRefuses(r)
            \/ \E d \in Dashboard, amount \in Sums : DashboardRefund(d, amount)
            \/ UNCHANGED <<refund, call, returned>>
<1>0. IInv /\ faults \in Nat
  BY FaultsAssumption DEF MoneyInv, IInv, RowsTypeOK
<1>1. ~Fault
  BY <1>0 DEF Fault
<1>2. faults = 0
  BY <1>0, <1>1 DEF Next, RefundStep, RequestStep, StripeStep, CreateRefund, GatewayRefunds,
     GatewayRefuses, GatewayAnswerLost, RefundSucceeds, RefundReadThrows, RefundFails,
     SettleThrows, RefundDies, RequestRefund, ApproveRequest, ApprovalRefunds, ApprovalRefused,
     LinkRefund, RevertApproval, ApprovalDies, RejectRequest, DashboardRefund,
     RefundFromGatewayEvent, AdminMovesOrder, vars
<1>3. \A r \in Refunds : ~(GatewayAnswerLost(r) \/ RefundReadThrows(r) \/ SettleThrows(r)
                             \/ RefundDies(r))
  BY <1>1 DEF GatewayAnswerLost, RefundReadThrows, SettleThrows, RefundDies
<1>4. ASSUME NEW r \in Refunds, RefundStep(r)
      PROVE  \/ RowInserted(r)
             \/ RowSettled(r)
             \/ RowFailed(r)
             \/ (MoneyReturned(r) /\ SetCall(r, "succeeded"))
             \/ GatewayRefuses(r)
  <2>1. ASSUME NEW items \in Basket, CreateRefund(r, items)
        PROVE  RowInserted(r)
    BY <2>1 DEF CreateRefund, RowInserted, MoneyUntouched, stripeVars, eventVars
  <2>2. RefundSucceeds(r) => RowSettled(r)
    BY DEF RefundSucceeds, RowSettled, AnswerCaller, stripeVars, eventVars
  <2>3. RefundFails(r) => RowFailed(r)
    BY DEF RefundFails, RowFailed, AnswerCaller, MoneyUntouched, stripeVars, eventVars
  <2>4. GatewayRefunds(r) => MoneyReturned(r) /\ SetCall(r, "succeeded")
    BY DEF GatewayRefunds, MoneyReturned, eventVars
  <2> QED BY <1>3, <1>4, <2>1, <2>2, <2>3, <2>4 DEF RefundStep
<1>5. ASSUME NEW q \in Requests, RequestStep(q)
      PROVE  UNCHANGED <<refund, call, returned>> \/ \E r \in Refunds : RowInserted(r)
  <2>1. ASSUME NEW r \in Refunds, ApprovalRefunds(q, r) PROVE RowInserted(r)
    <3>1. InsertRefund(r, request[q].items, q) /\ approval[q].at = "reserved" /\ MoneyUntouched
      BY <2>1 DEF ApprovalRefunds, MoneyUntouched, stripeVars, eventVars
    <3>2. request[q].status = "APPROVED"
      BY <1>0, <3>1 DEF IInv, ApprovalsMatch
    <3>3. request[q].items \in Basket
      BY <1>0, <3>2 DEF IInv, RowsTypeOK, RequestRow, NoRequest
    <3> QED BY <3>1, <3>3 DEF RowInserted
  <2>2. ASSUME \A r \in Refunds : ~ApprovalRefunds(q, r)
        PROVE  UNCHANGED <<refund, call, returned>>
    BY <1>5, <2>2 DEF RequestStep, RequestRefund, ApproveRequest, ApprovalRefused, LinkRefund,
       RevertApproval, ApprovalDies, RejectRequest, refundVars, stripeVars
  <2> QED BY <2>1, <2>2
<1>6. ASSUME \/ \E e \in sent : RefundFromGatewayEvent(e)
             \/ \E to \in OrderStatus : AdminMovesOrder(to)
             \/ UNCHANGED vars
      PROVE  UNCHANGED <<refund, call, returned>>
  BY <1>6 DEF RefundFromGatewayEvent, AdminMovesOrder, vars, refundVars, stripeVars
<1> QED BY <1>2, <1>4, <1>5, <1>6 DEF Next, StripeStep

\* A row has returned its amount or nothing; without a fault, money that was
\* returned for a row is about to settle it, or has.
OwnReturns ==
  /\ \A r \in Refunds : returned[r] \in {0, AmountOf[r]}
  /\ faults = 0 =>
       \A r \in Refunds :
         returned[r] > 0 => call[r] = "succeeded" \/ refund[r].status = "SUCCEEDED"

LEMMA ReturnsStayWhole ==
  ASSUME OwnReturns, MoneyInv, MoneyInv', [Next]_vars, NEW s \in Refunds
  PROVE  returned'[s] \in {0, AmountOf'[s]}
<1>0. IInv /\ IInv' /\ RowsTypeOK /\ StripeTypeOK /\ s \in TxIds /\ s \notin Dashboard
  BY RefundsAssumption DEF MoneyInv, IInv, TxIds
<1>1. returned[s] \in {0, AmountOf[s]}
  BY DEF OwnReturns
<1>2. ASSUME NEW r \in Refunds, RowInserted(r) PROVE returned'[s] \in {0, AmountOf'[s]}
  <2>1. refund[r].status = "NONE" /\ returned' = returned
    BY <1>0, <1>2, RowInsertedEffect DEF RowInserted, MoneyUntouched
  <2>2. returned[r] = 0
    BY <2>1 DEF MoneyInv, UnpaidYet
  <2>3. \A t \in Refunds : t # r => AmountOf'[t] = AmountOf[t]
    BY <1>0, <1>2, InsertedTotal
  <2> QED BY <1>1, <2>1, <2>2, <2>3
<1>3. ASSUME NEW r \in Refunds, RowSettled(r) \/ RowFailed(r)
      PROVE  returned'[s] \in {0, AmountOf'[s]}
  <2>1. PICK status \in {"SUCCEEDED", "FAILED"} : SetRefundStatus(r, status)
    BY <1>3 DEF RowSettled, RowFailed, Settle
  <2>2. AmountOf' = AmountOf /\ returned' = returned
    BY <1>0, <1>3, <2>1, CallOver, RowDecidedEffect DEF RowSettled, RowFailed, MoneyUntouched
  <2> QED BY <1>1, <2>2
<1>4. ASSUME NEW r \in Refunds, MoneyReturned(r) PROVE returned'[s] \in {0, AmountOf'[s]}
  <2>1. /\ returned[r] = 0 /\ r \in TxIds /\ AmountOf[r] \in Nat
        /\ ReturnMoney(r, AmountOf[r])
        /\ UNCHANGED <<refund, booked>>
    BY <1>4, MoneyReturnedEffect
  <2>2. returned'[r] = AmountOf[r] /\ \A u \in TxIds : u # r => returned'[u] = returned[u]
    BY <1>0, <2>1, ReturnMoneyEffect
  <2>3. AmountOf' = AmountOf
    BY <2>1, SameTotal
  <2> QED BY <1>0, <1>1, <2>2, <2>3
<1>5. ASSUME NEW d \in Dashboard, NEW amount \in Sums, DashboardRefund(d, amount)
      PROVE  returned'[s] \in {0, AmountOf'[s]}
  <2>1. /\ returned[d] = 0 /\ d \in TxIds /\ d \notin Refunds /\ amount \in Nat
        /\ ReturnMoney(d, amount) /\ UNCHANGED <<refund, booked>>
    BY <1>5, DashboardEffect
  <2>2. \A u \in TxIds : u # d => returned'[u] = returned[u]
    BY <1>0, <2>1, ReturnMoneyEffect
  <2> QED BY <1>0, <1>1, <2>1, <2>2, SameTotal
<1>6. ASSUME UNCHANGED <<refund, returned>> PROVE returned'[s] \in {0, AmountOf'[s]}
  <2>1. AmountOf' = AmountOf
    BY <1>6 DEF AmountOf
  <2> QED BY <1>1, <1>6, <2>1
<1>7. /\ \A r \in Refunds : CallDropped(r) => UNCHANGED <<refund, returned>>
      /\ \A e \in sent : RefundFromGatewayEvent(e) => UNCHANGED <<refund, returned>>
      /\ BooksUntouched => UNCHANGED <<refund, returned>>
  BY DEF CallDropped, RefundFromGatewayEvent, BooksUntouched, MoneyUntouched, refundVars,
     stripeVars
<1> QED BY <1>0, <1>2, <1>3, <1>4, <1>5, <1>6, <1>7, BooksStep

LEMMA OwnReturnsStep ==
  OwnReturns /\ ReturnsAreHeld /\ MoneyInv /\ MoneyInv' /\ [Next]_vars => OwnReturns'
<1> SUFFICES ASSUME OwnReturns, ReturnsAreHeld, MoneyInv, MoneyInv', [Next]_vars, faults' = 0,
                    NEW s \in Refunds, returned'[s] > 0
             PROVE  call'[s] = "succeeded" \/ refund'[s].status = "SUCCEEDED"
  BY ReturnsStayWhole DEF OwnReturns
<1> DEFINE Settling == call'[s] = "succeeded" \/ refund'[s].status = "SUCCEEDED"
<1>0. IInv /\ RowsTypeOK /\ StripeTypeOK /\ s \in TxIds /\ faults = 0
  BY FaultlessStep DEF MoneyInv, IInv, TxIds
<1>1. /\ returned[s] > 0 => call[s] = "succeeded" \/ refund[s].status = "SUCCEEDED"
      /\ call[s] \in {"gateway", "failed"} => returned[s] = 0
  BY <1>0 DEF OwnReturns, ReturnsAreHeld
<1>2. ASSUME UNCHANGED <<refund[s], call[s], returned[s]>> PROVE Settling
  BY <1>1, <1>2
<1>3. ASSUME NEW r \in Refunds, RowInserted(r) PROVE Settling
  <2>1. /\ refund[r].status = "NONE" /\ returned' = returned
        /\ \A t \in Refunds : t # r => refund'[t] = refund[t] /\ call'[t] = call[t]
    BY <1>0, <1>3, RowInsertedEffect DEF RowInserted, MoneyUntouched
  <2>2. returned[r] = 0
    BY <2>1 DEF MoneyInv, UnpaidYet
  <2> QED BY <1>2, <2>1, <2>2
<1>4. ASSUME NEW r \in Refunds, RowSettled(r) \/ RowFailed(r) PROVE Settling
  <2>1. PICK status \in {"SUCCEEDED", "FAILED"} :
          SetRefundStatus(r, status) /\ (status = "FAILED" => call[r] = "failed")
    BY <1>4 DEF RowSettled, RowFailed, Settle
  <2>2. /\ call[r] # "idle"
        /\ \A t \in Refunds : t # r => call'[t] = call[t]
    BY <1>0, <1>4, CallOver
  <2>3. /\ refund'[r].status = status
        /\ \A t \in Refunds : t # r => refund'[t] = refund[t]
    BY <1>0, <2>1, <2>2, RowDecidedEffect
  <2>4. returned' = returned
    BY <1>4 DEF RowSettled, RowFailed, MoneyUntouched
  <2>5. CASE s = r
    BY <1>1, <2>1, <2>3, <2>4, <2>5
  <2>6. CASE s # r
    BY <1>2, <2>2, <2>3, <2>4, <2>6
  <2> QED BY <2>5, <2>6
<1>5. ASSUME NEW r \in Refunds, MoneyReturned(r), SetCall(r, "succeeded") PROVE Settling
  <2>1. /\ returned[r] = 0 /\ r \in TxIds /\ AmountOf[r] \in Nat
        /\ ReturnMoney(r, AmountOf[r]) /\ refund' = refund
        /\ \A t \in Refunds : t # r => call'[t] = call[t]
    BY <1>5, MoneyReturnedEffect
  <2>2. \A u \in TxIds : u # r => returned'[u] = returned[u]
    BY <1>0, <2>1, ReturnMoneyEffect
  <2>3. call'[r] = "succeeded"
    BY <1>0, <1>5 DEF SetCall, RowsTypeOK
  <2> QED BY <1>0, <1>2, <2>1, <2>2, <2>3
<1>6. ASSUME NEW r \in Refunds, GatewayRefuses(r) PROVE Settling
  <2>1. call[r] = "gateway" /\ SetCall(r, "failed") /\ UNCHANGED <<refund, returned>>
    BY <1>6 DEF GatewayRefuses, stripeVars
  <2>2. \A t \in Refunds : t # r => call'[t] = call[t]
    BY <2>1 DEF SetCall
  <2> QED BY <1>1, <1>2, <2>1, <2>2
<1>7. ASSUME NEW d \in Dashboard, NEW amount \in Sums, DashboardRefund(d, amount)
      PROVE  Settling
  <2>1. /\ returned[d] = 0 /\ d \in TxIds /\ d \notin Refunds /\ amount \in Nat
        /\ ReturnMoney(d, amount) /\ UNCHANGED <<refund, call>>
    BY <1>7, DashboardEffect
  <2>2. \A u \in TxIds : u # d => returned'[u] = returned[u]
    BY <1>0, <2>1, ReturnMoneyEffect
  <2> QED BY <1>0, <1>2, <2>1, <2>2
<1> HIDE DEF Settling
<1>8. Settling
  BY <1>2, <1>3, <1>4, <1>5, <1>6, <1>7, FaultlessStep
<1> QED BY <1>8 DEF Settling

\* createRefund accounts for its own money: without a fault, and with nothing
\* refunded at the dashboard, the books are complete once every call is back.
THEOREM CallsAlwaysCompleteBooks == Spec => []CallsCompleteBooks
<1>1. Init => OwnReturns /\ ReturnsAreHeld
  BY DEF Init, OwnReturns, ReturnsAreHeld, TxIds
<1>2. OwnReturns /\ MoneyInv => CallsCompleteBooks
  <2> SUFFICES ASSUME OwnReturns, MoneyInv, faults = 0,
                      \A d \in Dashboard : returned[d] = 0,
                      \A r \in Refunds : call[r] = "idle"
               PROVE  SucceededTotal >= ReturnedTotal
    BY DEF CallsCompleteBooks
  <2>0. RowsTypeOK /\ StripeTypeOK
    BY DEF MoneyInv, IInv
  <2> DEFINE settled == RefundsIn({"SUCCEEDED"})
             amount == AmountOf
  <2>1. IsFiniteSet(settled) /\ settled \subseteq Refunds
    BY RowSetsFinite
  <2>2. \A t \in TxIds : returned[t] \in Nat
    BY <2>0 DEF StripeTypeOK
  <2>3. \A r \in settled : amount[r] \in Nat
    BY <2>0, <2>1, RowsHaveAmounts
  <2>4. \A t \in TxIds : returned[t] > 0 => t \in settled /\ returned[t] <= amount[t]
    <3> SUFFICES ASSUME NEW t \in TxIds, returned[t] > 0
                 PROVE  t \in settled /\ returned[t] <= amount[t]
      OBVIOUS
    <3>1. t \in Refunds
      BY <2>2 DEF TxIds
    <3>2. refund[t].status = "SUCCEEDED" /\ returned[t] = amount[t]
      BY <3>1 DEF OwnReturns
    <3>3. t \in settled
      BY <3>1, <3>2 DEF RefundsIn
    <3> QED BY <2>2, <3>2, <3>3
  <2>5. ReturnedTotal = SumFunctionOnSet(returned, TxIds) /\ ReturnedTotal \in Nat
    BY <2>0, Totals
  <2>6. SucceededTotal = SumFunctionOnSet(amount, settled) + SumFunction(booked)
          /\ SumFunctionOnSet(amount, settled) \in Nat /\ SumFunction(booked) \in Nat
    BY <2>0, Totals DEF SucceededTotal, RefundSum
  <2> HIDE DEF settled, amount
  <2>7. SumFunctionOnSet(returned, TxIds) <= SumFunctionOnSet(amount, settled)
    BY <2>1, <2>2, <2>3, <2>4, TxIdsFinite, SmallerTermsSmallerSum
  <2> QED BY <2>5, <2>6, <2>7
<1> QED BY <1>1, <1>2, OwnReturnsStep, ReturnsAreHeldStep, AlwaysMoneyInv, PTL DEF Spec

-----------------------------------------------------------------------------
\* The ledger of the money sums with its own instance of the operator, too.
LEMMA SameMoneySum ==
  ASSUME NEW f, NEW S PROVE MoneyPaid!SumFunctionOnSet(f, S) = SumFunctionOnSet(f, S)
BY DEF SumFunctionOnSet, FoldFunctionOnSet, MapThenFoldSet, MoneyPaid!SumFunctionOnSet,
   MoneyPaid!FoldFunctionOnSet, MoneyPaid!MapThenFoldSet

\* What refunds have committed is what the ledger counts as taken.
LEMMA CommittedMoneyIsTaken ==
  MoneyPaid!Taken = SumFunctionOnSet(AmountOf, RefundsIn(CommittedStatuses))
<1>1. [r \in Refunds |-> MoneyEntries[r].qty] = AmountOf
  <2>1. [r \in Refunds |-> MoneyEntries[r].qty] = [r \in Refunds |-> AmountOf[r]]
    BY DEF MoneyEntries
  <2>2. [r \in Refunds |-> AmountOf[r]] = AmountOf
    BY DEF AmountOf
  <2> QED BY <2>1, <2>2
<1>2. RefundsIn(CommittedStatuses) = {r \in Refunds : MoneyEntries[r].state \in MoneyPaid!Open}
  BY DEF RefundsIn, CommittedStatuses, MoneyEntries, MoneyPaid!Open
<1>3. MoneyPaid!Taken =
        SumFunctionOnSet([r \in Refunds |-> MoneyEntries[r].qty],
                         {r \in Refunds : MoneyEntries[r].state \in MoneyPaid!Open})
  BY SameMoneySum DEF MoneyPaid!Taken
<1> QED BY <1>1, <1>2, <1>3

\* createRefund, whoever calls it and whatever races it, spends the money of the
\* payment as the ledger says: never more than was charged.
THEOREM MoneyIsLedger == Spec => ImplementsMoney
<1>1. Init => MoneyPaid!Init
  BY DEF Init, MoneyPaid!Init, MoneyEntries, NoRefund
<1>2. MoneyInv /\ MoneyInv' /\ [Next]_vars => [MoneyPaid!Next]_MoneyEntries
  <2> SUFFICES ASSUME MoneyInv, MoneyInv', [Next]_vars
               PROVE  MoneyPaid!Next \/ UNCHANGED MoneyEntries
    OBVIOUS
  <2>0. IInv /\ IInv' /\ RowsTypeOK /\ StripeTypeOK
    BY DEF MoneyInv, IInv
  <2>1. ASSUME UNCHANGED refund PROVE UNCHANGED MoneyEntries
    BY <2>1 DEF MoneyEntries, AmountOf
  <2>2. ASSUME NEW r \in Refunds, RowInserted(r) PROVE MoneyPaid!Next
    <3> DEFINE n == AmountOf'[r]
    <3>1. /\ refund[r].status = "NONE" /\ refund'[r].status = "PENDING"
          /\ Refundable(refund'[r].items, Nothing)
          /\ \A s \in Refunds : s # r => refund'[s] = refund[s]
      BY <2>0, <2>2, RowInsertedEffect
    <3>2. /\ AmountOf'[r] = RefundAmount(refund'[r].items) /\ n \in Nat
          /\ \A s \in Refunds : s # r => AmountOf'[s] = AmountOf[s]
      BY <2>0, <2>2, InsertedTotal, RowsStillHaveAmounts DEF IInv
    <3>3. n + RefundSum(CommittedStatuses) <= Charged
      BY <3>1, <3>2 DEF Refundable
    <3>4. /\ RefundSum(CommittedStatuses) = MoneyPaid!Taken + SumFunction(booked)
          /\ MoneyPaid!Taken \in Nat /\ SumFunction(booked) \in Nat
      BY <2>0, Totals, CommittedMoneyIsTaken DEF RefundSum
    <3>5. n + MoneyPaid!Taken <= Charged /\ n \in 0 .. Charged
      <4> HIDE DEF n
      <4> QED BY <3>2, <3>3, <3>4, MoneyAssumption
    <3>6. MoneyEntries[r].state = "NONE"
      BY <3>1 DEF MoneyEntries
    <3>7. MoneyEntries' = [MoneyEntries EXCEPT ![r] = [state |-> "PENDING", qty |-> n]]
      BY <3>1, <3>2 DEF MoneyEntries
    <3> HIDE DEF n
    <3>8. MoneyPaid!Reserve(r, n)
      BY <3>5, <3>6, <3>7 DEF MoneyPaid!Reserve
    <3> QED BY <3>5, <3>8 DEF MoneyPaid!Next
  <2>3. ASSUME NEW r \in Refunds, RowSettled(r) \/ RowFailed(r) PROVE MoneyPaid!Next
    <3>1. PICK status \in {"SUCCEEDED", "FAILED"} : SetRefundStatus(r, status)
      BY <2>3 DEF RowSettled, RowFailed, Settle
    <3>2. /\ refund[r].status = "PENDING" /\ refund'[r].status = status
          /\ AmountOf' = AmountOf
          /\ \A s \in Refunds : s # r => refund'[s] = refund[s]
      BY <2>0, <2>3, <3>1, CallOver, RowDecidedEffect
    <3>3. MoneyEntries' =
            [MoneyEntries EXCEPT ![r] = [state |-> status, qty |-> MoneyEntries[r].qty]]
      BY <3>2 DEF MoneyEntries
    <3>4. MoneyEntries[r].state = "PENDING"
      BY <3>2 DEF MoneyEntries
    <3>5. MoneyPaid!Settle(r) \/ MoneyPaid!Release(r)
      BY <3>3, <3>4 DEF MoneyPaid!Settle, MoneyPaid!Release
    <3> QED BY <3>5 DEF MoneyPaid!Next
  <2>4. /\ \A r \in Refunds : MoneyReturned(r) \/ CallDropped(r) => UNCHANGED refund
        /\ \A d \in Dashboard, amount \in Sums : DashboardRefund(d, amount) => UNCHANGED refund
        /\ \A e \in sent : RefundFromGatewayEvent(e) => UNCHANGED refund
        /\ BooksUntouched => UNCHANGED refund
    BY DEF MoneyReturned, CallDropped, DashboardRefund, RefundFromGatewayEvent, BooksUntouched,
       refundVars
  <2> QED BY <2>0, <2>1, <2>2, <2>3, <2>4, BooksStep
<1> QED BY <1>1, <1>2, AlwaysMoneyInv, PTL DEF Spec, ImplementsMoney, MoneyPaid!Spec

-----------------------------------------------------------------------------
\* refundFromGatewayEvent books what happened at Stripe alone once, and what
\* createRefund failed to book as well, in whatever order the events come.
THEOREM EventsAlwaysReconcile == Spec => []EventsReconcile
<1>1. DashboardReconciled /\ EventsCompleteBooks => EventsReconcile
  BY DEF EventsReconcile
<1> QED BY DashboardAlwaysReconciled, EventsAlwaysCompleteBooks, <1>1, PTL

\* Without a fault createRefund and approve() need no event: no refunded request
\* is open again, and the books are complete when every call is back.
THEOREM FaultlessCallsAlwaysAgree == Spec => []FaultlessCallsAgree
<1>1. OnlyFaultsReopenRefunded /\ CallsCompleteBooks => FaultlessCallsAgree
  BY DEF FaultlessCallsAgree
<1> QED BY OnlyFaultsReopen, CallsAlwaysCompleteBooks, <1>1, PTL

================================================================================
