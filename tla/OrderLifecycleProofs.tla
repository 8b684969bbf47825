------------------------- MODULE OrderLifecycleProofs -------------------------
(***************************************************************************)
(* What the operations of OrderLifecycle do to an order, for the modules    *)
(* that drive one: whatever assertNotPaid finds, an operation is an         *)
(* OrderStep, and an OrderStep keeps the order's invariants.                *)
(***************************************************************************)
EXTENDS OrderLifecycle, TLAPS

\* What any operation of OrderLifecycle does when it does anything: one step
\* along the road of fulfilment or off it, and stock goes back on CANCELLED.
OrderMove ==
  \E to \in OrderStatus :
    /\ SetStatus(to)
    /\ orderStatus \notin {"CANCELLED", to}
    /\ Stage(orderStatus) < Stage(to)
    /\ restocked' = IF to = "CANCELLED" THEN restocked + 1 ELSE restocked

OrderStep == OrderMove \/ UNCHANGED orderVars

\* All that the audit trail asks of a step: a change of status is recorded.
AuditedMove == \E to \in OrderStatus : SetStatus(to) /\ orderStatus # to

AuditedStep == AuditedMove \/ UNCHANGED <<orderStatus, history>>

\* The three operations of the orders module are order steps, whatever
\* assertNotPaid finds (orders.service.ts:466-653).
LEMMA OrderOperations ==
  ASSUME OrderTypeOK, NEW paid, NEW to \in OrderStatus,
         CancelOrder(paid) \/ UpdateOrderStatus(to, paid)
           \/ ApplyStatusChange("CONFIRMED")
  PROVE  OrderStep
<1> USE DEF OrderTypeOK, OrderStep, OrderMove, RestoreStock, Stage, OrderStatus
<1>1. CASE CancelOrder(paid)
  <2>1. orderStatus \in {"PENDING", "CONFIRMED"} /\ SetStatus("CANCELLED")
          /\ restocked' = restocked + 1
    BY <1>1 DEF CancelOrder, CancellableStatuses
  <2> QED BY <2>1
<1>2. CASE UpdateOrderStatus(to, paid)
  <2>1. SetStatus(to) /\ to \in AllowedTransitions[orderStatus]
    BY <1>2 DEF UpdateOrderStatus, CanTransition
  <2>2. restocked' = IF to = "CANCELLED" THEN restocked + 1 ELSE restocked
    BY <1>2 DEF UpdateOrderStatus
  <2>3. orderStatus \notin {"CANCELLED", to} /\ Stage(orderStatus) < Stage(to)
    BY <2>1 DEF AllowedTransitions
  <2> QED BY <2>1, <2>2, <2>3
<1>3. CASE ApplyStatusChange("CONFIRMED")
  BY <1>3 DEF ApplyStatusChange, CanApplyExternalStatusChange
<1> QED BY <1>1, <1>2, <1>3

\* A recorded change of status is well typed.
LEMMA AuditedStepType ==
  ASSUME OrderTypeOK, AuditedStep
  PROVE  orderStatus' \in OrderStatus /\ history' \in Seq(HistoryRow)
<1>1. CASE UNCHANGED <<orderStatus, history>>
  BY <1>1 DEF OrderTypeOK
<1>2. CASE AuditedMove
  <2>1. PICK to \in OrderStatus : SetStatus(to)
    BY <1>2 DEF AuditedMove
  <2>2. [from |-> orderStatus, to |-> to] \in HistoryRow
    BY DEF OrderTypeOK, HistoryRow
  <2> QED BY <2>1, <2>2 DEF SetStatus, OrderTypeOK
<1> QED BY <1>1, <1>2 DEF AuditedStep

\* An order step keeps the order well typed.
LEMMA OrderStepType ==
  ASSUME OrderTypeOK, OrderStep PROVE OrderTypeOK'
<1>1. AuditedStep
  BY DEF OrderStep, OrderMove, AuditedStep, AuditedMove, orderVars
<1>2. restocked' \in Nat
  BY DEF OrderStep, OrderMove, orderVars, OrderTypeOK
<1> QED BY <1>1, <1>2, AuditedStepType DEF OrderTypeOK

\* A recorded change of status keeps the audit trail a chain.
LEMMA AuditedStepChain ==
  ASSUME OrderTypeOK, HistoryIsChain, AuditedStep PROVE HistoryIsChain'
<1>1. CASE UNCHANGED <<orderStatus, history>>
  BY <1>1 DEF HistoryIsChain
<1>2. CASE AuditedMove
  <2>1. PICK to \in OrderStatus : SetStatus(to) /\ orderStatus # to
    BY <1>2 DEF AuditedMove
  <2> DEFINE row == [from |-> orderStatus, to |-> to]
             n   == Len(history)
  <2>2. /\ history' = Append(history, row) /\ orderStatus' = to
        /\ history \in Seq(HistoryRow) /\ row \in HistoryRow /\ n \in Nat
    BY <2>1 DEF SetStatus, OrderTypeOK, HistoryRow
  <2>3. /\ Len(history') = n + 1
        /\ history'[n + 1] = row
        /\ \A i \in 1 .. n : history'[i] = history[i]
    BY <2>2
  <2>4. n > 0 /\ history[n].to = orderStatus
    BY <2>2 DEF HistoryIsChain
  <2>5. \A i \in 1 .. n : history'[i + 1].from = history'[i].to
    <3> SUFFICES ASSUME NEW i \in 1 .. n PROVE history'[i + 1].from = history'[i].to
      OBVIOUS
    <3>1. CASE i = n  BY <3>1, <2>2, <2>3, <2>4
    <3>2. CASE i # n
      <4>1. i \in 1 .. n - 1 /\ i + 1 \in 1 .. n  BY <3>2, <2>2
      <4> QED BY <4>1, <2>3 DEF HistoryIsChain
    <3> QED BY <3>1, <3>2
  <2>6. \A i \in 1 .. n + 1 : history'[i].from # history'[i].to
    <3> SUFFICES ASSUME NEW i \in 1 .. n + 1 PROVE history'[i].from # history'[i].to
      OBVIOUS
    <3>1. CASE i = n + 1  BY <3>1, <2>1, <2>3
    <3>2. CASE i # n + 1
      <4>1. i \in 1 .. n  BY <3>2, <2>2
      <4> QED BY <4>1, <2>3 DEF HistoryIsChain
    <3> QED BY <3>1, <3>2
  <2>7. history'[1].from = NoStatus
    BY <2>2, <2>3, <2>4 DEF HistoryIsChain
  <2> QED BY <2>2, <2>3, <2>5, <2>6, <2>7 DEF HistoryIsChain
<1> QED BY <1>1, <1>2 DEF AuditedStep

\* An order step keeps the audit trail a chain.
LEMMA OrderStepChain ==
  ASSUME OrderTypeOK, HistoryIsChain, OrderStep PROVE HistoryIsChain'
<1>1. OrderMove => AuditedMove
  BY DEF OrderMove, AuditedMove
<1>2. AuditedStep
  BY <1>1 DEF OrderStep, AuditedStep, orderVars
<1> QED BY <1>2, AuditedStepChain

\* Stock goes back with the first cancellation, and there is only one.
LEMMA OrderStepRestock ==
  ASSUME OrderTypeOK, RestockedIffCancelled, OrderStep
  PROVE  RestockedIffCancelled'
<1>1. CASE UNCHANGED orderVars
  BY <1>1 DEF RestockedIffCancelled, orderVars
<1>2. CASE OrderMove
  <2>1. PICK to \in OrderStatus :
          /\ SetStatus(to)
          /\ orderStatus # "CANCELLED"
          /\ restocked' = IF to = "CANCELLED" THEN restocked + 1 ELSE restocked
    BY <1>2 DEF OrderMove
  <2>2. restocked = 0 /\ orderStatus' = to
    BY <2>1 DEF RestockedIffCancelled, SetStatus
  <2> QED BY <2>1, <2>2 DEF RestockedIffCancelled
<1> QED BY <1>1, <1>2 DEF OrderStep

\* An order step never leads back.
LEMMA OrderStepForward ==
  ASSUME OrderTypeOK, OrderStep
  PROVE  Stage(orderStatus) <= Stage(orderStatus')
<1>1. Stage(orderStatus) \in Nat
  BY DEF Stage
<1>2. CASE UNCHANGED orderVars
  BY <1>1, <1>2 DEF orderVars
<1>3. CASE OrderMove
  <2>1. PICK to \in OrderStatus : SetStatus(to) /\ Stage(orderStatus) < Stage(to)
    BY <1>3 DEF OrderMove
  <2>2. Stage(to) \in Nat /\ orderStatus' = to
    BY <2>1 DEF Stage, SetStatus
  <2>3. Stage(orderStatus') = Stage(to)
    BY <2>2 DEF Stage
  <2> QED BY <1>1, <2>1, <2>2, <2>3
<1> QED BY <1>2, <1>3 DEF OrderStep
===============================================================================
