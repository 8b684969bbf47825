--------------------------- MODULE OrderLifecycle ---------------------------
(***************************************************************************)
(* The status of one order, its audit trail and the stock it gives back     *)
(* (src/src/orders/orders.service.ts).  Every operation here runs in a      *)
(* transaction that takes the row lock of the order before it reads it and  *)
(* holds it until commit, so each of them is one step.  The modules that    *)
(* drive an order - payments, refunds - extend this one and say with `paid` *)
(* what assertNotPaid finds.                                                *)
(***************************************************************************)
EXTENDS OrderPolicy, Sequences

VARIABLES
  orderStatus,  \* orders.status
  history,      \* the rows of order_status_history, oldest first
  restocked     \* how many times the order's items went back to stock

orderVars == <<orderStatus, history, restocked>>

\* fromStatus of the row written when the order is placed.
NoStatus == "NONE"

HistoryRow == [from : OrderStatus \cup {NoStatus}, to : OrderStatus]

\* A freshly placed order, as persistOrder leaves it.
OrderInit ==
  /\ orderStatus = "PENDING"
  /\ history = <<[from |-> NoStatus, to |-> "PENDING"]>>
  /\ restocked = 0

\* Wrong forms, one slip each, of definitions of this module: `SetStatus` that
\* captures fromStatus after the assignment, `CancelOrder` without
\* assertNotPaid, `UpdateOrderStatus` without restoreStock.  The properties
\* are shown to notice them.
SetStatusReadsLate(to) ==
  /\ orderStatus' = to
  /\ history' = Append(history, [from |-> to, to |-> to])

\* order.status = to; save(order); recordStatusChange(from, to)
SetStatus(to) ==
  /\ orderStatus' = to
  /\ history' = Append(history, [from |-> orderStatus, to |-> to])

RestoreStock == restocked' = restocked + 1

CancelOrderUnpaidOrNot(paid) ==
  /\ orderStatus \in CancellableStatuses
  /\ RestoreStock
  /\ SetStatus("CANCELLED")

UpdateOrderStatusKeepsStock(to, paid) ==
  /\ CanTransition(orderStatus, to)
  /\ to = "CANCELLED" => ~paid
  /\ SetStatus(to)
  /\ UNCHANGED restocked

\* PATCH /orders/me/:id/cancel
CancelOrder(paid) ==
  /\ orderStatus \in CancellableStatuses
  /\ ~paid
  /\ RestoreStock
  /\ SetStatus("CANCELLED")

\* PATCH /admin/orders/:id/status
UpdateOrderStatus(to, paid) ==
  /\ CanTransition(orderStatus, to)
  /\ IF to = "CANCELLED" THEN ~paid /\ RestoreStock
                         ELSE UNCHANGED restocked
  /\ SetStatus(to)

\* The status change another module asks for inside its own transaction: a
\* no-op when the order is there already or when the change is not applicable.
ApplyStatusChange(to) ==
  IF orderStatus # to /\ CanApplyExternalStatusChange(orderStatus, to)
  THEN SetStatus(to) /\ UNCHANGED restocked
  ELSE UNCHANGED orderVars

-----------------------------------------------------------------------------
OrderTypeOK ==
  /\ orderStatus \in OrderStatus
  /\ history \in Seq(HistoryRow)
  /\ restocked \in Nat

\* The audit trail tells the whole story of the order: it starts with the
\* placement, every row starts where the row before it ended, no row is a
\* change from a status to itself, and the last one ends in the order's status.
HistoryIsChain ==
  /\ history # <<>>
  /\ history[1].from = NoStatus
  /\ \A i \in 1 .. Len(history) - 1 : history[i + 1].from = history[i].to
  /\ \A i \in 1 .. Len(history) : history[i].from # history[i].to
  /\ history[Len(history)].to = orderStatus

\* Stock goes back exactly once for a cancelled order and never for another
\* one: cancel and updateStatus both restore it, and whichever comes second
\* must find the order CANCELLED (orders.service.ts:466-475).
RestockedIffCancelled == restocked = IF orderStatus = "CANCELLED" THEN 1 ELSE 0

\* How far fulfilment has come; CANCELLED is the end of another road.
Stage(s) == CASE s = "PENDING"    -> 0
              [] s = "CONFIRMED"  -> 1
              [] s = "PROCESSING" -> 2
              [] s = "SHIPPED"    -> 3
              [] s = "DELIVERED"  -> 4
              [] OTHER            -> 5

=============================================================================
