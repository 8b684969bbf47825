----------------------------- MODULE OrderPolicy -----------------------------
(***************************************************************************)
(* The decisions of OrderPolicy (src/src/orders/policies/order.policy.ts):  *)
(* which status an order may be edited, cancelled or moved from.  A policy  *)
(* method that throws is an operator that is false.                         *)
(***************************************************************************)
EXTENDS Naturals

OrderStatus == {"PENDING", "CONFIRMED", "PROCESSING", "SHIPPED", "DELIVERED",
                "CANCELLED", "PARTIALLY_REFUNDED", "REFUNDED"}

\* The table an administrator's status change is checked against.
AllowedTransitions ==
  [s \in OrderStatus |->
     CASE s = "PENDING"    -> {"CONFIRMED", "CANCELLED"}
       [] s = "CONFIRMED"  -> {"PROCESSING", "CANCELLED"}
       [] s = "PROCESSING" -> {"SHIPPED", "CANCELLED"}
       [] s = "SHIPPED"    -> {"DELIVERED"}
       [] OTHER            -> {}]

CanTransition(from, to) == to \in AllowedTransitions[from]

CancellableStatuses == {"PENDING", "CONFIRMED"}

\* Wrong form of the next definition: no check at all.
CanApplyAnyChange(from, to) == TRUE

\* A payment confirmation is only applied to an order that is still PENDING.
CanApplyExternalStatusChange(from, to) == to = "CONFIRMED" => from = "PENDING"

=============================================================================
