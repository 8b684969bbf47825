---------------------------- MODULE PaymentPolicy ----------------------------
(***************************************************************************)
(* The decisions of PaymentPolicy                                           *)
(* (src/src/payments/policies/payment.policy.ts) and the status enums of    *)
(* the payments module.                                                     *)
(***************************************************************************)

PaymentStatus == {"PENDING", "COMPLETED", "FAILED",
                  "PARTIALLY_REFUNDED", "REFUNDED"}

TerminalStatuses   == {"COMPLETED", "PARTIALLY_REFUNDED", "REFUNDED"}
RefundableStatuses == {"COMPLETED", "PARTIALLY_REFUNDED"}
SystemOnlyStatuses == {"PARTIALLY_REFUNDED", "REFUNDED"}

\* What an administrator may assign to a payment directly.
AssignableStatuses == PaymentStatus \ SystemOnlyStatuses

\* The statuses that stop a second payment from being created for the order.
ActiveStatuses == {"PENDING", "COMPLETED", "PARTIALLY_REFUNDED"}

UnpayableOrderStatuses == {"CANCELLED", "REFUNDED", "PARTIALLY_REFUNDED"}

\* Money of the order is still held: what assertNotPaid looks for.
PaidStatuses == {"COMPLETED", "PARTIALLY_REFUNDED"}

=============================================================================
