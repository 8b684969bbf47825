------------------------------- MODULE Proration -------------------------------
(***************************************************************************)
(* From the price of a basket to the last refund of it: subtotal, discount *)
(* and total (persistOrder of src/src/orders/orders.service.ts), what      *)
(* Stripe is asked for, and the share of it that refunding some pieces     *)
(* gives back (src/src/payments/payments.service.ts).  Amounts are         *)
(* hundredths.                                                             *)
(***************************************************************************)
EXTENDS Money, FiniteSets

CONSTANTS
  Prices, Amounts,       \* unitPrice and quantity of the two items
  DiscountTypes, Values, \* discounts.type and discounts.value
  Shipping               \* shippingFlatFee

ASSUME ProrationAssumption ==
  /\ Prices \subseteq Nat
  /\ Amounts \subseteq Nat \ {0}
  /\ Values \subseteq Nat
  /\ Shipping \subseteq Nat

VARIABLES
  deal,      \* the order, as its customer chose it
  pieces,    \* pieces of each item that have not been refunded
  returned,  \* sum of the amounts of the refund items
  parts      \* how many refund items there are

prorationVars == <<deal, pieces, returned, parts>>

ItemNo == {1, 2}
Deal == [price : [ItemNo -> Prices], quantity : [ItemNo -> Amounts],
         type : DiscountTypes, value : Values, shipping : Shipping]

DealSubtotal == deal.price[1] * deal.quantity[1] + deal.price[2] * deal.quantity[2]
DealTotal ==
  OrderTotal(DealSubtotal, deal.shipping, DiscountAmount(deal.type, deal.value, DealSubtotal))

ProrationInit ==
  /\ deal \in Deal
  /\ pieces = deal.quantity
  /\ returned = 0
  /\ parts = 0

\* One refund of some pieces of one item; a refund that would exceed what was
\* paid is refused.
RefundPieces(i, n) ==
  LET amount == ItemAmount(deal.price[i], n, DealTotal, DealSubtotal) IN
  /\ n <= pieces[i]
  /\ returned + amount <= DealTotal
  /\ pieces' = [pieces EXCEPT ![i] = @ - n]
  /\ returned' = returned + amount
  /\ parts' = parts + 1
  /\ UNCHANGED deal

ProrationNext == \E i \in ItemNo, n \in Amounts : RefundPieces(i, n)

ProrationSpec == ProrationInit /\ [][ProrationNext]_prorationVars

-----------------------------------------------------------------------------
\* The sticker price of what has been refunded.
Refunded ==
  LET gone == [i \in ItemNo |-> deal.price[i] * (deal.quantity[i] - pieces[i])]
  IN  gone[1] + gone[2]

Distance(a, b) == IF a < b THEN b - a ELSE a - b

\* However an order is taken back, piece by piece or at once, what has been
\* returned is the customer's share of what was paid to half a hundredth for
\* each refund item; so refunding everything returns the payment, up to that.
SharesAddUp ==
  DealSubtotal > 0 =>
    2 * Distance(returned * DealSubtotal, Refunded * DealTotal) <= parts * DealSubtotal

\* An amount that Stripe has been asked for is read back as it was, in every
\* currency that has hundredths, and to half a unit in one that has none.
StripeAmountsReadBack ==
  \A decimals \in CurrencyDecimals :
    LET back == FromStripeAmount(ToStripeAmount(DealTotal, decimals), decimals)
    IN  IF decimals = 0 THEN Distance(back, DealTotal) <= 50 ELSE back = DealTotal

\* No rounding loses money: neither that of the refunds of an order, nor that of
\* the amounts Stripe is asked for.
AmountsAgree == SharesAddUp /\ StripeAmountsReadBack

================================================================================
