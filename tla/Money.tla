-------------------------------- MODULE Money --------------------------------
(***************************************************************************)
(* The arithmetic of prices, discounts and refunds.  Amounts of the         *)
(* application are integers: hundredths of the currency's unit, the         *)
(* precision of its decimal(12,2) columns (src/src/common/utils/            *)
(* money.util.ts).  Big.js adds, subtracts and multiplies exactly, rounds   *)
(* half up, and divides to 20 decimal places, also rounding half up.        *)
(***************************************************************************)
EXTENDS Naturals, Integers

\* n/d rounded to an integer, halves up.
HalfUp(n, d) == (2 * n + d) \div (2 * d)

\* (10^20) % d, the remainder a division to 20 places leaves behind.
TwentyPlaces(d) ==
  LET power[k \in 0 .. 20] == IF k = 0 THEN 1 % d ELSE (10 * power[k - 1]) % d
  IN  power[20]

\* new Big(n).div(d) is less than n/d.
QuotientIsShort(n, d) == LET r == (n * TwentyPlaces(d)) % d IN r > 0 /\ 2 * r < d

MinOf(a, b) == IF a <= b THEN a ELSE b

\* computeAmount; `value` is a whole percentage or an amount.
DiscountAmount(type, value, subtotal) ==
  MinOf(IF type = "PERCENT" THEN HalfUp(subtotal * value, 100) ELSE value, subtotal)

\* orders.total, and from it payments.amount.
OrderTotal(subtotal, shipping, discount) == subtotal + shipping - discount

\* Wrong form of ItemAmount: the sticker price, discount and shipping ignored.
ItemAmountUnprorated(price, qty, paid, subtotal) == price * qty

\* What refunding qty pieces of one item gives back: the sticker price prorated
\* by paid/subtotal.  The ratio is a quotient of 20 places, so an amount that
\* is exactly half a hundredth goes down when the quotient fell short.
ItemAmount(price, qty, paid, subtotal) ==
  IF subtotal = 0 THEN price * qty
  ELSE LET n == price * qty * paid
           half == (2 * n) % (2 * subtotal) = subtotal
       IN  IF half /\ QuotientIsShort(paid, subtotal) THEN n \div subtotal
                                                      ELSE HalfUp(n, subtotal)

\* The currencies differ in the decimals of Stripe's smallest unit.
CurrencyDecimals == {0, 2, 3}

MinorUnitFactor(decimals) == 10 ^ decimals

\* toStripeAmount of an amount in hundredths.
ToStripeAmount(amount, decimals) == HalfUp(amount * MinorUnitFactor(decimals), 100)

\* toMoney(fromStripeAmount(units)) in hundredths.
FromStripeAmount(units, decimals) == HalfUp(units * 100, MinorUnitFactor(decimals))

=============================================================================
