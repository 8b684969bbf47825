-------------------------------- MODULE Seeding --------------------------------
(***************************************************************************)
(* The seed script (src/src/database/seeds), run again after a crash or on *)
(* a database that has been seeded before.                                 *)
(*                                                                         *)
(* A stage saves the rows of an item one after another, without a          *)
(* transaction.  It skips an item whose first row it finds, and one that   *)
(* misses a row it needs.  Orders are not looked for, so every run adds    *)
(* them again; payments, refunds and refund requests then take any order   *)
(* in the right status.                                                    *)
(***************************************************************************)
EXTENDS Naturals, Sequences, SequencesExt

CONSTANT MaxOrders   \* bound on the orders that runs may add

ASSUME SeedAssumption == MaxOrders \in Nat

VARIABLES
  seeded,    \* rows of the items that are looked for
  orders,    \* the orders, as they were added
  stage,     \* the stage that runs; 0 when none does
  saved,     \* how much of the stage has been done
  chosen,    \* the order that is being refunded, 0 when none is
  torn       \* for the property: a run died between two rows of an item

seedVars == <<seeded, orders, stage, saved, chosen, torn>>

-----------------------------------------------------------------------------
(* The stages, each with one item of its table.                              *)

Item(rows, needs) == [does |-> "rows", rows |-> rows, needs |-> needs]

SeedPermissions == Item(<<"permission">>, {})
SeedRoles       == Item(<<"role">>, {})
SeedUsers       == Item(<<"user", "identity">>, {"role"})
SeedCategories  == Item(<<"category">>, {})
SeedProducts    == Item(<<"product", "images", "variants">>, {"category"})
SeedAddresses   == Item(<<"first_address", "second_address">>, {"user"})
SeedCarts       == Item(<<"cart", "cart_items">>, {"user", "variants"})
SeedReviews     == Item(<<"review">>, {"user", "variants"})
SeedWishlists   == Item(<<"wishlist">>, {"user", "variants"})
SeedDiscounts   == Item(<<"discount">>, {})
SeedBanners     == Item(<<"banner">>, {})

\* The orders that matter to the stages after them: one whose payment is refunded
\* in part, another customer's that is delivered too and never paid, and one for
\* which a refund is requested.
SeedOrders ==
  [does |-> "orders", needs |-> {"user", "first_address", "variants"},
   kinds |-> <<"polo", "phone", "laptop">>]
StatusSeeded(kind) == IF kind = "laptop" THEN "processing" ELSE "delivered"

SeedPayments == [does |-> "payments", kinds |-> <<"polo", "laptop">>]

\* A wrong form: the carts come before the variants they need.
StagesCartsFirst ==
  <<SeedPermissions, SeedRoles, SeedUsers, SeedCarts, SeedCategories, SeedProducts, SeedAddresses,
    SeedOrders, SeedPayments, [does |-> "refund"], [does |-> "request"],
    SeedReviews, SeedWishlists, SeedDiscounts, SeedBanners>>

Stages ==
  <<SeedPermissions, SeedRoles, SeedUsers, SeedCategories, SeedProducts, SeedAddresses,
    SeedOrders, SeedPayments, [does |-> "refund"], [does |-> "request"],
    SeedCarts, SeedReviews, SeedWishlists, SeedDiscounts, SeedBanners>>

Seeded == Len(Stages) + 1
Does     == IF stage \in DOMAIN Stages THEN Stages[stage].does ELSE "nothing"

SeedTypeOK ==
  /\ stage \in 0 .. Seeded /\ saved \in Nat
  /\ Len(orders) <= MaxOrders
  /\ \A i \in DOMAIN orders :
       /\ orders[i].status \in {"delivered", "processing", "partly_refunded"}
       /\ orders[i].payment \in {"none", "completed", "partly_refunded"}
       /\ orders[i].requested => orders[i].payment # "none"
  /\ chosen \in 0 .. Len(orders)

SeedInit == seeded = {} /\ orders = <<>> /\ stage = 0 /\ saved = 0 /\ chosen = 0 /\ torn = FALSE

\* The next thing that the stage has to do, or the next stage.
NextThing(things) ==
  IF saved + 1 < things THEN stage' = stage /\ saved' = saved + 1
                        ELSE stage' = stage + 1 /\ saved' = 0

-----------------------------------------------------------------------------
StartSeeding ==
  /\ stage \in {0, Seeded}
  /\ Len(orders) + Len(SeedOrders.kinds) <= MaxOrders
  /\ stage' = 1 /\ saved' = 0
  /\ UNCHANGED <<seeded, orders, chosen, torn>>

\* The item has been seeded, at least its first row, or something it needs is missing.
Skips(item) == Head(item.rows) \in seeded \/ ~(item.needs \subseteq seeded)

SkipItem ==
  /\ Does = "rows" /\ saved = 0 /\ Skips(Stages[stage])
  /\ stage' = stage + 1
  /\ UNCHANGED <<seeded, orders, saved, chosen, torn>>

SaveSeed ==
  /\ Does = "rows"
  /\ saved > 0 \/ ~Skips(Stages[stage])
  /\ seeded' = seeded \cup {Stages[stage].rows[saved + 1]}
  /\ NextThing(Len(Stages[stage].rows))
  /\ UNCHANGED <<orders, chosen, torn>>

SkipOrders ==
  /\ Does = "orders" /\ ~(SeedOrders.needs \subseteq seeded)
  /\ stage' = stage + 1
  /\ UNCHANGED <<seeded, orders, saved, chosen, torn>>

\* Each order is saved first, and then its items.
SaveOrder ==
  LET kind == SeedOrders.kinds[saved \div 2 + 1]
      n    == Len(orders)
  IN
  /\ Does = "orders" /\ SeedOrders.needs \subseteq seeded
  /\ orders' =
       IF saved % 2 = 0
       THEN Append(orders, [kind |-> kind, items |-> FALSE, status |-> StatusSeeded(kind),
                            payment |-> "none", refunded |-> FALSE, requested |-> FALSE])
       ELSE [orders EXCEPT ![n].items = TRUE]
  /\ NextThing(2 * Len(SeedOrders.kinds))
  /\ UNCHANGED <<seeded, chosen, torn>>

InStatus(kinds) == {i \in DOMAIN orders : /\ orders[i].kind \in kinds
                                          /\ orders[i].status = StatusSeeded(orders[i].kind)}

\* One of the user's orders in the status, whichever the database finds.
SavePayment ==
  LET found == InStatus({SeedPayments.kinds[saved + 1]}) IN
  /\ Does = "payments"
  /\ \/ found = {} /\ UNCHANGED orders
     \/ \E i \in found :
          orders' = IF orders[i].payment = "none"
                    THEN [orders EXCEPT ![i].payment = "completed"] ELSE orders
  /\ NextThing(Len(SeedPayments.kinds))
  /\ UNCHANGED <<seeded, chosen, torn>>

\* What a refund and a request are checked for.
RefundableSeed(i, kind) ==
  orders[i].payment = "completed" /\ orders[i].kind = kind /\ orders[i].items

\* Any delivered order, whosever it is: the refund first, then the payment, then
\* the order.
SaveRefund ==
  /\ Does = "refund"
  /\ LET found == InStatus({"polo", "phone"}) IN
     \/ /\ saved = 0
        /\ \E i \in found :
             /\ RefundableSeed(i, "polo") /\ ~orders[i].refunded
             /\ orders' = [orders EXCEPT ![i].refunded = TRUE]
             /\ chosen' = i
        /\ NextThing(3)
     \/ /\ saved = 0
        /\ found = {} \/ \E i \in found : ~RefundableSeed(i, "polo") \/ orders[i].refunded
        /\ stage' = stage + 1
        /\ UNCHANGED <<orders, saved, chosen>>
     \/ /\ saved = 1
        /\ orders' = [orders EXCEPT ![chosen].payment = "partly_refunded"]
        /\ UNCHANGED chosen
        /\ NextThing(3)
     \/ /\ saved = 2
        /\ orders' = [orders EXCEPT ![chosen].status = "partly_refunded"]
        /\ chosen' = 0
        /\ NextThing(3)
  /\ UNCHANGED <<seeded, torn>>

SaveRefundRequest ==
  LET found == InStatus({"laptop"}) IN
  /\ Does = "request"
  /\ \/ found = {} /\ UNCHANGED orders
     \/ \E i \in found :
          orders' = IF RefundableSeed(i, "laptop") /\ ~orders[i].requested
                    THEN [orders EXCEPT ![i].requested = TRUE] ELSE orders
  /\ NextThing(1)
  /\ UNCHANGED <<seeded, chosen, torn>>

\* The script dies: a payment or a whole order more or less is made up for by the
\* next run, an item that has its first row alone is not.
SeedingDies ==
  /\ stage \in DOMAIN Stages
  /\ torn' = (torn \/ (saved > 0 /\ Does \in {"rows", "refund"})
                   \/ (saved % 2 = 1 /\ Does = "orders"))
  /\ stage' = 0 /\ saved' = 0 /\ chosen' = 0
  /\ UNCHANGED <<seeded, orders>>

SeedNext ==
  \/ StartSeeding \/ SkipItem \/ SaveSeed \/ SkipOrders \/ SaveOrder
  \/ SavePayment \/ SaveRefund \/ SaveRefundRequest \/ SeedingDies

SeedSpec == SeedInit /\ [][SeedNext]_seedVars

-----------------------------------------------------------------------------
AllRows == UNION {ToSet(s.rows) : s \in {t \in ToSet(Stages) : t.does = "rows"}}

\* A run that ends has seeded everything, whatever runs died before it, and each
\* refund has its payment and its order refunded in part: unless one of those
\* runs died between two rows that belong together, which no later run repairs.
SeedsAgree ==
  torn \/ /\ stage = Seeded => AllRows \subseteq seeded /\ \A i \in DOMAIN orders : orders[i].items
          /\ \A i \in DOMAIN orders \ {chosen} :
               /\ orders[i].refunded <=> orders[i].payment = "partly_refunded"
               /\ orders[i].refunded <=> orders[i].status = "partly_refunded"

===============================================================================
