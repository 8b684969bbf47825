------------------------------ MODULE OrderStock ------------------------------
(***************************************************************************)
(* Placing, editing and cancelling orders against the stock of the variants *)
(* and the uses of a discount code (src/src/orders/orders.service.ts,       *)
(* src/src/discounts/discounts.service.ts, update and updateVariant of      *)
(* src/src/products/products.service.ts).                                   *)
(*                                                                          *)
(* A transaction of these services takes the row of every variant by a      *)
(* conditional UPDATE or an increment and keeps it until commit, so it is   *)
(* one step.  What a request reads before its transaction, without a lock,  *)
(* is a step of its own, and the request keeps what it read.                *)
(***************************************************************************)
EXTENDS OrderPolicy, PaymentPolicy, EntitySave, Integers, FiniteSets, Functions

CONSTANTS
  Variants,
  Orders,
  Edits,          \* PATCH /orders/me/:id requests
  Quantities,     \* what a client may ask for of one variant
  Supply,         \* [Variants -> Nat], the stock before any order
  Price,          \* [Variants -> Nat]
  UsageLimit,     \* discounts.usageLimit
  MinOrderValue,  \* discounts.minOrderValue
  Managed         \* the variants of the product an administrator edits meanwhile

ASSUME StockAssumption ==
  /\ Orders # {} /\ IsFiniteSet(Orders)
  /\ Quantities \subseteq Nat \ {0}
  /\ Supply \in [Variants -> Nat]
  /\ Price \in [Variants -> Nat]
  /\ UsageLimit \in Nat
  /\ MinOrderValue \in Nat
  /\ Managed \subseteq Variants

VARIABLES
  stock,         \* product_variants.stock
  active,        \* product_variants.isActive
  usedCount,     \* discounts.usedCount
  order,         \* rows of orders with their items
  paid,          \* orders that have a completed payment
  placing,       \* running POST /orders requests
  edit,          \* running PATCH /orders/me/:id requests
  variantEdit,   \* the variants an administrator's request has loaded, and
                 \* what its save has read again
  discountEdit   \* the usedCount an administrator's update has loaded

orderRows  == <<order, paid>>
stockRows  == <<stock, active>>
adminVars  == <<variantEdit, discountEdit>>
vars == <<stock, active, usedCount, order, paid, placing, edit, variantEdit, discountEdit>>

Nothing == [v \in Variants |-> 0]
Basket  == [Variants -> Quantities \cup {0}] \ {Nothing}

\* totals is the basket subtotal, discount and total were computed from; coded
\* orders have used the discount code.
OrderRow == [status : OrderStatus \cup {"NONE"},
             items  : Basket \cup {Nothing},
             totals : Basket \cup {Nothing},
             coded  : BOOLEAN]
NoOrder == [status |-> "NONE", items |-> Nothing, totals |-> Nothing, coded |-> FALSE]

PlacingRow == [at : {"idle", "resolved", "done"}, items : Basket \cup {Nothing}, coded : BOOLEAN]

\* An edit replaces the items or only notes and address; `read` is the order
\* as findOne returned it.
EditRow == [at : {"items", "notes"}, id : Orders, read : OrderRow,
            items : Basket \cup {Nothing}]

\* Requests that have not begun or have been answered.
NotBegun == [at |-> "idle", items |-> Nothing, coded |-> FALSE]
Answered == [at |-> "done", items |-> Nothing, coded |-> FALSE]
NoEdit   == [at |-> "idle"]
IdleVariants == [at |-> "idle"]
Ended    == [at |-> "done"]

Subtotal(items) == SumFunction([v \in Variants |-> Price[v] * items[v]])

Init ==
  /\ stock = Supply
  /\ active = [v \in Variants |-> TRUE]
  /\ usedCount = 0
  /\ order = [o \in Orders |-> NoOrder]
  /\ paid = [o \in Orders |-> FALSE]
  /\ placing = [o \in Orders |-> NotBegun]
  /\ edit = [e \in Edits |-> NoEdit]
  /\ variantEdit = IdleVariants
  /\ discountEdit = [at |-> "idle"]

-----------------------------------------------------------------------------
(* Placing an order: create(), and checkout() once it has read the cart.     *)

AllActive(items) == \A v \in Variants : items[v] > 0 => active[v]

\* resolveOrderItems and resolveDiscount, before the transaction.
ResolveOrder(o, items, coded) ==
  /\ placing[o].at = "idle"
  /\ AllActive(items)
  /\ coded => usedCount < UsageLimit /\ Subtotal(items) >= MinOrderValue
  /\ placing' = [placing EXCEPT ![o] = [at |-> "resolved", items |-> items, coded |-> coded]]
  /\ UNCHANGED <<stockRows, orderRows, usedCount, edit, adminVars>>

\* decrementStock accepts every item when `from` is what lies in stock.
CanTake(items, from) ==
  \A v \in Variants : items[v] > 0 => active[v] /\ items[v] <= from[v]

\* The transaction of persistOrder.
PersistOrder(o) ==
  LET items == placing[o].items  coded == placing[o].coded IN
  /\ placing[o].at = "resolved"
  /\ CanTake(items, stock)
  /\ coded => usedCount < UsageLimit
  /\ stock' = [v \in Variants |-> stock[v] - items[v]]
  /\ order' = [order EXCEPT ![o] = [status |-> "PENDING", items |-> items,
                                    totals |-> items, coded |-> coded]]
  /\ usedCount' = IF coded THEN usedCount + 1 ELSE usedCount
  /\ placing' = [placing EXCEPT ![o] = Answered]
  /\ UNCHANGED <<active, paid, edit, adminVars>>

\* Stock or uses have run out since: the transaction is rolled back.
RefuseOrder(o) ==
  LET items == placing[o].items  coded == placing[o].coded IN
  /\ placing[o].at = "resolved"
  /\ ~CanTake(items, stock) \/ (coded /\ usedCount >= UsageLimit)
  /\ placing' = [placing EXCEPT ![o] = Answered]
  /\ UNCHANGED <<stockRows, orderRows, usedCount, edit, adminVars>>

-----------------------------------------------------------------------------
(* Editing: findOne and assertEditable run before the transaction.           *)

BeginEdit(e, o, kind, items) ==
  /\ edit[e].at = "idle"
  /\ order[o].status = "PENDING"
  /\ edit' = [edit EXCEPT ![e] = [at |-> kind, id |-> o, read |-> order[o], items |-> items]]
  /\ UNCHANGED <<stockRows, orderRows, usedCount, placing, adminVars>>

\* What lies in stock after restoreStock of the items that were read.
Restored(e) == [v \in Variants |-> stock[v] + edit[e].read.items[v]]

\* The new items can be had and the discount still applies to them.
EditAccepted(e) ==
  /\ CanTake(edit[e].items, Restored(e))
  /\ edit[e].read.coded => Subtotal(edit[e].items) >= MinOrderValue

\* A wrong form: the totals of the order are left as they were.
ReplaceItemsOnly(e) ==
  /\ edit[e].at = "items"
  /\ EditAccepted(e)
  /\ stock' = [v \in Variants |-> Restored(e)[v] - edit[e].items[v]]
  /\ order' = [order EXCEPT ![edit[e].id].items = edit[e].items]
  /\ edit' = [edit EXCEPT ![e] = Ended]
  /\ UNCHANGED <<active, paid, usedCount, placing, adminVars>>

ReplaceItems(e) ==
  /\ edit[e].at = "items"
  /\ EditAccepted(e)
  /\ stock' = [v \in Variants |-> Restored(e)[v] - edit[e].items[v]]
  /\ order' = [order EXCEPT ![edit[e].id] = [@ EXCEPT !.items = edit[e].items,
                                                      !.totals = edit[e].items]]
  /\ edit' = [edit EXCEPT ![e] = Ended]
  /\ UNCHANGED <<active, paid, usedCount, placing, adminVars>>

RefuseEdit(e) ==
  /\ edit[e].at = "items"
  /\ ~EditAccepted(e)
  /\ edit' = [edit EXCEPT ![e] = Ended]
  /\ UNCHANGED <<stockRows, orderRows, usedCount, placing, adminVars>>

\* Without items, manager.update still writes the totals that were read.
EditNotes(e) ==
  /\ edit[e].at = "notes"
  /\ order' = [order EXCEPT ![edit[e].id].totals = edit[e].read.totals]
  /\ edit' = [edit EXCEPT ![e] = Ended]
  /\ UNCHANGED <<stockRows, paid, usedCount, placing, adminVars>>

-----------------------------------------------------------------------------
(* Status changes, under the row lock of the order.                          *)

\* restoreStock of the items the order has now, and status CANCELLED.
RestoreAndCancel(o) ==
  /\ stock' = [v \in Variants |-> stock[v] + order[o].items[v]]
  /\ order' = [order EXCEPT ![o].status = "CANCELLED"]

\* A wrong form: without assertNotPaid.
CancelPaidOrNot(o) ==
  /\ order[o].status \in CancellableStatuses
  /\ RestoreAndCancel(o)
  /\ UNCHANGED <<active, usedCount, paid, placing, edit, adminVars>>

Cancel(o) ==
  /\ order[o].status \in CancellableStatuses
  /\ ~paid[o]
  /\ RestoreAndCancel(o)
  /\ UNCHANGED <<active, usedCount, paid, placing, edit, adminVars>>

\* A wrong form: the administrator's cancellation keeps the stock.
UpdateStatusKeepsStock(o, to) ==
  /\ order[o].status # "NONE"
  /\ CanTransition(order[o].status, to)
  /\ to = "CANCELLED" => ~paid[o]
  /\ order' = [order EXCEPT ![o].status = to]
  /\ UNCHANGED <<stockRows, usedCount, paid, placing, edit, adminVars>>

UpdateStatus(o, to) ==
  /\ order[o].status # "NONE"
  /\ CanTransition(order[o].status, to)
  /\ IF to = "CANCELLED"
     THEN ~paid[o] /\ RestoreAndCancel(o)
     ELSE order' = [order EXCEPT ![o].status = to] /\ UNCHANGED stock
  /\ UNCHANGED <<active, usedCount, paid, placing, edit, adminVars>>

\* The payments module completes a payment of the order (see Payments).
PaymentCompletes(o) ==
  /\ order[o].status # "NONE" /\ ~paid[o]
  /\ paid' = [paid EXCEPT ![o] = TRUE]
  /\ order' = IF CanApplyExternalStatusChange(order[o].status, "CONFIRMED")
              THEN [order EXCEPT ![o].status = "CONFIRMED"] ELSE order
  /\ UNCHANGED <<stockRows, usedCount, placing, edit, adminVars>>

-----------------------------------------------------------------------------
(* The administrator: load entities, assign the fields sent - here isActive,  *)
(* and nothing of the discount that matters to an order - and save them.  The *)
(* save reads the rows once more before it writes.                           *)

VariantRow == [stock : Nat, active : BOOLEAN]
Stored(v)  == [stock |-> stock[v], active |-> active[v]]

SetVariantEdit(state) ==
  /\ variantEdit' = state
  /\ UNCHANGED <<stockRows, orderRows, usedCount, placing, edit, discountEdit>>

\* The entities `of` of a request.
Load(of) ==
  LET rows == [v \in of |-> Stored(v)] IN
  /\ variantEdit = IdleVariants
  /\ SetVariantEdit([at |-> "loaded", entity |-> rows, before |-> rows])

ReRead(entity) ==
  /\ variantEdit.at = "loaded"
  /\ SetVariantEdit([at |-> "update", entity |-> entity,
                     before |-> [v \in DOMAIN entity |-> Stored(v)]])

\* updateVariant
LoadVariant(v) == Load({v})

SaveVariant(v, isActive) ==
  /\ variantEdit.at = "loaded" /\ DOMAIN variantEdit.entity = {v}
  /\ ReRead([variantEdit.entity EXCEPT ![v].active = isActive])

\* update of the product: findOne loads its variants, and the save cascades to
\* them.
LoadVariants == Managed # {} /\ Load(Managed)

SaveVariants ==
  /\ variantEdit.at = "loaded" /\ DOMAIN variantEdit.entity = Managed
  /\ ReRead(variantEdit.entity)

\* The UPDATEs of one save are one transaction.
UpdateVariants ==
  LET row == [v \in DOMAIN variantEdit.entity |->
                Written(variantEdit.entity[v], variantEdit.before[v], Stored(v))]
  IN
  /\ variantEdit.at = "update"
  /\ stock' = [v \in Variants |-> IF v \in DOMAIN row THEN row[v].stock ELSE stock[v]]
  /\ active' = [v \in Variants |-> IF v \in DOMAIN row THEN row[v].active ELSE active[v]]
  /\ variantEdit' = IdleVariants
  /\ UNCHANGED <<orderRows, usedCount, placing, edit, discountEdit>>

\* The counter is the one column of a discount that is kept here, so that to read it
\* again and not to write it is the same as to write it then.
LoadDiscount ==
  /\ discountEdit.at = "idle"
  /\ discountEdit' = [at |-> "loaded", usedCount |-> usedCount]
  /\ UNCHANGED <<stockRows, orderRows, usedCount, placing, edit, variantEdit>>

SaveDiscount ==
  /\ discountEdit.at = "loaded"
  /\ usedCount' = discountEdit.usedCount
  /\ discountEdit' = [at |-> "idle"]
  /\ UNCHANGED <<stockRows, orderRows, placing, edit, variantEdit>>

-----------------------------------------------------------------------------
EditStep(e) ==
  \/ \E o \in Orders :
       \/ \E items \in Basket : BeginEdit(e, o, "items", items)
       \/ BeginEdit(e, o, "notes", Nothing)
  \/ ReplaceItems(e)
  \/ RefuseEdit(e)
  \/ EditNotes(e)

OrderStep(o) ==
  \/ \E items \in Basket, coded \in BOOLEAN : ResolveOrder(o, items, coded)
  \/ PersistOrder(o)
  \/ RefuseOrder(o)
  \/ Cancel(o)
  \/ \E to \in OrderStatus : UpdateStatus(o, to)
  \/ PaymentCompletes(o)

AdminStep ==
  \/ \E v \in Managed : LoadVariant(v)
  \/ \E v \in Managed, isActive \in BOOLEAN : SaveVariant(v, isActive)
  \/ LoadVariants
  \/ SaveVariants
  \/ UpdateVariants
  \/ Managed # {} /\ LoadDiscount
  \/ SaveDiscount

Next ==
  \/ \E o \in Orders : OrderStep(o)
  \/ \E e \in Edits : EditStep(e)
  \/ AdminStep

Spec == Init /\ [][Next]_vars

-----------------------------------------------------------------------------
\* Stock is never negative and the counter of uses never above the limit,
\* whatever races: decrementStock and incrementUsedCount re-check in the UPDATE.
TypeOK ==
  /\ stock \in [Variants -> Nat]
  /\ active \in [Variants -> BOOLEAN]
  /\ usedCount \in 0 .. UsageLimit
  /\ order \in [Orders -> OrderRow]
  /\ paid \in [Orders -> BOOLEAN]
  /\ placing \in [Orders -> PlacingRow]
  /\ edit \in [Edits -> EditRow \cup {NoEdit, Ended}]
  /\ variantEdit = IdleVariants \/ \E of \in SUBSET Managed :
       variantEdit \in [at : {"loaded", "update"}, entity : [of -> VariantRow],
                        before : [of -> VariantRow]]
  /\ discountEdit \in [at : {"idle"}] \cup [at : {"loaded"}, usedCount : 0 .. UsageLimit]

\* The pieces of a variant an order holds: from its placement until it is
\* cancelled.
Held(o) == IF order[o].status \in {"NONE", "CANCELLED"} THEN Nothing ELSE order[o].items

\* An edit commits although the order is no longer the one it read.
StaleEdit(e)   == edit[e].at \in {"items", "notes"} /\ edit'[e].at = "done"
                    /\ order[edit[e].id] # edit[e].read
\* A save writes back a stock that had changed when it read it again.
StaleVariant   == variantEdit.at = "update" /\ variantEdit'.at = "idle"
                    /\ \E v \in DOMAIN variantEdit.entity :
                         variantEdit.entity[v].stock # variantEdit.before[v].stock
StaleDiscount  == discountEdit.at = "loaded" /\ discountEdit'.at = "idle"
                    /\ discountEdit.usedCount # usedCount

\* Double entry: a step moves pieces between the stock and one order, and what
\* the one loses the other holds.  Placing, editing, cancelling, the
\* administrator's cancellation and payments keep to it however they interleave;
\* the writes of an entity that has changed since it was read are the only
\* exceptions.
StockFollowsOrders ==
  [][ \/ \E o \in Orders :
           /\ \A p \in Orders \ {o} : order'[p] = order[p]
           /\ \A v \in Variants : stock'[v] + Held(o)'[v] = stock[v] + Held(o)[v]
      \/ \E e \in Edits : StaleEdit(e)
      \/ StaleVariant ]_vars

\* An order's totals are those of its items, as long as no edit overwrites a
\* concurrent one: an edit of the notes alone writes old totals back.
TotalsFollowItems ==
  [][ \/ \A o \in Orders : order[o].totals = order[o].items => order'[o].totals = order'[o].items
      \/ \E e \in Edits : StaleEdit(e) ]_vars

\* Every use of the code is counted once, in the transaction that places the
\* order; only the administrator's save of a stale entity loses one.
UsesAreCounted ==
  [][ \/ \E o \in Orders :
           usedCount' - usedCount =
             (IF order'[o].coded THEN 1 ELSE 0) - (IF order[o].coded THEN 1 ELSE 0)
           /\ \A p \in Orders \ {o} : order'[p].coded = order[p].coded
      \/ StaleDiscount ]_vars

\* What is in stock and how often a code has been used are counters that several
\* transactions move, and the totals of an order are kept beside its items: however
\* these interleave, they agree with the orders.
CountersFollowOrders == StockFollowsOrders /\ UsesAreCounted /\ TotalsFollowItems

\* Nobody can cancel an order that has been paid for, and so give its pieces
\* back while the customer's money is kept.
PaidOrderStays ==
  [][ \A o \in Orders : paid[o] /\ order[o].status # "CANCELLED" => order'[o].status # "CANCELLED" ]_vars

\* A variant that is switched off is not sold any more, neither to a request
\* that resolved it while it was active nor to an edit that wants more of it.
InactiveNotSold ==
  [][ \A o \in Orders, v \in Variants :
        order'[o].items[v] > order[o].items[v] => active[v] ]_vars

\* What an order may do is decided on what holds when it is written, not on what
\* the request had read of the payment and of the variants.
RulesHoldAtCommit == PaidOrderStays /\ InactiveNotSold

-----------------------------------------------------------------------------
\* orders.service.ts:404-406: update releases "stock held by the current items
\* before re-resolving and decrementing for the new set".  Stock plus what the
\* orders hold is then always the supply.
StockBalanced ==
  \A v \in Variants : stock[v] + SumFunction([o \in Orders |-> Held(o)[v]]) = Supply[v]

===============================================================================
