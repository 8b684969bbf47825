----------------------------- MODULE SalesProofs ------------------------------
(***************************************************************************)
(* A sale: the stock it takes, for any number of orders, edits and         *)
(* variants; the amounts it is split into, for any prices and discount;    *)
(* and the rows its transactions lock, for any number of them.             *)
(***************************************************************************)
EXTENDS OrderStock, Proration, RowLocks, FiniteSums, SequenceTheorems,
        WellFoundedInduction, NaturalsInduction, TLAPS

-----------------------------------------------------------------------------
(***************************************************************************)
(* Stock.                                                                  *)
(*                                                                         *)
(* Stock is never negative, and every step that does not write back a      *)
(* stale entity keeps the books of stock, totals and discount uses.        *)
(***************************************************************************)

\* What a row of orders and the requests about it know of each other.
Placed ==
  /\ \A o \in Orders : placing[o].at # "done" => order[o] = NoOrder
  /\ \A o \in Orders : order[o].status = "NONE" => order[o] = NoOrder

EditsPlaced ==
  \A e \in Edits : edit[e].at \in {"items", "notes"} =>
    /\ edit[e].read.status = "PENDING"
    /\ order[edit[e].id].status # "NONE"

StockIInv == TypeOK /\ Placed /\ EditsPlaced

-----------------------------------------------------------------------------
LEMMA NothingType ==
  /\ Nothing \in [Variants -> Nat]
  /\ \A items \in Basket \cup {Nothing}, v \in Variants : items[v] \in Nat
  /\ NoOrder \in OrderRow /\ NoOrder.status = "NONE" /\ NoOrder.coded = FALSE
  /\ NoOrder.items = Nothing
<1>1. Nothing \in [Variants -> Nat]
  BY DEF Nothing
<1>2. Basket \subseteq [Variants -> Nat]
  <2>1. Quantities \cup {0} \subseteq Nat
    BY StockAssumption
  <2> QED BY <2>1 DEF Basket
<1>3. \A items \in Basket \cup {Nothing}, v \in Variants : items[v] \in Nat
  BY <1>1, <1>2
<1>4. NoOrder \in OrderRow /\ NoOrder.status = "NONE" /\ NoOrder.coded = FALSE
      /\ NoOrder.items = Nothing
  BY DEF NoOrder, OrderRow
<1> QED BY <1>1, <1>3, <1>4

LEMMA InitIInv == Init => StockIInv
<1> SUFFICES ASSUME Init PROVE StockIInv
  OBVIOUS
<1>2. TypeOK
  BY StockAssumption, NothingType DEF Init, TypeOK, NotBegun, PlacingRow
<1>3. Placed /\ EditsPlaced
  BY DEF Init, Placed, EditsPlaced, NoOrder, NoEdit
<1> QED BY <1>2, <1>3 DEF StockIInv

\* Stock from which the items can be taken has room for them.
LEMMA TakeLeavesNat ==
  ASSUME NEW items \in Basket \cup {Nothing}, NEW from \in [Variants -> Nat], CanTake(items, from)
  PROVE  [v \in Variants |-> from[v] - items[v]] \in [Variants -> Nat]
<1> SUFFICES ASSUME NEW v \in Variants PROVE from[v] - items[v] \in Nat
  OBVIOUS
<1>1. items[v] \in Nat /\ from[v] \in Nat
  BY NothingType
<1>2. items[v] > 0 => items[v] <= from[v]
  BY DEF CanTake
<1> QED BY <1>1, <1>2

\* An edit that has begun and not ended knows its order and what it read of it.
LEMMA RunningEdit ==
  ASSUME TypeOK, NEW e \in Edits, edit[e].at \in {"items", "notes"}
  PROVE  edit[e] \in EditRow /\ edit[e].id \in Orders /\ edit[e].read \in OrderRow
<1>1. edit[e] \in EditRow \cup {NoEdit, Ended}
  BY DEF TypeOK
<1>2. edit[e] # NoEdit /\ edit[e] # Ended
  BY DEF NoEdit, Ended
<1> QED BY <1>1, <1>2 DEF EditRow

LEMMA RestoredType ==
  ASSUME TypeOK, NEW e \in Edits, edit[e].at = "items"
  PROVE  Restored(e) \in [Variants -> Nat]
<1>1. edit[e].read.items \in Basket \cup {Nothing}
  BY RunningEdit DEF OrderRow
<1> QED BY <1>1, NothingType DEF TypeOK, Restored

\* The order rows a step may write keep their type.
LEMMA OrderRowType ==
  ASSUME TypeOK, NEW o \in Orders, NEW row \in OrderRow, order' = [order EXCEPT ![o] = row]
  PROVE  order' \in [Orders -> OrderRow]
BY DEF TypeOK

LEMMA PersistType ==
  ASSUME TypeOK, NEW o \in Orders, PersistOrder(o) PROVE TypeOK'
<1>1. placing[o] \in PlacingRow
  BY DEF TypeOK
<1>2. stock' \in [Variants -> Nat]
  BY <1>1, TakeLeavesNat DEF PersistOrder, TypeOK, PlacingRow
<1>3. usedCount' \in 0 .. UsageLimit
  BY <1>1, StockAssumption DEF PersistOrder, TypeOK, PlacingRow
<1>4. order' \in [Orders -> OrderRow]
  <2> DEFINE row == [status |-> "PENDING", items |-> placing[o].items,
                     totals |-> placing[o].items, coded |-> placing[o].coded]
  <2>1. row \in OrderRow
    BY <1>1 DEF PlacingRow, OrderRow, OrderStatus
  <2>2. order' = [order EXCEPT ![o] = row]
    BY DEF PersistOrder
  <2> QED BY <2>1, <2>2, OrderRowType
<1>5. placing' \in [Orders -> PlacingRow]
  BY DEF PersistOrder, TypeOK, PlacingRow, Answered
<1> QED BY <1>2, <1>3, <1>4, <1>5 DEF PersistOrder, TypeOK, adminVars

LEMMA ReplaceType ==
  ASSUME TypeOK, NEW e \in Edits, ReplaceItems(e) PROVE TypeOK'
<1> DEFINE o == edit[e].id
<1>1. edit[e] \in EditRow /\ o \in Orders /\ order[o] \in OrderRow
  BY RunningEdit DEF ReplaceItems, TypeOK
<1>2. stock' \in [Variants -> Nat]
  <2>1. [v \in Variants |-> Restored(e)[v] - edit[e].items[v]] \in [Variants -> Nat]
    BY <1>1, TakeLeavesNat, RestoredType DEF ReplaceItems, EditAccepted, EditRow
  <2> QED BY <2>1 DEF ReplaceItems
<1>3. order' \in [Orders -> OrderRow]
  <2> DEFINE row == [order[o] EXCEPT !.items = edit[e].items, !.totals = edit[e].items]
  <2>1. row \in OrderRow
    BY <1>1 DEF EditRow, OrderRow
  <2>2. order' = [order EXCEPT ![o] = row]
    BY DEF ReplaceItems
  <2> QED BY <1>1, <2>1, <2>2, OrderRowType
<1>4. edit' \in [Edits -> EditRow \cup {NoEdit, Ended}]
  BY DEF ReplaceItems, TypeOK
<1> QED BY <1>2, <1>3, <1>4 DEF ReplaceItems, TypeOK, adminVars

LEMMA NotesType ==
  ASSUME TypeOK, NEW e \in Edits, EditNotes(e) PROVE TypeOK'
<1> DEFINE o == edit[e].id
<1>1. edit[e] \in EditRow /\ o \in Orders /\ order[o] \in OrderRow
  BY RunningEdit DEF EditNotes, TypeOK
<1>2. order' \in [Orders -> OrderRow]
  <2> DEFINE row == [order[o] EXCEPT !.totals = edit[e].read.totals]
  <2>1. row \in OrderRow
    BY <1>1 DEF EditRow, OrderRow
  <2>2. order' = [order EXCEPT ![o] = row]
    BY DEF EditNotes
  <2> QED BY <1>1, <2>1, <2>2, OrderRowType
<1>3. edit' \in [Edits -> EditRow \cup {NoEdit, Ended}]
  BY DEF EditNotes, TypeOK
<1> QED BY <1>2, <1>3 DEF EditNotes, TypeOK, adminVars, stockRows

\* A change of nothing but the status of an order.
LEMMA StatusType ==
  ASSUME TypeOK, NEW o \in Orders, NEW to \in OrderStatus,
         order' = [order EXCEPT ![o].status = to]
  PROVE  order' \in [Orders -> OrderRow]
<1>1. [order[o] EXCEPT !.status = to] \in OrderRow
  BY DEF TypeOK, OrderRow
<1>2. order' = [order EXCEPT ![o] = [order[o] EXCEPT !.status = to]]
  OBVIOUS
<1> QED BY <1>1, <1>2, OrderRowType

LEMMA RestoreType ==
  ASSUME TypeOK, NEW o \in Orders, RestoreAndCancel(o)
  PROVE  stock' \in [Variants -> Nat] /\ order' \in [Orders -> OrderRow]
<1>1. order[o].items \in Basket \cup {Nothing}
  BY DEF TypeOK, OrderRow
<1>2. stock' \in [Variants -> Nat]
  BY <1>1, NothingType DEF TypeOK, RestoreAndCancel
<1>3. "CANCELLED" \in OrderStatus
  BY DEF OrderStatus
<1> QED BY <1>2, <1>3, StatusType DEF RestoreAndCancel

LEMMA StatusStepsType ==
  ASSUME TypeOK, NEW o \in Orders,
         Cancel(o) \/ (\E to \in OrderStatus : UpdateStatus(o, to)) \/ PaymentCompletes(o)
  PROVE  TypeOK'
<1>1. CASE Cancel(o)
  BY <1>1, RestoreType DEF Cancel, TypeOK, adminVars
<1>2. ASSUME NEW to \in OrderStatus, UpdateStatus(o, to) PROVE TypeOK'
  <2>1. stock' \in [Variants -> Nat] /\ order' \in [Orders -> OrderRow]
    <3>1. CASE to = "CANCELLED"
      BY <1>2, <3>1, RestoreType DEF UpdateStatus
    <3>2. CASE to # "CANCELLED"
      BY <1>2, <3>2, StatusType DEF UpdateStatus, TypeOK
    <3> QED BY <3>1, <3>2
  <2> QED BY <1>2, <2>1 DEF UpdateStatus, TypeOK, adminVars
<1>3. CASE PaymentCompletes(o)
  <2>1. "CONFIRMED" \in OrderStatus
    BY DEF OrderStatus
  <2>2. order' \in [Orders -> OrderRow]
    BY <1>3, <2>1, StatusType DEF PaymentCompletes, TypeOK
  <2> QED BY <1>3, <2>2 DEF PaymentCompletes, TypeOK, stockRows, adminVars
<1> QED BY <1>1, <1>2, <1>3

\* What a request of the administrator has loaded, or is about to write.
LEMMA LoadedVariants ==
  ASSUME TypeOK, variantEdit.at # "idle"
  PROVE  \E of \in SUBSET Managed : /\ variantEdit.entity \in [of -> VariantRow]
                                   /\ variantEdit.before \in [of -> VariantRow]
BY DEF TypeOK, IdleVariants

\* The UPDATE of the loaded variants leaves rows, and no stock but the one that was
\* loaded or the one that is there.
LEMMA UpdatedVariants ==
  ASSUME TypeOK, UpdateVariants
  PROVE  /\ TypeOK'
         /\ (\A v \in DOMAIN variantEdit.entity :
               variantEdit.entity[v].stock = variantEdit.before[v].stock) => stock' = stock
<1> DEFINE row == [v \in DOMAIN variantEdit.entity |->
                     Written(variantEdit.entity[v], variantEdit.before[v], Stored(v))]
<1>1. PICK of \in SUBSET Managed : /\ variantEdit.entity \in [of -> VariantRow]
                                  /\ variantEdit.before \in [of -> VariantRow]
  BY LoadedVariants DEF UpdateVariants
<1>2. \A v \in of : v \in Variants
  BY StockAssumption
<1>3. ASSUME NEW v \in of
      PROVE  /\ row[v].stock = IF variantEdit.entity[v].stock = variantEdit.before[v].stock
                               THEN stock[v] ELSE variantEdit.entity[v].stock
             /\ row[v].active = IF variantEdit.entity[v].active = variantEdit.before[v].active
                                THEN active[v] ELSE variantEdit.entity[v].active
  <2>1. row[v] = Written(variantEdit.entity[v], variantEdit.before[v], Stored(v))
    BY <1>1
  <2> HIDE DEF row
  <2> QED BY <2>1 DEF Written, Stored
<1>4. DOMAIN row = of
  BY <1>1
<1>5. /\ stock' = [v \in Variants |-> IF v \in DOMAIN row THEN row[v].stock ELSE stock[v]]
      /\ active' = [v \in Variants |-> IF v \in DOMAIN row THEN row[v].active ELSE active[v]]
      /\ variantEdit' = IdleVariants
      /\ UNCHANGED <<orderRows, usedCount, placing, edit, discountEdit>>
  BY DEF UpdateVariants
<1> HIDE DEF row
<1>6. \A v \in of : variantEdit.entity[v].stock \in Nat /\ variantEdit.entity[v].active \in BOOLEAN
  BY <1>1 DEF VariantRow
<1>7. stock' \in [Variants -> Nat]
  BY <1>2, <1>3, <1>4, <1>5, <1>6 DEF TypeOK
<1>8. active' \in [Variants -> BOOLEAN]
  <2>1. ASSUME NEW v \in Variants PROVE (IF v \in of THEN row[v].active ELSE active[v]) \in BOOLEAN
    <3>1. active[v] \in BOOLEAN
      BY DEF TypeOK
    <3> QED BY <3>1, <1>3, <1>6
  <2> QED BY <2>1, <1>4, <1>5
<1>9. TypeOK'
  BY <1>5, <1>7, <1>8 DEF TypeOK, orderRows
<1>10. ASSUME \A v \in of : variantEdit.entity[v].stock = variantEdit.before[v].stock
       PROVE  stock' = stock
  <2>1. stock = [v \in Variants |-> stock[v]]
    BY DEF TypeOK
  <2> QED BY <1>3, <1>4, <1>5, <1>10, <2>1
<1> QED BY <1>1, <1>9, <1>10

\* The administrator's requests write rows.
LEMMA AdminType == ASSUME TypeOK, AdminStep PROVE TypeOK'
<1>0. \A v \in Managed : Stored(v) \in VariantRow
  BY StockAssumption DEF Stored, VariantRow, TypeOK
<1>8. ASSUME NEW of \in SUBSET Managed, NEW at \in {"loaded", "update"},
             NEW entity \in [of -> VariantRow], NEW before \in [of -> VariantRow],
             SetVariantEdit([at |-> at, entity |-> entity, before |-> before])
      PROVE  TypeOK'
  <2>1. variantEdit' \in [at : {"loaded", "update"}, entity : [of -> VariantRow],
                          before : [of -> VariantRow]]
    BY <1>8 DEF SetVariantEdit
  <2> QED BY <1>8, <2>1 DEF SetVariantEdit, TypeOK, stockRows, orderRows
<1>1. ASSUME NEW of \in SUBSET Managed, Load(of) PROVE TypeOK'
  <2> DEFINE rows == [v \in of |-> Stored(v)]
  <2>1. rows \in [of -> VariantRow]
    BY <1>0
  <2>2. SetVariantEdit([at |-> "loaded", entity |-> rows, before |-> rows])
    BY <1>1 DEF Load
  <2> HIDE DEF rows
  <2> QED BY <1>8, <2>1, <2>2
<1>2. ASSUME NEW of \in SUBSET Managed, NEW entity \in [of -> VariantRow], ReRead(entity)
      PROVE  TypeOK'
  <2> DEFINE rows == [v \in DOMAIN entity |-> Stored(v)]
  <2>1. rows \in [of -> VariantRow]
    BY <1>0
  <2>2. SetVariantEdit([at |-> "update", entity |-> entity, before |-> rows])
    BY <1>2 DEF ReRead
  <2> HIDE DEF rows
  <2> QED BY <1>8, <2>1, <2>2
<1>5. ASSUME NEW v \in Managed, NEW isActive \in BOOLEAN, SaveVariant(v, isActive) PROVE TypeOK'
  <2> DEFINE entity == [variantEdit.entity EXCEPT ![v].active = isActive]
  <2>1. PICK of \in SUBSET Managed : variantEdit.entity \in [of -> VariantRow]
    BY <1>5, LoadedVariants DEF SaveVariant
  <2>2. entity \in [of -> VariantRow]
    BY <2>1 DEF VariantRow
  <2>3. ReRead(entity)
    BY <1>5 DEF SaveVariant
  <2> HIDE DEF entity
  <2> QED BY <1>2, <2>2, <2>3
<1>6. CASE SaveVariants
  <2>1. PICK of \in SUBSET Managed : variantEdit.entity \in [of -> VariantRow]
    BY <1>6, LoadedVariants DEF SaveVariants
  <2> QED BY <1>2, <1>6, <2>1 DEF SaveVariants
<1>9. CASE UpdateVariants
  BY <1>9, UpdatedVariants
<1>7. CASE (\E v \in Managed : LoadVariant(v)) \/ LoadVariants
  <2>1. Managed \in SUBSET Managed /\ \A v \in Managed : {v} \in SUBSET Managed
    OBVIOUS
  <2> QED BY <1>1, <1>7, <2>1 DEF LoadVariant, LoadVariants
<1>3. CASE LoadDiscount
  BY <1>3 DEF LoadDiscount, TypeOK, stockRows, orderRows
<1>4. CASE SaveDiscount
  BY <1>4 DEF SaveDiscount, TypeOK, stockRows, orderRows
<1> QED BY <1>3, <1>4, <1>5, <1>6, <1>7, <1>9 DEF AdminStep

LEMMA TypeStep == TypeOK /\ [Next]_vars => TypeOK'
<1> SUFFICES ASSUME TypeOK, [Next]_vars PROVE TypeOK'
  OBVIOUS
<1>1. CASE UNCHANGED vars
  BY <1>1 DEF vars, TypeOK
<1>2. ASSUME NEW o \in Orders, NEW items \in Basket, NEW coded \in BOOLEAN,
             ResolveOrder(o, items, coded)
      PROVE  TypeOK'
  BY <1>2 DEF ResolveOrder, TypeOK, PlacingRow, stockRows, orderRows, adminVars
<1>3. ASSUME NEW o \in Orders, RefuseOrder(o) PROVE TypeOK'
  BY <1>3 DEF RefuseOrder, TypeOK, PlacingRow, Answered, stockRows, orderRows, adminVars
<1>4. ASSUME NEW e \in Edits, NEW o \in Orders, NEW kind \in {"items", "notes"},
             NEW items \in Basket \cup {Nothing}, BeginEdit(e, o, kind, items)
      PROVE  TypeOK'
  BY <1>4 DEF BeginEdit, TypeOK, EditRow, stockRows, orderRows, adminVars
<1>5. ASSUME NEW e \in Edits, RefuseEdit(e) PROVE TypeOK'
  <2>1. edit' \in [Edits -> EditRow \cup {NoEdit, Ended}]
    BY <1>5 DEF RefuseEdit, TypeOK
  <2> QED BY <1>5, <2>1 DEF RefuseEdit, TypeOK, stockRows, orderRows, adminVars
<1> QED BY <1>1, <1>2, <1>3, <1>4, <1>5, PersistType, ReplaceType, NotesType,
           StatusStepsType, AdminType DEF Next, OrderStep, EditStep

-----------------------------------------------------------------------------
\* An edit writes one order and leaves its status.
LEMMA EditKeepsStatus ==
  ASSUME TypeOK, NEW e \in Edits, ReplaceItems(e) \/ EditNotes(e)
  PROVE  /\ \A p \in Orders : p # edit[e].id => order'[p] = order[p]
         /\ \A p \in Orders : order'[p].status = order[p].status
<1>1. PICK o \in Orders : o = edit[e].id
  BY RunningEdit DEF ReplaceItems, EditNotes
<1>2. order[o] \in OrderRow
  BY DEF TypeOK
<1>3. order'[o].status = order[o].status
  <2>1. CASE ReplaceItems(e)
    BY <1>1, <1>2, <2>1 DEF ReplaceItems, TypeOK, OrderRow
  <2>2. CASE EditNotes(e)
    BY <1>1, <1>2, <2>2 DEF EditNotes, TypeOK, OrderRow
  <2> QED BY <2>1, <2>2
<1>4. \A p \in Orders : p # o => order'[p] = order[p]
  BY <1>1 DEF ReplaceItems, EditNotes, TypeOK
<1> QED BY <1>1, <1>3, <1>4

\* Every step but a stale write leaves StockIInv's facts about rows and requests.
LEMMA PlacedStep == StockIInv /\ [Next]_vars => Placed' /\ EditsPlaced'
<1> SUFFICES ASSUME StockIInv, [Next]_vars PROVE Placed' /\ EditsPlaced'
  OBVIOUS
<1> USE DEF StockIInv
<1>1. CASE UNCHANGED vars
  BY <1>1 DEF vars, Placed, EditsPlaced
<1>2. ASSUME NEW o \in Orders, NEW items \in Basket, NEW coded \in BOOLEAN,
             ResolveOrder(o, items, coded)
      PROVE  Placed' /\ EditsPlaced'
  BY <1>2 DEF ResolveOrder, Placed, EditsPlaced, TypeOK, orderRows
<1>3. ASSUME NEW o \in Orders, RefuseOrder(o) PROVE Placed' /\ EditsPlaced'
  BY <1>3 DEF RefuseOrder, Placed, EditsPlaced, TypeOK, Answered, orderRows
<1>4. ASSUME NEW o \in Orders, PersistOrder(o) PROVE Placed' /\ EditsPlaced'
  <2>1. /\ order'[o].status = "PENDING" /\ placing'[o].at = "done"
        /\ \A p \in Orders : p # o => order'[p] = order[p] /\ placing'[p] = placing[p]
        /\ edit' = edit
    BY <1>4 DEF PersistOrder, TypeOK, Answered
  <2>2. Placed'
    BY <2>1 DEF Placed
  <2>3. EditsPlaced'
    BY <2>1, RunningEdit DEF EditsPlaced
  <2> QED BY <2>2, <2>3
<1>5. ASSUME NEW e \in Edits, NEW o \in Orders, NEW kind \in {"items", "notes"},
             NEW items \in Basket \cup {Nothing}, BeginEdit(e, o, kind, items)
      PROVE  Placed' /\ EditsPlaced'
  BY <1>5 DEF BeginEdit, Placed, EditsPlaced, TypeOK, orderRows
<1>6. ASSUME NEW e \in Edits, RefuseEdit(e) PROVE Placed' /\ EditsPlaced'
  BY <1>6 DEF RefuseEdit, Placed, EditsPlaced, TypeOK, orderRows, Ended
<1>7. ASSUME NEW e \in Edits, ReplaceItems(e) \/ EditNotes(e) PROVE Placed' /\ EditsPlaced'
  <2>1. edit[e].id \in Orders /\ order[edit[e].id].status # "NONE"
    BY <1>7, RunningEdit DEF ReplaceItems, EditNotes, EditsPlaced
  <2>2. /\ \A p \in Orders : p # edit[e].id => order'[p] = order[p]
        /\ \A p \in Orders : order'[p].status = order[p].status
    BY <1>7, EditKeepsStatus
  <2>3. /\ placing' = placing
        /\ edit' = [edit EXCEPT ![e] = Ended]
    BY <1>7 DEF ReplaceItems, EditNotes
  <2>4. Placed'
    BY <2>1, <2>2, <2>3, NothingType DEF Placed
  <2>5. EditsPlaced'
    BY <2>1, <2>2, <2>3, RunningEdit DEF EditsPlaced, TypeOK, Ended
  <2> QED BY <2>4, <2>5
<1>8. ASSUME NEW o \in Orders,
             Cancel(o) \/ (\E to \in OrderStatus : UpdateStatus(o, to)) \/ PaymentCompletes(o)
      PROVE  Placed' /\ EditsPlaced'
  <2>1. PICK to \in OrderStatus : order' = [order EXCEPT ![o].status = to] \/ order' = order
    <3>1. "CANCELLED" \in OrderStatus /\ "CONFIRMED" \in OrderStatus
      BY DEF OrderStatus
    <3> QED BY <1>8, <3>1 DEF Cancel, UpdateStatus, PaymentCompletes, RestoreAndCancel
  <2>2. order[o].status # "NONE" /\ to # "NONE" /\ placing' = placing /\ edit' = edit
    BY <1>8 DEF Cancel, UpdateStatus, PaymentCompletes, CancellableStatuses, OrderStatus
  <2>3. /\ \A p \in Orders : p # o => order'[p] = order[p]
        /\ order'[o].status # "NONE"
    BY <2>1, <2>2 DEF TypeOK, OrderRow
  <2>4. Placed'
    BY <2>2, <2>3, NothingType DEF Placed
  <2>5. EditsPlaced'
    BY <2>2, <2>3, RunningEdit DEF EditsPlaced
  <2> QED BY <2>4, <2>5
<1>9. CASE AdminStep
  <2>1. order' = order /\ edit' = edit /\ placing' = placing
    BY <1>9 DEF AdminStep, LoadVariant, SaveVariant, LoadVariants, SaveVariants, Load, ReRead,
       SetVariantEdit, UpdateVariants, LoadDiscount, SaveDiscount, orderRows
  <2> QED BY <2>1 DEF StockIInv, Placed, EditsPlaced
<1> QED BY <1>1, <1>2, <1>3, <1>4, <1>5, <1>6, <1>7, <1>8, <1>9 DEF Next, OrderStep, EditStep

LEMMA AlwaysIInv == Spec => []StockIInv
<1>1. StockIInv /\ [Next]_vars => StockIInv'
  BY TypeStep, PlacedStep DEF StockIInv
<1> QED BY InitIInv, <1>1, PTL DEF Spec

\* Stock never goes below zero and the code is never counted beyond its limit,
\* however many requests race.
THEOREM StockTypeCorrect == Spec => []TypeOK
<1>1. StockIInv => TypeOK
  BY DEF StockIInv
<1> QED BY AlwaysIInv, <1>1, PTL

-----------------------------------------------------------------------------
\* The rows a step writes, and nothing of it for the steps that only read.
LEMMA QuietSteps ==
  ASSUME [Next]_vars
  PROVE  \/ UNCHANGED <<stock, order, usedCount>>
         \/ \E o \in Orders : PersistOrder(o)
         \/ \E e \in Edits : ReplaceItems(e) \/ EditNotes(e)
         \/ \E o \in Orders : Cancel(o)
         \/ \E o \in Orders, to \in OrderStatus : UpdateStatus(o, to)
         \/ \E o \in Orders : PaymentCompletes(o)
         \/ UpdateVariants
         \/ SaveDiscount
<1>1. ASSUME NEW o \in Orders, NEW items \in Basket, NEW coded \in BOOLEAN,
             ResolveOrder(o, items, coded)
      PROVE  UNCHANGED <<stock, order, usedCount>>
  BY <1>1 DEF ResolveOrder, stockRows, orderRows
<1>2. ASSUME NEW o \in Orders, RefuseOrder(o) PROVE UNCHANGED <<stock, order, usedCount>>
  BY <1>2 DEF RefuseOrder, stockRows, orderRows
<1>3. ASSUME NEW e \in Edits, NEW o \in Orders, NEW kind, NEW items, BeginEdit(e, o, kind, items)
      PROVE  UNCHANGED <<stock, order, usedCount>>
  BY <1>3 DEF BeginEdit, stockRows, orderRows
<1>4. ASSUME NEW e \in Edits, RefuseEdit(e) PROVE UNCHANGED <<stock, order, usedCount>>
  BY <1>4 DEF RefuseEdit, stockRows, orderRows
<1>5. LoadDiscount \/ (\E v \in Managed : LoadVariant(v)) \/ LoadVariants \/ UNCHANGED vars
        => UNCHANGED <<stock, order, usedCount>>
  BY DEF LoadDiscount, LoadVariant, LoadVariants, Load, SetVariantEdit, stockRows, orderRows, vars
<1>6. (\E v \in Managed, isActive \in BOOLEAN : SaveVariant(v, isActive)) \/ SaveVariants
        => UNCHANGED <<stock, order, usedCount>>
  BY DEF SaveVariant, SaveVariants, ReRead, SetVariantEdit, stockRows, orderRows
<1> QED BY <1>1, <1>2, <1>3, <1>4, <1>5, <1>6 DEF Next, OrderStep, EditStep, AdminStep

\* An edit that is not stale commits to the row it has read.
LEMMA FreshEdit ==
  ASSUME StockIInv, NEW e \in Edits, ReplaceItems(e) \/ EditNotes(e), ~StaleEdit(e)
  PROVE  /\ edit[e].id \in Orders
         /\ order[edit[e].id] = edit[e].read
         /\ order[edit[e].id] \in OrderRow
         /\ order[edit[e].id].status = "PENDING"
<1>1. edit[e].at \in {"items", "notes"} /\ edit'[e].at = "done"
  BY DEF ReplaceItems, EditNotes, Ended, StockIInv, TypeOK
<1>2. order[edit[e].id] = edit[e].read
  BY <1>1 DEF StaleEdit
<1> QED BY <1>1, <1>2, RunningEdit DEF StockIInv, EditsPlaced

\* The pieces an order holds, row by row.
LEMMA HeldOf ==
  ASSUME NEW o \in Orders
  PROVE  /\ order[o].status \in {"NONE", "CANCELLED"} => Held(o) = Nothing
         /\ order[o].status \notin {"NONE", "CANCELLED"} => Held(o) = order[o].items
         /\ order'[o].status \in {"NONE", "CANCELLED"} => Held(o)' = Nothing
         /\ order'[o].status \notin {"NONE", "CANCELLED"} => Held(o)' = order'[o].items
BY DEF Held, Nothing

\* One order and the stock exchange pieces.
Exchange(o) ==
  /\ \A p \in Orders \ {o} : order'[p] = order[p]
  /\ \A v \in Variants : stock'[v] + Held(o)'[v] = stock[v] + Held(o)[v]

LEMMA PersistExchanges ==
  ASSUME StockIInv, NEW o \in Orders, PersistOrder(o) PROVE Exchange(o)
<1>1. order[o] = NoOrder
  BY DEF StockIInv, Placed, PersistOrder
<1>2. Held(o) = Nothing
  BY <1>1, HeldOf, NothingType
<1>3. order'[o].status = "PENDING" /\ order'[o].items = placing[o].items
  BY DEF PersistOrder, StockIInv, TypeOK
<1>4. Held(o)' = placing[o].items
  BY <1>3, HeldOf
<1>5. placing[o].items \in Basket \cup {Nothing}
  BY DEF StockIInv, TypeOK, PlacingRow
<1>6. ASSUME NEW v \in Variants
      PROVE  stock'[v] + placing[o].items[v] = stock[v] + Nothing[v]
  <2>1. stock'[v] = stock[v] - placing[o].items[v] /\ stock[v] \in Nat
    BY DEF PersistOrder, StockIInv, TypeOK
  <2>2. placing[o].items[v] \in Nat /\ Nothing[v] = 0
    BY <1>5, NothingType DEF Nothing
  <2> QED BY <2>1, <2>2
<1>7. \A p \in Orders \ {o} : order'[p] = order[p]
  BY DEF PersistOrder, StockIInv, TypeOK
<1> QED BY <1>2, <1>4, <1>6, <1>7 DEF Exchange

LEMMA EditExchanges ==
  ASSUME StockIInv, NEW e \in Edits, ReplaceItems(e) \/ EditNotes(e), ~StaleEdit(e)
  PROVE  \E o \in Orders : Exchange(o)
<1>0. PICK o \in Orders : o = edit[e].id
  BY FreshEdit
<1>1. order[o] = edit[e].read /\ order[o] \in OrderRow /\ order[o].status = "PENDING"
  BY <1>0, FreshEdit
<1>2. Held(o) = edit[e].read.items
  BY <1>1, HeldOf
<1>3. \A p \in Orders \ {o} : order'[p] = order[p]
  BY <1>0, <1>1 DEF ReplaceItems, EditNotes, StockIInv, TypeOK
<1>4. CASE ReplaceItems(e)
  <2>1. order'[o].status = "PENDING" /\ order'[o].items = edit[e].items
    BY <1>0, <1>1, <1>4 DEF ReplaceItems, StockIInv, TypeOK, OrderRow
  <2>2. Held(o)' = edit[e].items
    BY <1>1, <2>1, HeldOf
  <2>3. ASSUME NEW v \in Variants
        PROVE  stock'[v] + edit[e].items[v] = stock[v] + edit[e].read.items[v]
    <3>1. stock'[v] = Restored(e)[v] - edit[e].items[v]
      BY <1>4 DEF ReplaceItems
    <3>2. Restored(e)[v] = stock[v] + edit[e].read.items[v]
      BY DEF Restored
    <3>3. stock[v] \in Nat /\ edit[e].items[v] \in Nat /\ edit[e].read.items[v] \in Nat
      BY <1>1, <1>4, RunningEdit, NothingType DEF StockIInv, TypeOK, ReplaceItems, EditRow, OrderRow
    <3> QED BY <3>1, <3>2, <3>3
  <2> QED BY <1>2, <1>3, <2>2, <2>3 DEF Exchange
<1>5. CASE EditNotes(e)
  <2>1. order'[o].status = "PENDING" /\ order'[o].items = edit[e].read.items
    BY <1>0, <1>1, <1>5 DEF EditNotes, StockIInv, TypeOK, OrderRow
  <2>2. Held(o)' = edit[e].read.items
    BY <1>1, <2>1, HeldOf
  <2>3. stock' = stock
    BY <1>5 DEF EditNotes, stockRows
  <2> QED BY <1>2, <1>3, <2>2, <2>3 DEF Exchange
<1> QED BY <1>4, <1>5

\* What a change of the status of an order leaves and takes.
LEMMA CancelExchanges ==
  ASSUME StockIInv, NEW o \in Orders, RestoreAndCancel(o),
         order[o].status \notin {"NONE", "CANCELLED"}
  PROVE  Exchange(o)
<1>1. order[o] \in OrderRow
  BY DEF StockIInv, TypeOK
<1>2. order'[o].status = "CANCELLED" /\ \A p \in Orders \ {o} : order'[p] = order[p]
  BY <1>1 DEF RestoreAndCancel, StockIInv, TypeOK, OrderRow
<1>3. Held(o)' = Nothing /\ Held(o) = order[o].items
  BY <1>2, HeldOf
<1>4. ASSUME NEW v \in Variants PROVE stock'[v] + Nothing[v] = stock[v] + order[o].items[v]
  <2>1. stock'[v] = stock[v] + order[o].items[v] /\ stock[v] \in Nat
    BY DEF RestoreAndCancel, StockIInv, TypeOK
  <2>2. order[o].items[v] \in Nat /\ Nothing[v] = 0
    BY <1>1, NothingType DEF OrderRow, Nothing
  <2> QED BY <2>1, <2>2
<1> QED BY <1>2, <1>3, <1>4 DEF Exchange

LEMMA MoveExchanges ==
  ASSUME StockIInv, NEW o \in Orders, NEW to \in OrderStatus \ {"CANCELLED"},
         order' = [order EXCEPT ![o].status = to], stock' = stock,
         order[o].status \notin {"NONE", "CANCELLED"}
  PROVE  Exchange(o)
<1>1. order[o] \in OrderRow
  BY DEF StockIInv, TypeOK
<1>2. /\ order'[o].status = to /\ order'[o].items = order[o].items
      /\ \A p \in Orders \ {o} : order'[p] = order[p]
  BY <1>1 DEF StockIInv, TypeOK, OrderRow
<1>3. to \notin {"NONE", "CANCELLED"}
  BY DEF OrderStatus
<1>4. Held(o)' = order[o].items /\ Held(o) = order[o].items
  BY <1>2, <1>3, HeldOf
<1> QED BY <1>2, <1>4 DEF Exchange

\* A step moves pieces between the stock and one order, or writes a stale entity.
DoubleEntry ==
  \/ \E o \in Orders : Exchange(o)
  \/ \E e \in Edits : StaleEdit(e)
  \/ StaleVariant

LEMMA DoubleEntryStep == StockIInv /\ [Next]_vars => DoubleEntry
<1> SUFFICES ASSUME StockIInv, [Next]_vars PROVE DoubleEntry
  OBVIOUS
<1>1. ASSUME NEW o \in Orders, Exchange(o) PROVE DoubleEntry
  BY <1>1 DEF DoubleEntry
<1>2. CASE UNCHANGED <<stock, order>>
  BY <1>2, StockAssumption DEF Held, Exchange, DoubleEntry
<1>3. ASSUME NEW o \in Orders, PersistOrder(o) PROVE DoubleEntry
  BY <1>1, <1>3, PersistExchanges
<1>4. ASSUME NEW e \in Edits, ReplaceItems(e) \/ EditNotes(e) PROVE DoubleEntry
  <2>1. CASE StaleEdit(e)
    BY <2>1 DEF DoubleEntry
  <2>2. CASE ~StaleEdit(e)
    <3>1. \E o \in Orders : Exchange(o)
      BY <1>4, <2>2, EditExchanges
    <3> QED BY <1>1, <3>1
  <2> QED BY <2>1, <2>2
<1>5. ASSUME NEW o \in Orders, Cancel(o) PROVE DoubleEntry
  <2>1. RestoreAndCancel(o) /\ order[o].status \notin {"NONE", "CANCELLED"}
    BY <1>5 DEF Cancel, CancellableStatuses
  <2> QED BY <1>1, <2>1, CancelExchanges
<1>6. ASSUME NEW o \in Orders, NEW to \in OrderStatus, UpdateStatus(o, to) PROVE DoubleEntry
  <2>1. order[o].status \notin {"NONE", "CANCELLED"}
    BY <1>6 DEF UpdateStatus, CanTransition, AllowedTransitions, OrderStatus
  <2>2. CASE to = "CANCELLED"
    BY <1>1, <1>6, <2>1, <2>2, CancelExchanges DEF UpdateStatus
  <2>3. CASE to # "CANCELLED"
    BY <1>1, <1>6, <2>1, <2>3, MoveExchanges DEF UpdateStatus
  <2> QED BY <2>2, <2>3
<1>7. ASSUME NEW o \in Orders, PaymentCompletes(o) PROVE DoubleEntry
  <2>1. stock' = stock
    BY <1>7 DEF PaymentCompletes, stockRows
  <2>2. CASE order' = order
    BY <1>2, <2>1, <2>2
  <2>3. CASE order' # order
    <3>1. order' = [order EXCEPT ![o].status = "CONFIRMED"] /\ order[o].status = "PENDING"
      BY <1>7, <2>3 DEF PaymentCompletes, CanApplyExternalStatusChange
    <3>2. "CONFIRMED" \in OrderStatus \ {"CANCELLED"}
      BY DEF OrderStatus
    <3> QED BY <1>1, <2>1, <3>1, <3>2, MoveExchanges
  <2> QED BY <2>2, <2>3
<1>8. ASSUME UpdateVariants PROVE DoubleEntry
  <2>1. CASE StaleVariant
    BY <2>1 DEF DoubleEntry
  <2>2. CASE ~StaleVariant
    <3>1. \A v \in DOMAIN variantEdit.entity :
            variantEdit.entity[v].stock = variantEdit.before[v].stock
      <4>1. variantEdit.at = "update" /\ variantEdit'.at = "idle"
        BY <1>8 DEF UpdateVariants, IdleVariants
      <4> QED BY <2>2, <4>1 DEF StaleVariant
    <3>2. stock' = stock
      BY <1>8, <3>1, UpdatedVariants DEF StockIInv
    <3>3. order' = order
      BY <1>8 DEF UpdateVariants, orderRows
    <3> QED BY <1>2, <3>2, <3>3
  <2> QED BY <2>1, <2>2
<1>9. CASE SaveDiscount
  BY <1>2, <1>9 DEF SaveDiscount, stockRows, orderRows
<1> QED BY <1>2, <1>3, <1>4, <1>5, <1>6, <1>7, <1>8, <1>9, QuietSteps

\* Stock and orders keep double entry, whatever interleaves, but for the writes
\* of entities that are stale.
THEOREM StockAlwaysFollows == Spec => StockFollowsOrders
<1>1. StockIInv /\ [Next]_vars =>
        [ \/ \E o \in Orders :
               /\ \A p \in Orders \ {o} : order'[p] = order[p]
               /\ \A v \in Variants : stock'[v] + Held(o)'[v] = stock[v] + Held(o)[v]
          \/ \E e \in Edits : StaleEdit(e)
          \/ StaleVariant ]_vars
  BY DoubleEntryStep DEF DoubleEntry, Exchange
<1> QED BY AlwaysIInv, <1>1, PTL DEF Spec, StockFollowsOrders

-----------------------------------------------------------------------------
\* The pieces of a variant that the orders hold.
HeldBy(v) == [o \in Orders |-> Held(o)[v]]

PiecesHeld == \A v \in Variants, o \in Orders : HeldBy(v)[o] \in Nat

LEMMA HeldIsNat == TypeOK => PiecesHeld
<1> SUFFICES ASSUME TypeOK, NEW v \in Variants, NEW o \in Orders PROVE HeldBy(v)[o] \in Nat
  BY DEF PiecesHeld
<1>1. order[o].items \in Basket \cup {Nothing}
  BY DEF TypeOK, OrderRow
<1>2. Held(o) \in Basket \cup {Nothing}
  BY <1>1 DEF Held
<1> QED BY <1>2, NothingType DEF HeldBy

LEMMA HeldAfterIsNat == TypeOK' => PiecesHeld'
BY HeldIsNat, PTL

\* StockBalanced, with the sum over the orders written out.
Balance == \A v \in Variants : stock[v] + SumFunctionOnSet(HeldBy(v), Orders) = Supply[v]

LEMMA BalanceIs == StockBalanced <=> Balance
<1>1. ASSUME NEW v \in Variants
      PROVE  SumFunction([o \in Orders |-> Held(o)[v]]) = SumFunctionOnSet(HeldBy(v), Orders)
  <2>1. DOMAIN HeldBy(v) = Orders
    BY DEF HeldBy
  <2> QED BY <2>1 DEF SumFunction, HeldBy
<1> QED BY <1>1 DEF StockBalanced, Balance

LEMMA BalanceAfterIs == StockBalanced' <=> Balance'
BY BalanceIs, PTL

\* What an exchange gives to an order it takes from the stock.
LEMMA ExchangeBalances ==
  ASSUME TypeOK, TypeOK', Balance, NEW o \in Orders, Exchange(o)
  PROVE  Balance'
<1> SUFFICES ASSUME NEW v \in Variants
             PROVE  stock'[v] + SumFunctionOnSet(HeldBy(v)', Orders) = Supply[v]
  BY DEF Balance
<1>1. \A p \in Orders : HeldBy(v)[p] \in Nat /\ HeldBy(v)'[p] \in Nat
  BY HeldIsNat, HeldAfterIsNat DEF PiecesHeld
<1>2. \A p \in Orders \ {o} : HeldBy(v)[p] = HeldBy(v)'[p]
  BY DEF Exchange, HeldBy, Held
<1>3. SumFunctionOnSet(HeldBy(v)', Orders) =
        SumFunctionOnSet(HeldBy(v), Orders) + HeldBy(v)'[o] - HeldBy(v)[o]
  BY <1>1, <1>2, TermChanged, StockAssumption
<1>4. stock'[v] + HeldBy(v)'[o] = stock[v] + HeldBy(v)[o]
  BY DEF Exchange, HeldBy
<1>5. stock[v] + SumFunctionOnSet(HeldBy(v), Orders) = Supply[v]
  BY DEF Balance
<1>6. SumFunctionOnSet(HeldBy(v), Orders) \in Nat
  BY <1>1, SumIsNat, StockAssumption
<1>7. stock[v] \in Nat /\ stock'[v] \in Nat
  BY DEF TypeOK
<1> QED BY <1>1, <1>3, <1>4, <1>5, <1>6, <1>7

LEMMA InitBalanced == Init => StockBalanced
<1> SUFFICES ASSUME Init, NEW v \in Variants
             PROVE  stock[v] + SumFunctionOnSet(HeldBy(v), Orders) = Supply[v]
  BY BalanceIs DEF Balance
<1>1. \A o \in Orders : HeldBy(v)[o] = 0
  BY DEF Init, HeldBy, Held, NoOrder, Nothing
<1>2. SumFunctionOnSet(HeldBy(v), Orders) = 0
  BY <1>1, ZerosAddUpToZero, StockAssumption
<1>3. stock[v] = Supply[v] /\ Supply[v] \in Nat
  BY StockAssumption DEF Init
<1> QED BY <1>2, <1>3

\* A request commits what it had read of a row that has changed since.
StaleWrite == (\E e \in Edits : StaleEdit(e)) \/ StaleVariant

\* A step after which stock and orders no longer add up to the supply.
Unbalances == StockBalanced /\ ~StockBalanced'

LEMMA OnlyStaleUnbalances == StockIInv /\ [Next]_vars => (Unbalances => StaleWrite)
<1> SUFFICES ASSUME StockIInv, [Next]_vars, StockBalanced, ~StaleWrite PROVE StockBalanced'
  BY DEF Unbalances
<1>1. TypeOK /\ TypeOK'
  BY TypeStep DEF StockIInv
<1>2. PICK o \in Orders : Exchange(o)
  BY DoubleEntryStep DEF DoubleEntry, StaleWrite
<1> QED BY <1>1, <1>2, ExchangeBalances, BalanceIs, BalanceAfterIs

\* Stock plus what orders hold is the supply until a request writes a stale row
\* (orders.service.ts:389-407, products.service.ts:171-205): placing, cancelling,
\* payments and edits of orders that are as they were read never part them, for
\* any number of orders, edits and variants.
THEOREM OnlyStaleWritesUnbalance ==
  Spec => StockBalanced /\ [][Unbalances => StaleWrite]_vars
<1>1. StockIInv /\ [Next]_vars => [Unbalances => StaleWrite]_vars
  BY OnlyStaleUnbalances
<1> QED BY AlwaysIInv, InitBalanced, <1>1, PTL DEF Spec

\* Whoever drives the order, once it is paid it is not cancelled any more.
THEOREM PaidAlwaysStays == Spec => PaidOrderStays
<1> DEFINE A == \A o \in Orders : paid[o] /\ order[o].status # "CANCELLED"
                                    => order'[o].status # "CANCELLED"
<1>1. ASSUME StockIInv, [Next]_vars PROVE A
  <2> SUFFICES ASSUME NEW p \in Orders, paid[p], order[p].status # "CANCELLED"
               PROVE  order'[p].status # "CANCELLED"
    OBVIOUS
  <2> USE <1>1 DEF StockIInv
  <2>1. CASE order' = order
    BY <2>1
  <2>2. ASSUME NEW o \in Orders, PersistOrder(o) PROVE order'[p].status # "CANCELLED"
    BY <2>2 DEF PersistOrder, TypeOK
  <2>3. ASSUME NEW e \in Edits, ReplaceItems(e) \/ EditNotes(e)
        PROVE  order'[p].status # "CANCELLED"
    BY <2>3, EditKeepsStatus
  <2>4. ASSUME NEW o \in Orders, Cancel(o) PROVE order'[p].status # "CANCELLED"
    BY <2>4 DEF Cancel, RestoreAndCancel, TypeOK
  <2>5. ASSUME NEW o \in Orders, NEW to \in OrderStatus, UpdateStatus(o, to)
        PROVE  order'[p].status # "CANCELLED"
    <3>1. CASE o = p
      <4>1. to # "CANCELLED" /\ order' = [order EXCEPT ![p].status = to]
        BY <2>5, <3>1 DEF UpdateStatus
      <4> QED BY <4>1 DEF TypeOK, OrderRow
    <3>2. CASE o # p
      BY <2>5, <3>2 DEF UpdateStatus, RestoreAndCancel, TypeOK
    <3> QED BY <3>1, <3>2
  <2>6. ASSUME NEW o \in Orders, PaymentCompletes(o) PROVE order'[p].status # "CANCELLED"
    <3>1. order' = order \/ order' = [order EXCEPT ![o].status = "CONFIRMED"]
      BY <2>6 DEF PaymentCompletes
    <3> QED BY <3>1 DEF TypeOK, OrderRow
  <2>7. ASSUME UpdateVariants PROVE order' = order
    BY <2>7 DEF UpdateVariants, orderRows
  <2>8. SaveDiscount => order' = order
    BY DEF SaveDiscount, orderRows
  <2> QED BY <2>1, <2>2, <2>3, <2>4, <2>5, <2>6, <2>7, <2>8, QuietSteps
<1>2. StockIInv /\ [Next]_vars => [\A o \in Orders : paid[o] /\ order[o].status # "CANCELLED"
                                    => order'[o].status # "CANCELLED"]_vars
  BY <1>1
<1> QED BY AlwaysIInv, <1>2, PTL DEF Spec, PaidOrderStays

\* The items and the totals of an order part only when an edit is stale.
THEOREM TotalsAlwaysFollow == Spec => TotalsFollowItems
<1> DEFINE A == \/ \A o \in Orders : order[o].totals = order[o].items
                                       => order'[o].totals = order'[o].items
                \/ \E e \in Edits : StaleEdit(e)
<1>1. ASSUME StockIInv, [Next]_vars PROVE A
  <2> USE <1>1 DEF StockIInv
  <2>1. CASE order' = order
    BY <2>1
  <2>2. ASSUME NEW o \in Orders, PersistOrder(o) PROVE A
    <3>1. order'[o].totals = order'[o].items /\ \A p \in Orders : p # o => order'[p] = order[p]
      BY <2>2 DEF PersistOrder, TypeOK
    <3> QED BY <3>1
  <2>3. ASSUME NEW e \in Edits, ReplaceItems(e) \/ EditNotes(e), ~StaleEdit(e) PROVE A
    <3>1. PICK o \in Orders : o = edit[e].id /\ order[o] = edit[e].read /\ order[o] \in OrderRow
      BY <2>3, FreshEdit
    <3>2. \A p \in Orders : p # o => order'[p] = order[p]
      BY <2>3, <3>1 DEF ReplaceItems, EditNotes, TypeOK
    <3>3. CASE ReplaceItems(e)
      <4>1. order'[o].totals = order'[o].items
        BY <3>1, <3>3 DEF ReplaceItems, TypeOK, OrderRow
      <4> QED BY <3>2, <4>1
    <3>4. CASE EditNotes(e)
      <4>1. order'[o].totals = order[o].totals /\ order'[o].items = order[o].items
        BY <3>1, <3>4 DEF EditNotes, TypeOK, OrderRow
      <4> QED BY <3>2, <4>1
    <3> QED BY <2>3, <3>3, <3>4
  <2>4. ASSUME NEW o \in Orders, NEW to \in OrderStatus, order' = [order EXCEPT ![o].status = to]
        PROVE  A
    <3>1. ASSUME NEW p \in Orders
          PROVE  order'[p].totals = order[p].totals /\ order'[p].items = order[p].items
      BY <2>4 DEF TypeOK, OrderRow
    <3> QED BY <3>1
  <2>5. ASSUME NEW o \in Orders,
               Cancel(o) \/ (\E to \in OrderStatus : UpdateStatus(o, to)) \/ PaymentCompletes(o)
        PROVE  order' = order \/ \E to \in OrderStatus : order' = [order EXCEPT ![o].status = to]
    <3>1. "CANCELLED" \in OrderStatus /\ "CONFIRMED" \in OrderStatus
      BY DEF OrderStatus
    <3> QED BY <2>5, <3>1 DEF Cancel, UpdateStatus, PaymentCompletes, RestoreAndCancel
  <2>6. ASSUME UpdateVariants PROVE order' = order
    BY <2>6 DEF UpdateVariants, orderRows
  <2>7. SaveDiscount => order' = order
    BY DEF SaveDiscount, orderRows
  <2>8. ASSUME NEW e \in Edits, StaleEdit(e) PROVE A
    BY <2>8
  <2> HIDE DEF A
  <2> QED BY <2>1, <2>2, <2>3, <2>4, <2>5, <2>6, <2>7, <2>8, QuietSteps
<1>2. StockIInv /\ [Next]_vars =>
        [\/ \A o \in Orders : order[o].totals = order[o].items
                               => order'[o].totals = order'[o].items
         \/ \E e \in Edits : StaleEdit(e)]_vars
  BY <1>1
<1> QED BY AlwaysIInv, <1>2, PTL DEF Spec, TotalsFollowItems

\* The counter of the code moves with the orders that carry it, or an
\* administrator's save is stale.
THEOREM UsesAlwaysCounted == Spec => UsesAreCounted
<1> DEFINE Counted(o) ==
             usedCount' - usedCount =
               (IF order'[o].coded THEN 1 ELSE 0) - (IF order[o].coded THEN 1 ELSE 0)
             /\ \A p \in Orders \ {o} : order'[p].coded = order[p].coded
<1>1. ASSUME StockIInv, [Next]_vars PROVE (\E o \in Orders : Counted(o)) \/ StaleDiscount
  <2>1. ASSUME usedCount' = usedCount, \A o \in Orders : order'[o].coded = order[o].coded
        PROVE  \E o \in Orders : Counted(o)
    <3>1. PICK o \in Orders : TRUE
      BY StockAssumption
    <3>2. usedCount \in Nat
      BY <1>1, StockAssumption DEF StockIInv, TypeOK
    <3>3. Counted(o)
      BY <2>1, <3>1, <3>2
    <3> QED BY <3>3
  <2>2. ASSUME NEW o \in Orders, PersistOrder(o) PROVE Counted(o)
    <3>1. order[o] = NoOrder /\ order[o].coded = FALSE
      BY <1>1, <2>2, NothingType DEF StockIInv, Placed, PersistOrder
    <3>2. /\ order'[o].coded = placing[o].coded
          /\ \A p \in Orders \ {o} : order'[p] = order[p]
      BY <1>1, <2>2 DEF PersistOrder, StockIInv, TypeOK
    <3>3. placing[o].coded \in BOOLEAN /\ usedCount \in Nat
      BY <1>1, StockAssumption DEF StockIInv, TypeOK, PlacingRow
    <3>4. usedCount' = IF placing[o].coded THEN usedCount + 1 ELSE usedCount
      BY <2>2 DEF PersistOrder
    <3>5. usedCount' - usedCount = IF placing[o].coded THEN 1 ELSE 0
      BY <3>3, <3>4
    <3> QED BY <3>1, <3>2, <3>3, <3>5
  <2>3. ASSUME NEW o \in Orders, NEW to, order' = [order EXCEPT ![o].status = to]
        PROVE  \A p \in Orders : order'[p].coded = order[p].coded
    BY <1>1, <2>3 DEF StockIInv, TypeOK, OrderRow
  <2>4. ASSUME NEW e \in Edits, ReplaceItems(e) \/ EditNotes(e)
        PROVE  usedCount' = usedCount /\ \A p \in Orders : order'[p].coded = order[p].coded
    <3>1. PICK o \in Orders : o = edit[e].id /\ order[o] \in OrderRow
      BY <1>1, <2>4, RunningEdit DEF StockIInv, TypeOK, ReplaceItems, EditNotes
    <3>2. CASE ReplaceItems(e)
      BY <1>1, <3>1, <3>2 DEF ReplaceItems, StockIInv, TypeOK, OrderRow
    <3>3. CASE EditNotes(e)
      BY <1>1, <3>1, <3>3 DEF EditNotes, StockIInv, TypeOK, OrderRow
    <3> QED BY <2>4, <3>2, <3>3
  <2>5. ASSUME NEW o \in Orders,
               Cancel(o) \/ (\E to \in OrderStatus : UpdateStatus(o, to)) \/ PaymentCompletes(o)
        PROVE  usedCount' = usedCount /\ \A p \in Orders : order'[p].coded = order[p].coded
    BY <2>3, <2>5 DEF Cancel, UpdateStatus, PaymentCompletes, RestoreAndCancel
  <2>6. ASSUME UpdateVariants
        PROVE  usedCount' = usedCount /\ order' = order
    BY <2>6 DEF UpdateVariants, orderRows
  <2>7. CASE SaveDiscount
    <3>1. order' = order /\ (discountEdit.usedCount = usedCount => usedCount' = usedCount)
      BY <2>7 DEF SaveDiscount, orderRows
    <3>2. discountEdit.usedCount # usedCount => StaleDiscount
      BY <2>7 DEF SaveDiscount, StaleDiscount
    <3> QED BY <2>1, <3>1, <3>2
  <2>8. UNCHANGED <<stock, order, usedCount>> => \E o \in Orders : Counted(o)
    BY <2>1
  <2> HIDE DEF Counted
  <2> QED BY <1>1, <2>1, <2>2, <2>4, <2>5, <2>6, <2>7, <2>8, QuietSteps
<1>2. StockIInv /\ [Next]_vars =>
        [\/ \E o \in Orders :
              usedCount' - usedCount =
                (IF order'[o].coded THEN 1 ELSE 0) - (IF order[o].coded THEN 1 ELSE 0)
              /\ \A p \in Orders \ {o} : order'[p].coded = order[p].coded
         \/ StaleDiscount]_vars
  BY <1>1
<1> QED BY AlwaysIInv, <1>2, PTL DEF Spec, UsesAreCounted

\* A variant that is switched off when the transaction runs is not sold.
THEOREM InactiveNeverSold == Spec => InactiveNotSold
<1>1. ASSUME StockIInv, [Next]_vars, NEW o \in Orders, NEW v \in Variants,
             order'[o].items[v] > order[o].items[v]
      PROVE  active[v]
  <2>1. order \in [Orders -> OrderRow] /\ order[o].items[v] \in Nat
    BY <1>1, NothingType DEF StockIInv, TypeOK, OrderRow
  <2>2. order'[o].items # order[o].items
    BY <1>1, <2>1
  <2>3. ASSUME NEW items \in Basket \cup {Nothing}, NEW from, CanTake(items, from),
               order'[o].items = items
        PROVE  active[v]
    <3>1. items[v] \in Nat
      BY NothingType
    <3>2. items[v] > 0
      BY <1>1, <2>1, <2>3, <3>1
    <3> QED BY <2>3, <3>2 DEF CanTake
  <2>4. ASSUME NEW p \in Orders, PersistOrder(p) PROVE active[v]
    <3>1. o = p
      BY <2>1, <2>2, <2>4 DEF PersistOrder
    <3>2. order'[o].items = placing[o].items /\ CanTake(placing[o].items, stock)
      BY <2>1, <2>4, <3>1 DEF PersistOrder
    <3>3. placing[o].items \in Basket \cup {Nothing}
      BY <1>1 DEF StockIInv, TypeOK, PlacingRow
    <3> QED BY <2>3, <3>2, <3>3
  <2>5. ASSUME NEW e \in Edits, ReplaceItems(e) PROVE active[v]
    <3>1. o = edit[e].id
      BY <1>1, <2>2, <2>5, EditKeepsStatus DEF StockIInv
    <3>2. order'[o].items = edit[e].items /\ CanTake(edit[e].items, Restored(e))
      BY <2>1, <2>5, <3>1 DEF ReplaceItems, EditAccepted, OrderRow
    <3>3. edit[e].items \in Basket \cup {Nothing}
      BY <1>1, <2>5, RunningEdit DEF StockIInv, ReplaceItems, EditRow
    <3> QED BY <2>3, <3>2, <3>3
  <2>6. ASSUME NEW e \in Edits, EditNotes(e) PROVE FALSE
    BY <2>1, <2>2, <2>6 DEF EditNotes, OrderRow
  <2>7. ASSUME NEW p \in Orders,
               Cancel(p) \/ (\E to \in OrderStatus : UpdateStatus(p, to)) \/ PaymentCompletes(p)
        PROVE  FALSE
    BY <2>1, <2>2, <2>7 DEF Cancel, UpdateStatus, PaymentCompletes, RestoreAndCancel, OrderRow
  <2>8. ASSUME UpdateVariants PROVE order' = order
    BY <2>8 DEF UpdateVariants, orderRows
  <2>9. SaveDiscount => order' = order
    BY DEF SaveDiscount, orderRows
  <2> QED BY <1>1, <2>2, <2>4, <2>5, <2>6, <2>7, <2>8, <2>9, QuietSteps
<1>2. StockIInv /\ [Next]_vars =>
        [\A o \in Orders, v \in Variants :
           order'[o].items[v] > order[o].items[v] => active[v]]_vars
  BY <1>1
<1> QED BY AlwaysIInv, <1>2, PTL DEF Spec, InactiveNotSold

\* The counters agree with the orders: the stock by StockAlwaysFollows, the uses of
\* the code by UsesAlwaysCounted, the totals by TotalsAlwaysFollow.
THEOREM CountersAlwaysFollow == Spec => CountersFollowOrders
  BY StockAlwaysFollows, UsesAlwaysCounted, TotalsAlwaysFollow DEF CountersFollowOrders

\* A paid order is not cancelled, and an inactive variant is not sold.
THEOREM RulesAlwaysHold == Spec => RulesHoldAtCommit
  BY PaidAlwaysStays, InactiveNeverSold DEF RulesHoldAtCommit

-----------------------------------------------------------------------------
(***************************************************************************)
(* Amounts.                                                                *)
(*                                                                         *)
(* What is charged, what each item is worth and what its return refunds    *)
(* are rounded one by one. Each rounding is within a half of its           *)
(* quotient, which is enough for the sums to agree.                        *)
(***************************************************************************)

(* Division and products of natural numbers. *)

LEMMA Quotient ==
  ASSUME NEW x \in Nat, NEW y \in Nat, y > 0
  PROVE  /\ x \div y \in Nat
         /\ y * (x \div y) <= x
         /\ x < y * (x \div y) + y
         /\ x = y * (x \div y) + (x % y)
OBVIOUS

LEMMA ProductIsNat ==
  ASSUME NEW x \in Nat, NEW y \in Nat
  PROVE  x * y \in Nat
OBVIOUS

LEMMA Distributes ==
  ASSUME NEW x \in Int, NEW y \in Int, NEW z \in Int
  PROVE  (x + y) * z = x * z + y * z /\ z * (x + y) = z * x + z * y
OBVIOUS

LEMMA Associates ==
  ASSUME NEW x \in Int, NEW y \in Int, NEW z \in Int
  PROVE  (x * y) * z = x * (y * z) /\ x * y = y * x
OBVIOUS

LEMMA ProductGrows ==
  ASSUME NEW x \in Nat, NEW y \in Int, y >= 1
  PROVE  x * y >= x
OBVIOUS

\* Rounding loses at most half of the divisor.
LEMMA HalfUpIsClose ==
  ASSUME NEW n \in Nat, NEW d \in Nat, d > 0
  PROVE  /\ HalfUp(n, d) \in Nat
         /\ 2 * (HalfUp(n, d) * d) <= 2 * n + d
         /\ 2 * n <= 2 * (HalfUp(n, d) * d) + d
<1> DEFINE a == HalfUp(n, d)
<1>1. 2 * n + d \in Nat /\ 2 * d \in Nat /\ 2 * d > 0
  OBVIOUS
<1>2. /\ a \in Nat
      /\ (2 * d) * a <= 2 * n + d
      /\ 2 * n + d < (2 * d) * a + 2 * d
  BY <1>1, Quotient DEF HalfUp
<1> HIDE DEF a
<1>3. (2 * d) * a = 2 * (a * d)
  BY <1>2, Associates
<1>4. a * d \in Nat
  BY <1>2, ProductIsNat
<1> QED  BY <1>2, <1>3, <1>4 DEF a

\* An amount that is exactly half a hundredth may go down instead.
LEMMA HalfDownIsClose ==
  ASSUME NEW n \in Nat, NEW d \in Nat, d > 0, (2 * n) % (2 * d) = d
  PROVE  /\ n \div d \in Nat
         /\ 2 * ((n \div d) * d) <= 2 * n + d
         /\ 2 * n <= 2 * ((n \div d) * d) + d
<1> DEFINE m == n \div d  k == (2 * n) \div (2 * d)
<1>1. 2 * n \in Nat /\ 2 * d \in Nat /\ 2 * d > 0
  OBVIOUS
<1>2. m \in Nat /\ d * m <= n /\ n < d * m + d
  BY Quotient
<1>3. k \in Nat /\ 2 * n = (2 * d) * k + d
  <2>1. PICK x \in Nat, y \in Nat : x = 2 * n /\ y = 2 * d
    BY <1>1
  <2>2. y > 0
    BY <1>1, <2>1
  <2>3. x \div y \in Nat /\ x = y * (x \div y) + (x % y)
    BY <2>2, Quotient
  <2>4. x \div y = k /\ x % y = d
    BY <2>1
  <2>5. k \in Nat /\ x = y * k + d
    BY <2>3, <2>4
  <2> QED  BY <2>1, <2>5
<1> HIDE DEF m, k
<1>4. (2 * d) * k = 2 * (d * k) /\ d * k \in Nat /\ d * m \in Nat /\ m * d = d * m
  BY <1>2, <1>3, Associates, ProductIsNat
<1>5. ~(k >= m + 1)
  <2> SUFFICES ASSUME k >= m + 1 PROVE FALSE
    OBVIOUS
  <2>1. d * (k - m) >= d
    BY <1>2, <1>3, ProductGrows
  <2>2. d * k = d * m + d * (k - m)
    BY <1>2, <1>3
  <2> QED  BY <1>2, <1>3, <1>4, <2>1, <2>2
<1>6. d * k <= d * m
  <2>1. m - k >= 0
    BY <1>2, <1>3, <1>5
  <2>2. d * (m - k) \in Nat
    BY <1>2, <1>3, <2>1, ProductIsNat
  <2>3. d * m = d * k + d * (m - k)
    BY <1>2, <1>3
  <2> QED  BY <1>4, <2>2, <2>3
<1> QED  BY <1>2, <1>3, <1>4, <1>6 DEF m

\* What refunding some pieces gives back is their share of what was paidFor, to half a
\* hundredth.
LEMMA ItemAmountIsFair ==
  ASSUME NEW price \in Nat, NEW qty \in Nat, NEW paidFor \in Nat, NEW subtotal \in Nat
  PROVE  /\ ItemAmount(price, qty, paidFor, subtotal) \in Nat
         /\ subtotal > 0 =>
              LET a == ItemAmount(price, qty, paidFor, subtotal) IN
              /\ 2 * (a * subtotal) <= 2 * ((price * qty) * paidFor) + subtotal
              /\ 2 * ((price * qty) * paidFor) <= 2 * (a * subtotal) + subtotal
<1>1. PICK n : n = price * qty * paidFor
  OBVIOUS
<1>2. price * qty \in Nat /\ n \in Nat /\ n = (price * qty) * paidFor
  BY <1>1, ProductIsNat
<1>3. CASE subtotal = 0
  BY <1>2, <1>3 DEF ItemAmount
<1>4. CASE subtotal > 0
  <2>1. PICK a : a = ItemAmount(price, qty, paidFor, subtotal)
    OBVIOUS
  <2>2. \/ a = HalfUp(n, subtotal)
        \/ (2 * n) % (2 * subtotal) = subtotal /\ a = n \div subtotal
    BY <1>1, <1>4, <2>1 DEF ItemAmount
  <2>3. a \in Nat /\ 2 * (a * subtotal) <= 2 * n + subtotal /\ 2 * n <= 2 * (a * subtotal) + subtotal
    <3>1. CASE a = HalfUp(n, subtotal)
      BY <1>2, <1>4, <3>1, HalfUpIsClose
    <3>2. CASE (2 * n) % (2 * subtotal) = subtotal /\ a = n \div subtotal
      BY <1>2, <1>4, <3>2, HalfDownIsClose
    <3> QED  BY <2>2, <3>1, <3>2
  <2> QED  BY <1>2, <2>1, <2>3
<1> QED  BY <1>3, <1>4

-----------------------------------------------------------------------------
(* The order and its refunds. *)

DealHolds ==
  /\ deal \in Deal
  /\ pieces \in [ItemNo -> Nat]
  /\ \A i \in ItemNo : pieces[i] <= deal.quantity[i]
  /\ returned \in Nat
  /\ parts \in Nat

LEMMA DealIsNat ==
  ASSUME deal \in Deal
  PROVE  /\ \A i \in ItemNo : deal.price[i] \in Nat /\ deal.quantity[i] \in Nat
         /\ DealSubtotal \in Nat /\ DealTotal \in Nat
<1>1. \A i \in ItemNo : deal.price[i] \in Prices /\ deal.quantity[i] \in Amounts
  BY DEF Deal
<1>2. \A i \in ItemNo : deal.price[i] \in Nat /\ deal.quantity[i] \in Nat
  BY <1>1, ProrationAssumption
<1>3. deal.value \in Nat /\ deal.shipping \in Nat
  BY ProrationAssumption DEF Deal
<1>4. 1 \in ItemNo /\ 2 \in ItemNo
  BY DEF ItemNo
<1>5. deal.price[1] * deal.quantity[1] \in Nat /\ deal.price[2] * deal.quantity[2] \in Nat
  BY <1>2, <1>4, ProductIsNat
<1>6. DealSubtotal \in Nat
  BY <1>5 DEF DealSubtotal
<1>7. DiscountAmount(deal.type, deal.value, DealSubtotal) \in 0 .. DealSubtotal
  <2>1. DealSubtotal * deal.value \in Nat
    BY <1>3, <1>6, ProductIsNat
  <2>2. HalfUp(DealSubtotal * deal.value, 100) \in Nat
    BY <2>1, HalfUpIsClose
  <2> QED  BY <1>3, <1>6, <2>2 DEF DiscountAmount, MinOf
<1>8. DealTotal \in Nat
  BY <1>3, <1>6, <1>7 DEF DealTotal, OrderTotal
<1> QED  BY <1>2, <1>6, <1>8

\* What a currency's smallest unit leaves of an amount.
LEMMA ReadBack ==
  ASSUME NEW amount \in Nat, NEW decimals \in CurrencyDecimals
  PROVE  LET back == FromStripeAmount(ToStripeAmount(amount, decimals), decimals)
         IN  IF decimals = 0 THEN Distance(back, amount) <= 50 ELSE back = amount
<1>1. CASE decimals = 0
  <2>1. MinorUnitFactor(0) = 1
    BY DEF MinorUnitFactor
  <2>2. PICK units : units = ToStripeAmount(amount, 0)
    OBVIOUS
  <2>3. units = (2 * amount + 100) \div 200
    BY <2>1, <2>2 DEF ToStripeAmount, HalfUp
  <2>4. FromStripeAmount(units, 0) = (2 * (units * 100) + 1) \div 2
    BY <2>1 DEF FromStripeAmount, HalfUp
  <2> QED  BY <1>1, <2>2, <2>3, <2>4 DEF Distance
<1>2. CASE decimals = 2
  <2>1. MinorUnitFactor(2) = 100
    BY DEF MinorUnitFactor
  <2>2. PICK units : units = ToStripeAmount(amount, 2)
    OBVIOUS
  <2>3. units = (2 * (amount * 100) + 100) \div 200
    <3>1. units = HalfUp(amount * 100, 100)
      BY <2>1, <2>2 DEF ToStripeAmount
    <3> QED  BY <3>1 DEF HalfUp
  <2>4. FromStripeAmount(units, 2) = (2 * (units * 100) + 100) \div 200
    BY <2>1 DEF FromStripeAmount, HalfUp
  <2>5. units = amount
    BY <2>3
  <2>6. FromStripeAmount(units, 2) = amount
    BY <2>4, <2>5
  <2> QED  BY <1>2, <2>2, <2>6
<1>3. CASE decimals = 3
  <2>1. MinorUnitFactor(3) = 1000
    BY DEF MinorUnitFactor
  <2>2. PICK units : units = ToStripeAmount(amount, 3)
    OBVIOUS
  <2>3. units = (2 * (amount * 1000) + 100) \div 200
    BY <2>1, <2>2 DEF ToStripeAmount, HalfUp
  <2>4. FromStripeAmount(units, 3) = (2 * (units * 100) + 1000) \div 2000
    BY <2>1 DEF FromStripeAmount, HalfUp
  <2> QED  BY <1>3, <2>2, <2>3, <2>4
<1> QED  BY <1>1, <1>2, <1>3 DEF CurrencyDecimals

\* The rounding of one more refund adds at most half a hundredth.
LEMMA OneMoreShare ==
  ASSUME NEW old \in Nat, NEW a \in Nat, NEW gone \in Nat, NEW g \in Nat,
         NEW total \in Nat, NEW subtotal \in Nat, NEW n \in Nat,
         2 * Distance(old * subtotal, gone * total) <= n * subtotal,
         2 * (a * subtotal) <= 2 * (g * total) + subtotal,
         2 * (g * total) <= 2 * (a * subtotal) + subtotal
  PROVE  2 * Distance((old + a) * subtotal, (gone + g) * total) <= (n + 1) * subtotal
<1>1. /\ (old + a) * subtotal = old * subtotal + a * subtotal
      /\ (gone + g) * total = gone * total + g * total
      /\ (n + 1) * subtotal = n * subtotal + subtotal
  BY Distributes
<1>2. /\ old * subtotal \in Nat /\ a * subtotal \in Nat /\ gone * total \in Nat /\ g * total \in Nat
      /\ n * subtotal \in Nat
  BY ProductIsNat
<1>3. ASSUME NEW w \in Nat, NEW x \in Nat, NEW y \in Nat, NEW z \in Nat, NEW b \in Nat,
             2 * Distance(w, y) <= b, 2 * x <= 2 * z + subtotal, 2 * z <= 2 * x + subtotal
      PROVE  2 * Distance(w + x, y + z) <= b + subtotal
  BY <1>3 DEF Distance
<1>4. PICK w \in Nat, x \in Nat, y \in Nat, z \in Nat, b \in Nat :
        w = old * subtotal /\ x = a * subtotal /\ y = gone * total /\ z = g * total /\ b = n * subtotal
  BY <1>2
<1>5. 2 * Distance(w + x, y + z) <= b + subtotal
  BY <1>3, <1>4
<1> QED  BY <1>1, <1>4, <1>5

LEMMA PiecesRefunded ==
  ASSUME DealHolds, SharesAddUp, NEW i \in ItemNo, NEW n \in Amounts, RefundPieces(i, n)
  PROVE  DealHolds' /\ SharesAddUp'
<1>1. PICK a : a = ItemAmount(deal.price[i], n, DealTotal, DealSubtotal)
  OBVIOUS
<1>2. /\ n <= pieces[i] /\ pieces' = [pieces EXCEPT ![i] = @ - n]
      /\ returned' = returned + a /\ parts' = parts + 1 /\ deal' = deal
  BY <1>1 DEF RefundPieces
<1>3. n \in Nat
  BY ProrationAssumption
<1>4. /\ \A j \in ItemNo : deal.price[j] \in Nat /\ deal.quantity[j] \in Nat
      /\ DealSubtotal \in Nat /\ DealTotal \in Nat
  BY DealIsNat DEF DealHolds
<1>5. a \in Nat
  BY <1>1, <1>3, <1>4, ItemAmountIsFair
<1>6. \A j \in ItemNo : pieces[j] \in Nat /\ pieces[j] <= deal.quantity[j]
  BY DEF DealHolds
<1>7. \A j \in ItemNo : pieces'[j] = IF j = i THEN pieces[j] - n ELSE pieces[j]
  BY <1>2 DEF DealHolds
<1>8. DealHolds'
  <2>1. pieces' \in [ItemNo -> Nat]
    BY <1>2, <1>3, <1>6 DEF DealHolds
  <2>2. \A j \in ItemNo : pieces'[j] <= deal.quantity[j]
    BY <1>3, <1>4, <1>6, <1>7
  <2> QED  BY <1>2, <1>5, <2>1, <2>2 DEF DealHolds
<1>9. DealSubtotal' = DealSubtotal /\ DealTotal' = DealTotal
  BY <1>2 DEF DealSubtotal, DealTotal
<1>10. PICK g : g = deal.price[i] * n
  OBVIOUS
<1>11. g \in Nat
  BY <1>3, <1>4, <1>10, ProductIsNat
<1>12. 1 \in ItemNo /\ 2 \in ItemNo /\ i \in {1, 2}
  BY DEF ItemNo
<1>13. /\ Refunded = deal.price[1] * (deal.quantity[1] - pieces[1]) + deal.price[2] * (deal.quantity[2] - pieces[2])
       /\ Refunded' = deal.price[1] * (deal.quantity[1] - pieces'[1]) + deal.price[2] * (deal.quantity[2] - pieces'[2])
  BY <1>2, <1>12 DEF Refunded
<1>14. \A j \in ItemNo : deal.price[j] * (deal.quantity[j] - pieces[j]) \in Nat
  BY <1>4, <1>6, ProductIsNat
<1>15. Refunded \in Nat
  BY <1>12, <1>13, <1>14
<1>16. deal.price[i] * (deal.quantity[i] - pieces'[i]) = deal.price[i] * (deal.quantity[i] - pieces[i]) + g
  <2>1. deal.quantity[i] - pieces'[i] = (deal.quantity[i] - pieces[i]) + n
    BY <1>3, <1>4, <1>6, <1>7
  <2>2. deal.quantity[i] - pieces[i] \in Int
    BY <1>4, <1>6
  <2> QED  BY <1>3, <1>4, <1>10, <2>1, <2>2, Distributes
<1>17. Refunded' = Refunded + g
  BY <1>7, <1>11, <1>12, <1>13, <1>14, <1>16
<1>18. SharesAddUp'
  <2> SUFFICES ASSUME DealSubtotal > 0
               PROVE  2 * Distance((returned + a) * DealSubtotal, (Refunded + g) * DealTotal) <= (parts + 1) * DealSubtotal
    BY <1>2, <1>9, <1>17 DEF SharesAddUp
  <2>1. /\ 2 * (a * DealSubtotal) <= 2 * (g * DealTotal) + DealSubtotal
        /\ 2 * (g * DealTotal) <= 2 * (a * DealSubtotal) + DealSubtotal
    BY <1>1, <1>3, <1>4, <1>10, ItemAmountIsFair
  <2>2. 2 * Distance(returned * DealSubtotal, Refunded * DealTotal) <= parts * DealSubtotal
    BY DEF SharesAddUp
  <2>3. returned \in Nat /\ parts \in Nat
    BY DEF DealHolds
  <2> QED  BY <1>4, <1>5, <1>11, <1>15, <2>1, <2>2, <2>3, OneMoreShare
<1> QED  BY <1>8, <1>18

LEMMA DealStart == ProrationInit => DealHolds /\ SharesAddUp
<1> SUFFICES ASSUME ProrationInit PROVE DealHolds /\ SharesAddUp
  OBVIOUS
<1>1. deal \in Deal /\ pieces = deal.quantity /\ returned = 0 /\ parts = 0
  BY DEF ProrationInit
<1>2. /\ \A i \in ItemNo : deal.price[i] \in Nat /\ deal.quantity[i] \in Nat
      /\ DealSubtotal \in Nat /\ DealTotal \in Nat
  BY <1>1, DealIsNat
<1>3. DealHolds
  <2>1. deal.quantity \in [ItemNo -> Amounts]
    BY <1>1 DEF Deal
  <2> QED  BY <1>1, <1>2, <2>1 DEF DealHolds
<1>4. \A i \in ItemNo : deal.price[i] * (deal.quantity[i] - pieces[i]) = 0
  BY <1>1, <1>2
<1>5. Refunded = 0
  BY <1>4 DEF Refunded, ItemNo
<1>6. SharesAddUp
  BY <1>1, <1>2, <1>5 DEF SharesAddUp, Distance
<1> QED  BY <1>3, <1>6

\* However an order is taken back, what has been returned is the customer's share of
\* what was paidFor, to half a hundredth for each refund item (itemAmount); and an amount
\* that Stripe is asked for is read back as it was (toStripeAmount, fromStripeAmount).
THEOREM AmountsAlwaysAgree == ProrationSpec => []AmountsAgree
<1>1. DealHolds /\ SharesAddUp /\ [ProrationNext]_prorationVars => (DealHolds /\ SharesAddUp)'
  <2>1. CASE UNCHANGED prorationVars
    BY <2>1 DEF prorationVars, DealHolds, SharesAddUp, DealSubtotal, DealTotal, Refunded
  <2> QED  BY <2>1, PiecesRefunded DEF ProrationNext
<1>2. DealHolds /\ SharesAddUp => AmountsAgree
  BY DealIsNat, ReadBack DEF DealHolds, AmountsAgree, StripeAmountsReadBack
<1> QED  BY DealStart, <1>1, <1>2, PTL DEF ProrationSpec

-----------------------------------------------------------------------------
(***************************************************************************)
(* Row locks.                                                              *)
(*                                                                         *)
(* A sale locks variants in the order of their ids and the discount last;  *)
(* a payment locks its row and then the order. So of a circle of waiting   *)
(* transactions one gives stock back. The sales of a circle would wait     *)
(* for rows in ever smaller places, and some row is the least that is      *)
(* waited for.                                                             *)
(***************************************************************************)

(* Sorting. *)

\* A finite set of natural numbers can be listed in order.
LEMMA CanBeSorted ==
  ASSUME NEW S \in SUBSET Nat, IsFiniteSet(S)
  PROVE  \E seq \in SetToSeqs(S) : Ascending(seq)
<1> DEFINE Bad == {T \in SUBSET S : ~ \E seq \in SetToSeqs(T) : Ascending(seq)}
<1> SUFFICES ASSUME Bad # {} PROVE FALSE
  OBVIOUS
<1>1. Bad \in SUBSET SUBSET S
  OBVIOUS
<1> HIDE DEF Bad
<1>2. PICK T \in Bad : \A U \in SUBSET T : U # T => U \notin Bad
  BY <1>1, SmallestSet
<1>3. T \in SUBSET S /\ ~ \E seq \in SetToSeqs(T) : Ascending(seq)
  BY DEF Bad
<1>4. IsFiniteSet(T)
  BY <1>3, FS_Subset
<1>5. T # {}
  <2> SUFFICES ASSUME T = {} PROVE FALSE
    OBVIOUS
  <2>1. Cardinality(T) = 0
    BY FS_EmptySet
  <2>2. PICK seq : seq = [i \in 1 .. 0 |-> i]
    OBVIOUS
  <2>3. seq \in SetToSeqs(T) /\ Ascending(seq)
    BY <2>1, <2>2 DEF SetToSeqs, Ascending
  <2> QED  BY <1>3, <2>3
<1>6. PICK m \in T : \A n \in T : m <= n
  BY <1>3, <1>5, LeastNumber
<1>7. PICK U : U = T \ {m}
  OBVIOUS
<1>8. U \in SUBSET T /\ U # T /\ U \in SUBSET S
  BY <1>3, <1>6, <1>7
<1>9. PICK tail \in SetToSeqs(U) : Ascending(tail)
  BY <1>2, <1>8 DEF Bad
<1>10. PICK n : n = Cardinality(U)
  OBVIOUS
<1>11. n \in Nat /\ Cardinality(T) = n + 1
  <2>1. Cardinality(U) = Cardinality(T) - 1 /\ IsFiniteSet(U)
    BY <1>4, <1>6, <1>7, FS_RemoveElement
  <2>2. Cardinality(T) \in Nat /\ Cardinality(U) \in Nat
    BY <1>4, <2>1, FS_CardinalityType
  <2> QED  BY <1>10, <2>1, <2>2
<1>12. tail \in [1 .. n -> U] /\ \A i, j \in 1 .. n : i # j => tail[i] # tail[j]
  BY <1>10 DEF SetToSeqs
<1>13. PICK seq : seq = [i \in 1 .. n + 1 |-> IF i = 1 THEN m ELSE tail[i - 1]]
  OBVIOUS
<1>14. ASSUME NEW i \in 1 .. n + 1, i # 1
       PROVE  i - 1 \in 1 .. n /\ seq[i] = tail[i - 1] /\ seq[i] \in T /\ m < seq[i] /\ seq[i] \in Nat
  <2>1. i - 1 \in 1 .. n /\ seq[i] = tail[i - 1]
    BY <1>11, <1>13, <1>14
  <2>2. seq[i] \in U
    BY <1>12, <2>1
  <2>3. seq[i] \in T /\ seq[i] # m /\ seq[i] \in Nat /\ m \in Nat
    BY <1>3, <1>6, <1>7, <1>8, <2>2
  <2> QED  BY <1>6, <2>1, <2>3
<1>15. seq[1] = m /\ m \in T /\ m \in Nat /\ DOMAIN seq = 1 .. n + 1
  BY <1>3, <1>6, <1>11, <1>13
<1>16. seq \in [1 .. n + 1 -> T]
  BY <1>13, <1>14, <1>15
<1>17. \A i, j \in 1 .. n + 1 : i < j => seq[i] < seq[j]
  <2> SUFFICES ASSUME NEW i \in 1 .. n + 1, NEW j \in 1 .. n + 1, i < j PROVE seq[i] < seq[j]
    OBVIOUS
  <2>1. CASE i = 1
    BY <1>11, <1>14, <1>15, <2>1
  <2>2. CASE i # 1
    <3>1. j # 1
      BY <1>11
    <3>2. i - 1 \in 1 .. n /\ j - 1 \in 1 .. n /\ i - 1 < j - 1
      BY <1>11, <1>14, <2>2, <3>1
    <3>3. DOMAIN tail = 1 .. n
      BY <1>12
    <3>4. tail[i - 1] < tail[j - 1]
      BY <1>9, <3>2, <3>3 DEF Ascending
    <3> QED  BY <1>14, <2>2, <3>1, <3>4
  <2> QED  BY <2>1, <2>2
<1>18. \A i, j \in 1 .. n + 1 : i # j => seq[i] # seq[j]
  <2> SUFFICES ASSUME NEW i \in 1 .. n + 1, NEW j \in 1 .. n + 1, i # j PROVE seq[i] # seq[j]
    OBVIOUS
  <2>1. seq[i] \in Nat /\ seq[j] \in Nat
    BY <1>14, <1>15
  <2>2. i < j \/ j < i
    BY <1>11
  <2> QED  BY <1>17, <2>1, <2>2
<1>19. seq \in SetToSeqs(T) /\ Ascending(seq)
  BY <1>11, <1>15, <1>16, <1>17, <1>18 DEF SetToSeqs, Ascending
<1> QED  BY <1>3, <1>19

\* The rows of what is sold, in the order of their ids.
VariantRows == {RowOfVariant(v) : v \in LockedVariants}
OrderRows   == {RowOfOrder(o) : o \in LockedOrders}

LEMMA RowsOfLines ==
  ASSUME NEW lines \in Lines
  PROVE  /\ Rows(lines) \in Seq(VariantRows)
         /\ ToSet(lines) \in SUBSET LockedVariants
<1>1. PICK s \in SUBSET LockedVariants : lines \in [1 .. Cardinality(s) -> s]
  BY DEF Lines, SetToAllKPermutations, SetToSeqs
<1>2. IsFiniteSet(s)
  BY <1>1, LocksAssumption, FS_Subset
<1>3. PICK n \in Nat : n = Cardinality(s)
  BY <1>2, FS_CardinalityType
<1>4. lines \in [1 .. n -> LockedVariants]
  BY <1>1, <1>3
<1>5. Rows(lines) \in [1 .. n -> VariantRows]
  BY <1>4 DEF Rows, VariantRows
<1>6. Rows(lines) \in Seq(VariantRows)
  BY <1>5, SeqDef
<1> QED  BY <1>4, <1>6 DEF ToSet

\* Nothing comes before what a later sale locks.
Before(a, b) ==
  /\ a.table = "product_variants" /\ a.id \in Nat
  /\ \/ b.table = "product_variants" /\ b.id \in Nat /\ a.id < b.id
     \/ b.table = "discounts"

LEMMA SortedRows ==
  ASSUME NEW lines \in Lines
  PROVE  /\ Sorted(lines) \in Seq(VariantRows)
         /\ \A i, j \in DOMAIN Sorted(lines) : i < j => Before(Sorted(lines)[i], Sorted(lines)[j])
<1>1. PICK S : S = ToSet(lines)
  OBVIOUS
<1>2. S \in SUBSET LockedVariants /\ S \in SUBSET Nat
  BY <1>1, RowsOfLines, LocksAssumption
<1>3. IsFiniteSet(S)
  BY <1>2, LocksAssumption, FS_Subset
<1>4. PICK seq : seq = CHOOSE s \in SetToSeqs(S) : Ascending(s)
  OBVIOUS
<1>5. seq \in SetToSeqs(S) /\ Ascending(seq)
  BY <1>2, <1>3, <1>4, CanBeSorted
<1>6. PICK n \in Nat : n = Cardinality(S)
  BY <1>3, FS_CardinalityType
<1>7. seq \in [1 .. n -> S]
  BY <1>5, <1>6 DEF SetToSeqs
<1>8. PICK rows : rows = Sorted(lines)
  OBVIOUS
<1>9. rows = [i \in 1 .. n |-> RowOfVariant(seq[i])]
  BY <1>1, <1>4, <1>7, <1>8 DEF Sorted, Rows
<1>10. rows \in [1 .. n -> VariantRows]
  BY <1>2, <1>7, <1>9 DEF VariantRows
<1>11. rows \in Seq(VariantRows)
  BY <1>10, SeqDef
<1>12. ASSUME NEW i \in 1 .. n, NEW j \in 1 .. n, i < j
       PROVE  Before(rows[i], rows[j])
  <2>1. seq[i] \in Nat /\ seq[j] \in Nat /\ seq[i] < seq[j]
    BY <1>2, <1>5, <1>7, <1>12 DEF Ascending
  <2> QED  BY <1>9, <2>1 DEF Before, RowOfVariant, RowOf
<1>13. DOMAIN rows = 1 .. n
  BY <1>9
<1> QED  BY <1>8, <1>11, <1>12, <1>13

-----------------------------------------------------------------------------
(* What a transaction holds and has still to lock. *)

\* A sale goes on to rows that come after those it holds.
SaleInOrder(r) ==
  /\ todo[r] \in Seq(VariantRows \cup {RowOfDiscount})
  /\ \A i, j \in DOMAIN todo[r] : i < j => Before(todo[r][i], todo[r][j])
  /\ \A h \in held[r], j \in DOMAIN todo[r] : Before(h, todo[r][j])

\* The payment comes before the order.
PaymentFirst(r) ==
  \/ todo[r] = <<>>
  \/ \E o \in LockedOrders : held[r] = {} /\ todo[r] = <<RowOfPayment(o), RowOfOrder(o)>>
  \/ \E o \in LockedOrders : held[r] = {RowOfPayment(o)} /\ todo[r] = <<RowOfOrder(o)>>

WorkInOrder(r) ==
  /\ todo[r] \in Seq(LockableRows)
  /\ held[r] \subseteq LockableRows
  /\ work[r] = "none" => held[r] = {} /\ todo[r] = <<>>
  /\ work[r] = "place" => SaleInOrder(r)
  /\ work[r] \in {"edit", "cancel"} => todo[r] \in Seq(OrderRows \cup VariantRows)
  /\ work[r] = "status" =>
       todo[r] = <<>> \/ \E o \in LockedOrders : held[r] = {} /\ todo[r] = <<RowOfOrder(o)>>
  /\ work[r] = "payment" => PaymentFirst(r)

LocksIInv ==
  /\ work \in [LockRequests -> Works]
  /\ held \in [LockRequests -> SUBSET LockableRows]
  /\ todo \in [LockRequests -> Seq(LockableRows)]
  /\ \A r, s \in LockRequests : r # s => held[r] \cap held[s] = {}
  /\ \A r \in LockRequests : WorkInOrder(r)

LEMMA RowsAreLockable ==
  /\ VariantRows \cup OrderRows \cup {RowOfDiscount} \subseteq LockableRows
  /\ \A o \in LockedOrders : RowOfPayment(o) \in LockableRows /\ RowOfOrder(o) \in LockableRows
BY DEF VariantRows, OrderRows, LockableRows

LEMMA TablesDiffer ==
  /\ \A x \in VariantRows : x.table = "product_variants" /\ x.id \in Nat
  /\ \A x \in OrderRows : x.table = "orders"
  /\ RowOfDiscount.table = "discounts"
  /\ \A o \in LockedOrders : RowOfPayment(o).table = "payments" /\ RowOfOrder(o).table = "orders"
BY LocksAssumption DEF VariantRows, OrderRows, RowOfVariant, RowOfOrder, RowOfPayment, RowOfDiscount, RowOf

\* The rows that are listed, and in which order.
LEMMA WorkBegins ==
  ASSUME LocksIInv, NEW r \in LockRequests, NEW for \in Works \ {"none"}, NEW rows \in Seq(LockableRows),
         Begin(r, for, rows),
         for = "place" =>
           /\ rows \in Seq(VariantRows \cup {RowOfDiscount})
           /\ \A i, j \in DOMAIN rows : i < j => Before(rows[i], rows[j]),
         for \in {"edit", "cancel"} => rows \in Seq(OrderRows \cup VariantRows),
         for = "status" => \E o \in LockedOrders : rows = <<RowOfOrder(o)>>,
         for = "payment" => \E o \in LockedOrders : rows = <<RowOfPayment(o), RowOfOrder(o)>>
  PROVE  LocksIInv'
<1>1. /\ work[r] = "none" /\ held' = held
      /\ work' = [work EXCEPT ![r] = for] /\ todo' = [todo EXCEPT ![r] = rows]
  BY DEF Begin
<1>2. held[r] = {}
  BY <1>1 DEF LocksIInv, WorkInOrder
<1>3. /\ work'[r] = for /\ todo'[r] = rows
      /\ \A s \in LockRequests : s # r => work'[s] = work[s] /\ todo'[s] = todo[s]
  BY <1>1 DEF LocksIInv
<1>4. WorkInOrder(r)'
  BY <1>1, <1>2, <1>3 DEF WorkInOrder, SaleInOrder, PaymentFirst
<1>5. ASSUME NEW s \in LockRequests, s # r
      PROVE  WorkInOrder(s)'
  BY <1>1, <1>3, <1>5 DEF LocksIInv, WorkInOrder, SaleInOrder, PaymentFirst
<1> QED  BY <1>1, <1>4, <1>5 DEF LocksIInv

LEMMA WorkEnds ==
  ASSUME LocksIInv, NEW r \in LockRequests, Release(r)
  PROVE  LocksIInv'
<1>1. /\ work' = [work EXCEPT ![r] = "none"] /\ todo' = [todo EXCEPT ![r] = <<>>]
      /\ held' = [held EXCEPT ![r] = {}]
  BY DEF Release
<1>2. /\ work'[r] = "none" /\ todo'[r] = <<>> /\ held'[r] = {}
      /\ \A s \in LockRequests : s # r => work'[s] = work[s] /\ todo'[s] = todo[s] /\ held'[s] = held[s]
  BY <1>1 DEF LocksIInv
<1>3. <<>> \in Seq(LockableRows)
  OBVIOUS
<1>4. WorkInOrder(r)'
  BY <1>2, <1>3 DEF WorkInOrder
<1>5. ASSUME NEW s \in LockRequests, s # r
      PROVE  WorkInOrder(s)'
  BY <1>2, <1>5 DEF LocksIInv, WorkInOrder, SaleInOrder, PaymentFirst
<1>6. \A p, s \in LockRequests : p # s => held'[p] \cap held'[s] = {}
  BY <1>2 DEF LocksIInv
<1>7. /\ work' \in [LockRequests -> Works] /\ held' \in [LockRequests -> SUBSET LockableRows]
      /\ todo' \in [LockRequests -> Seq(LockableRows)]
  BY <1>1, <1>3 DEF LocksIInv, Works
<1> QED  BY <1>4, <1>5, <1>6, <1>7 DEF LocksIInv

\* The next row is locked, which nobody else holds.
LEMMA LockTaken ==
  ASSUME LocksIInv, NEW r \in LockRequests, TakeLock(r)
  PROVE  LocksIInv'
<1>1. PICK old : old = todo[r]
  OBVIOUS
<1>2. PICK h : h = held[r]
  OBVIOUS
<1>3. PICK row : row = Head(old)
  OBVIOUS
<1>4. /\ old # <<>> /\ work' = work
      /\ \A s \in LockRequests \ {r} : row \notin held[s]
      /\ held' = [held EXCEPT ![r] = h \cup {row}]
      /\ todo' = [todo EXCEPT ![r] = Tail(old)]
  BY <1>1, <1>2, <1>3 DEF TakeLock
<1>5. old \in Seq(LockableRows) /\ h \subseteq LockableRows
  BY <1>1, <1>2 DEF LocksIInv
<1>6. row \in LockableRows /\ Tail(old) \in Seq(LockableRows)
  BY <1>3, <1>4, <1>5
<1>7. /\ held'[r] = h \cup {row} /\ todo'[r] = Tail(old)
      /\ \A s \in LockRequests : s # r => todo'[s] = todo[s] /\ held'[s] = held[s]
  BY <1>4 DEF LocksIInv
<1>8. /\ DOMAIN Tail(old) = 1 .. Len(old) - 1 /\ DOMAIN old = 1 .. Len(old)
      /\ Len(old) \in Nat /\ Len(old) >= 1 /\ row = old[1]
      /\ \A i \in 1 .. Len(old) - 1 : Tail(old)[i] = old[i + 1]
  BY <1>3, <1>4, <1>5
<1>9. WorkInOrder(r)
  BY DEF LocksIInv
<1>10. ASSUME work[r] = "place"
       PROVE  SaleInOrder(r)'
  <2>1. /\ old \in Seq(VariantRows \cup {RowOfDiscount})
        /\ \A i, j \in DOMAIN old : i < j => Before(old[i], old[j])
        /\ \A x \in h, j \in DOMAIN old : Before(x, old[j])
    BY <1>1, <1>2, <1>9, <1>10 DEF WorkInOrder, SaleInOrder
  <2>2. Tail(old) \in Seq(VariantRows \cup {RowOfDiscount})
    BY <1>4, <2>1
  <2>3. ASSUME NEW i \in DOMAIN Tail(old), NEW j \in DOMAIN Tail(old), i < j
        PROVE  Before(Tail(old)[i], Tail(old)[j])
    <3>1. i + 1 \in DOMAIN old /\ j + 1 \in DOMAIN old /\ i + 1 < j + 1
      BY <1>8, <2>3
    <3> QED  BY <1>8, <2>1, <3>1
  <2>4. ASSUME NEW x \in h \cup {row}, NEW j \in DOMAIN Tail(old)
        PROVE  Before(x, Tail(old)[j])
    <3>1. j + 1 \in DOMAIN old /\ 1 \in DOMAIN old /\ 1 < j + 1 /\ Tail(old)[j] = old[j + 1]
      BY <1>8
    <3>2. x = row => Before(x, old[j + 1])
      BY <1>8, <2>1, <3>1
    <3>3. x \in h => Before(x, old[j + 1])
      BY <2>1, <3>1
    <3> QED  BY <3>1, <3>2, <3>3
  <2> QED  BY <1>7, <2>2, <2>3, <2>4 DEF SaleInOrder
<1>11. work[r] \in {"edit", "cancel"} => Tail(old) \in Seq(OrderRows \cup VariantRows)
  BY <1>1, <1>4, <1>9 DEF WorkInOrder
<1>12. ASSUME work[r] = "status"
       PROVE  Tail(old) = <<>>
  <2>1. PICK o \in LockedOrders : old = <<RowOfOrder(o)>>
    BY <1>1, <1>4, <1>9, <1>12 DEF WorkInOrder
  <2> QED  BY <2>1
<1>13. ASSUME work[r] = "payment"
       PROVE  PaymentFirst(r)'
  <2>1. \/ \E o \in LockedOrders : h = {} /\ old = <<RowOfPayment(o), RowOfOrder(o)>>
        \/ \E o \in LockedOrders : old = <<RowOfOrder(o)>>
    BY <1>1, <1>2, <1>4, <1>9, <1>13 DEF WorkInOrder, PaymentFirst
  <2>2. ASSUME NEW o \in LockedOrders, h = {}, old = <<RowOfPayment(o), RowOfOrder(o)>>
        PROVE  PaymentFirst(r)'
    <3>1. row = RowOfPayment(o) /\ Tail(old) = <<RowOfOrder(o)>>
      BY <1>3, <2>2
    <3>2. held'[r] = {RowOfPayment(o)} /\ todo'[r] = <<RowOfOrder(o)>>
      BY <1>7, <2>2, <3>1
    <3> QED  BY <3>2 DEF PaymentFirst
  <2>3. ASSUME NEW o \in LockedOrders, old = <<RowOfOrder(o)>>
        PROVE  PaymentFirst(r)'
    <3>1. todo'[r] = <<>>
      BY <1>7, <2>3
    <3> QED  BY <3>1 DEF PaymentFirst
  <2> QED  BY <2>1, <2>2, <2>3
<1>14. work[r] # "none"
  BY <1>1, <1>4, <1>9 DEF WorkInOrder
<1>15. WorkInOrder(r)'
  BY <1>4, <1>5, <1>6, <1>7, <1>10, <1>11, <1>12, <1>13, <1>14 DEF WorkInOrder
<1>16. ASSUME NEW s \in LockRequests, s # r
       PROVE  WorkInOrder(s)'
  BY <1>4, <1>7, <1>16 DEF LocksIInv, WorkInOrder, SaleInOrder, PaymentFirst
<1>17. \A p, s \in LockRequests : p # s => held'[p] \cap held'[s] = {}
  BY <1>2, <1>4, <1>7 DEF LocksIInv
<1>18. /\ work' \in [LockRequests -> Works] /\ held' \in [LockRequests -> SUBSET LockableRows]
       /\ todo' \in [LockRequests -> Seq(LockableRows)]
  BY <1>4, <1>5, <1>6 DEF LocksIInv
<1> QED  BY <1>15, <1>16, <1>17, <1>18 DEF LocksIInv

\* create and checkout: the variants in order, and then the code.
LEMMA PlacingBegins ==
  ASSUME LocksIInv, NEW r \in LockRequests, NEW lines \in Lines, NEW code \in {<<>>, <<RowOfDiscount>>},
         LockToPlace(r, lines, code)
  PROVE  LocksIInv'
<1>1. PICK sold : sold = Sorted(lines)
  OBVIOUS
<1>2. PICK rows : rows = sold \o code
  OBVIOUS
<1>3. /\ sold \in Seq(VariantRows)
      /\ \A i, j \in DOMAIN sold : i < j => Before(sold[i], sold[j])
  BY <1>1, SortedRows
<1>4. sold \in Seq(VariantRows \cup {RowOfDiscount}) /\ code \in Seq(VariantRows \cup {RowOfDiscount})
  <2>1. Seq(VariantRows) \subseteq Seq(VariantRows \cup {RowOfDiscount})
    BY SeqMonotonic
  <2>2. <<>> \in Seq(VariantRows \cup {RowOfDiscount}) /\ <<RowOfDiscount>> \in Seq(VariantRows \cup {RowOfDiscount})
    OBVIOUS
  <2> QED  BY <1>3, <2>1, <2>2
<1>5. rows \in Seq(VariantRows \cup {RowOfDiscount})
  BY <1>2, <1>4
<1>6. rows \in Seq(LockableRows)
  BY <1>5, RowsAreLockable, SeqMonotonic
<1>7. ASSUME NEW i \in DOMAIN rows, NEW j \in DOMAIN rows, i < j
      PROVE  Before(rows[i], rows[j])
  <2>1. CASE j \in DOMAIN sold
    <3>1. i \in DOMAIN sold /\ rows[i] = sold[i] /\ rows[j] = sold[j]
      BY <1>2, <1>3, <1>4, <1>7, <2>1
    <3> QED  BY <1>3, <1>7, <2>1, <3>1
  <2>2. CASE j \notin DOMAIN sold
    <3>1. code = <<RowOfDiscount>>
      BY <1>2, <1>3, <2>2, <1>7
    <3>2. Len(rows) = Len(sold) + 1 /\ Len(sold) \in Nat /\ DOMAIN sold = 1 .. Len(sold) /\ DOMAIN rows = 1 .. Len(rows)
      BY <1>2, <1>3, <1>5, <3>1
    <3>3. j = Len(sold) + 1 /\ i \in DOMAIN sold
      BY <1>7, <2>2, <3>2
    <3>4. rows[i] = sold[i] /\ rows[j] = RowOfDiscount
      BY <1>2, <1>3, <3>1, <3>2, <3>3
    <3>5. sold[i] \in VariantRows
      BY <1>3, <3>3, ElementOfSeq
    <3> QED  BY <3>4, <3>5, TablesDiffer DEF Before
  <2> QED  BY <2>1, <2>2
<1>8. Begin(r, "place", rows)
  BY <1>1, <1>2 DEF LockToPlace
<1> QED  BY <1>5, <1>6, <1>7, <1>8, WorkBegins DEF Works

\* update and cancel give stock back, in whatever order the lines are.
LEMMA EditBegins ==
  ASSUME LocksIInv, NEW r \in LockRequests, NEW o \in LockedOrders, NEW old \in Lines, NEW new \in Lines,
         LockToEdit(r, o, old, new)
  PROVE  LocksIInv'
<1>1. PICK rows : rows = Rows(old) \o Sorted(new) \o <<RowOfOrder(o)>>
  OBVIOUS
<1>2. /\ Rows(old) \in Seq(OrderRows \cup VariantRows) /\ Sorted(new) \in Seq(OrderRows \cup VariantRows)
      /\ <<RowOfOrder(o)>> \in Seq(OrderRows \cup VariantRows)
  <2>1. RowOfOrder(o) \in OrderRows
    BY DEF OrderRows
  <2>2. Rows(old) \in Seq(VariantRows) /\ Sorted(new) \in Seq(VariantRows)
    BY RowsOfLines, SortedRows
  <2> QED  BY <2>1, <2>2, SeqMonotonic
<1>3. rows \in Seq(OrderRows \cup VariantRows)
  BY <1>1, <1>2
<1>4. rows \in Seq(LockableRows)
  BY <1>3, RowsAreLockable, SeqMonotonic
<1>5. Begin(r, "edit", rows)
  BY <1>1 DEF LockToEdit
<1> QED  BY <1>3, <1>4, <1>5, WorkBegins DEF Works

LEMMA CancelBegins ==
  ASSUME LocksIInv, NEW r \in LockRequests, NEW o \in LockedOrders, NEW old \in Lines,
         LockToCancel(r, o, old)
  PROVE  LocksIInv'
<1>1. PICK rows : rows = <<RowOfOrder(o)>> \o Rows(old)
  OBVIOUS
<1>2. /\ Rows(old) \in Seq(OrderRows \cup VariantRows)
      /\ <<RowOfOrder(o)>> \in Seq(OrderRows \cup VariantRows)
  <2>1. RowOfOrder(o) \in OrderRows
    BY DEF OrderRows
  <2>2. Rows(old) \in Seq(VariantRows)
    BY RowsOfLines
  <2> QED  BY <2>1, <2>2, SeqMonotonic
<1>3. rows \in Seq(OrderRows \cup VariantRows)
  BY <1>1, <1>2
<1>4. rows \in Seq(LockableRows)
  BY <1>3, RowsAreLockable, SeqMonotonic
<1>5. Begin(r, "cancel", rows)
  BY <1>1 DEF LockToCancel
<1> QED  BY <1>3, <1>4, <1>5, WorkBegins DEF Works

\* Settlements, refunds and changes of status.
LEMMA SettlingBegins ==
  ASSUME LocksIInv, NEW r \in LockRequests, NEW o \in LockedOrders, LockToMove(r, o) \/ LockToPay(r, o)
  PROVE  LocksIInv'
<1>1. CASE LockToMove(r, o)
  <2>1. <<RowOfOrder(o)>> \in Seq(LockableRows)
    BY RowsAreLockable
  <2>2. Begin(r, "status", <<RowOfOrder(o)>>)
    BY <1>1 DEF LockToMove
  <2> QED  BY <2>1, <2>2, WorkBegins DEF Works
<1>2. CASE LockToPay(r, o)
  <2>1. PICK rows : rows = <<RowOfPayment(o), RowOfOrder(o)>>
    OBVIOUS
  <2>2. rows \in Seq(LockableRows)
    BY <2>1, RowsAreLockable
  <2>3. Begin(r, "payment", rows)
    BY <1>2, <2>1 DEF LockToPay
  <2>4. "payment" \in Works \ {"none"} /\ \E p \in LockedOrders : rows = <<RowOfPayment(p), RowOfOrder(p)>>
    BY <2>1 DEF Works
  <2> QED  BY <2>2, <2>3, <2>4, WorkBegins
<1> QED  BY <1>1, <1>2

LEMMA LocksSteps == LocksIInv /\ [LocksNext]_lockVars => LocksIInv'
<1> SUFFICES ASSUME LocksIInv, [LocksNext]_lockVars PROVE LocksIInv'
  OBVIOUS
<1>1. CASE UNCHANGED lockVars
  BY <1>1 DEF lockVars, LocksIInv, WorkInOrder, SaleInOrder, PaymentFirst
<1>2. ASSUME NEW r \in LockRequests, NEW lines \in Lines, NEW code \in {<<>>, <<RowOfDiscount>>},
             LockToPlace(r, lines, code)
      PROVE  LocksIInv'
  BY <1>2, PlacingBegins
<1>3. ASSUME NEW r \in LockRequests, NEW o \in LockedOrders,
             \/ \E old, new \in Lines : LockToEdit(r, o, old, new)
             \/ \E old \in Lines : LockToCancel(r, o, old)
             \/ LockToMove(r, o) \/ LockToPay(r, o)
      PROVE  LocksIInv'
  BY <1>3, EditBegins, CancelBegins, SettlingBegins
<1>4. ASSUME NEW r \in LockRequests, TakeLock(r) \/ CommitWork(r) \/ Rollback(r) \/ BreakCircle(r)
      PROVE  LocksIInv'
  BY <1>4, LockTaken, WorkEnds DEF CommitWork, Rollback, BreakCircle
<1> QED  BY <1>1, <1>2, <1>3, <1>4 DEF LocksNext

LEMMA LocksStart == LocksInit => LocksIInv
<1> SUFFICES ASSUME LocksInit PROVE LocksIInv
  OBVIOUS
<1>1. \A r \in LockRequests : work[r] = "none" /\ held[r] = {} /\ todo[r] = <<>>
  BY DEF LocksInit
<1>2. <<>> \in Seq(LockableRows)
  OBVIOUS
<1>3. \A r \in LockRequests : WorkInOrder(r)
  BY <1>1, <1>2 DEF WorkInOrder
<1> QED  BY <1>1, <1>2, <1>3 DEF LocksInit, LocksIInv, Works

-----------------------------------------------------------------------------
\* What a request waits for, and which request can be waiting for it.
Wanted(r) == Head(todo[r])

LEMMA OneWaits ==
  ASSUME LocksIInv, NEW r \in LockRequests, NEW s \in LockRequests, Waits(r, s)
  PROVE  /\ todo[r] # <<>> /\ Wanted(r) \in held[s] /\ work[r] # "none"
         /\ work[r] = "place" =>
              /\ Wanted(r) \in VariantRows \cup {RowOfDiscount}
              /\ \A h \in held[r] : Before(h, Wanted(r))
         /\ work[r] = "status" => held[r] = {}
         /\ work[r] = "payment" => held[r] = {} \/ \E o \in LockedOrders : held[r] = {RowOfPayment(o)}
         /\ Wanted(r).table = "payments" => work[r] = "payment" /\ held[r] = {}
<1>1. PICK rows : rows = todo[r]
  OBVIOUS
<1>2. rows # <<>> /\ Wanted(r) \in held[s] /\ Wanted(r) = Head(rows) /\ rows \in Seq(LockableRows)
  BY <1>1 DEF Waits, Wanted, LocksIInv
<1>3. WorkInOrder(r) /\ work[r] \in Works
  BY DEF LocksIInv
<1>4. Head(rows) = rows[1] /\ 1 \in DOMAIN rows
  BY <1>2
<1>5. work[r] = "place" => /\ Wanted(r) \in VariantRows \cup {RowOfDiscount}
                           /\ \A h \in held[r] : Before(h, Wanted(r))
  <2> SUFFICES ASSUME work[r] = "place"
               PROVE  /\ Wanted(r) \in VariantRows \cup {RowOfDiscount}
                      /\ \A h \in held[r] : Before(h, Wanted(r))
    OBVIOUS
  <2>1. rows \in Seq(VariantRows \cup {RowOfDiscount}) /\ \A h \in held[r], j \in DOMAIN rows : Before(h, rows[j])
    BY <1>1, <1>3 DEF WorkInOrder, SaleInOrder
  <2> QED  BY <1>2, <1>4, <2>1
<1>6. work[r] \in {"edit", "cancel"} => Wanted(r) \in OrderRows \cup VariantRows
  <2> SUFFICES ASSUME work[r] \in {"edit", "cancel"} PROVE Wanted(r) \in OrderRows \cup VariantRows
    OBVIOUS
  <2>1. rows \in Seq(OrderRows \cup VariantRows)
    BY <1>1, <1>3 DEF WorkInOrder
  <2> QED  BY <1>2, <1>4, <2>1
<1>7. work[r] = "status" => held[r] = {} /\ \E o \in LockedOrders : Wanted(r) = RowOfOrder(o)
  BY <1>1, <1>2, <1>3 DEF WorkInOrder
<1>8. work[r] = "payment" =>
        \/ held[r] = {}
        \/ \E o \in LockedOrders : held[r] = {RowOfPayment(o)} /\ Wanted(r) = RowOfOrder(o)
  BY <1>1, <1>2, <1>3 DEF WorkInOrder, PaymentFirst
<1>9. work[r] # "none"
  BY <1>1, <1>2, <1>3 DEF WorkInOrder
<1>10. Wanted(r).table = "payments" => work[r] = "payment" /\ held[r] = {}
  BY <1>3, <1>5, <1>6, <1>7, <1>8, <1>9, TablesDiffer DEF Works
<1> QED  BY <1>1, <1>2, <1>5, <1>7, <1>8, <1>9, <1>10

\* A circle of sales would hold ever smaller ids.
LEMMA NoCircleOfSales ==
  ASSUME LocksIInv, NEW set \in SUBSET LockRequests, Circle(set), \A r \in set : work[r] = "place"
  PROVE  FALSE
<1>1. \A r \in set : \E t \in set : Wanted(t) \in held[r]
  BY OneWaits DEF Circle
<1>2. \A r \in set : /\ Wanted(r) \in VariantRows \cup {RowOfDiscount}
                     /\ \A h \in held[r] : Before(h, Wanted(r))
  BY OneWaits DEF Circle
<1>3. \A r \in set : \E t \in set : Before(Wanted(t), Wanted(r))
  BY <1>1, <1>2
<1> DEFINE Ids == {i \in Nat : \E r \in set : Wanted(r).table = "product_variants" /\ Wanted(r).id = i}
<1>4. Ids # {}
  <2>1. PICK r \in set : TRUE
    BY DEF Circle
  <2>2. PICK t \in set : Before(Wanted(t), Wanted(r))
    BY <1>3
  <2> QED  BY <2>2 DEF Before
<1>5. Ids \subseteq Nat
  OBVIOUS
<1> HIDE DEF Ids
<1>6. PICK i \in Ids : \A j \in Ids : i <= j
  BY <1>4, <1>5, LeastNumber
<1> USE DEF Ids
<1>7. PICK r \in set : Wanted(r).table = "product_variants" /\ Wanted(r).id = i
  OBVIOUS
<1>8. PICK t \in set : Before(Wanted(t), Wanted(r))
  BY <1>3
<1>9. Wanted(t).id \in Ids /\ Wanted(t).id < i
  BY <1>7, <1>8 DEF Before
<1> QED  BY <1>5, <1>6, <1>9

\* Transactions that wait for each other in a circle (persistOrder sorts what it
\* sells, update and cancel do not sort what they give back): one of them gives stock
\* back, and none moves a payment or a status.
THEOREM SalesAlwaysGoOn == LocksSpec => []SalesNeverDeadlock
<1>1. LocksIInv => SalesNeverDeadlock
  <2> SUFFICES ASSUME LocksIInv, NEW set \in SUBSET LockRequests, Circle(set)
               PROVE  /\ \E r \in set : work[r] \in {"edit", "cancel"}
                      /\ \A r \in set : work[r] \notin {"status", "payment"}
    BY DEF SalesNeverDeadlock
  <2>1. \A r \in set : \E s, t \in set : Waits(r, s) /\ Waits(t, r)
    BY DEF Circle
  <2>2. ASSUME NEW r \in set
        PROVE  work[r] \notin {"status", "payment"}
    <3>1. PICK s \in set, t \in set : Waits(r, s) /\ Waits(t, r)
      BY <2>1
    <3>2. PICK p \in set : Waits(p, t)
      BY <2>1
    <3>3. Wanted(t) \in held[r]
      BY <3>1, OneWaits
    <3>4. Wanted(p) \in held[t]
      BY <3>2, OneWaits
    <3>5. work[r] # "status"
      BY <3>1, <3>3, OneWaits
    <3>6. work[r] # "payment"
      <4> SUFFICES ASSUME work[r] = "payment" PROVE FALSE
        OBVIOUS
      <4>1. PICK o \in LockedOrders : held[r] = {RowOfPayment(o)}
        BY <3>1, <3>3, OneWaits
      <4>2. Wanted(t).table = "payments"
        BY <3>3, <4>1, TablesDiffer
      <4> QED  BY <3>1, <3>4, <4>2, OneWaits
    <3> QED  BY <3>5, <3>6
  <2>3. \A r \in set : work[r] \in Works \ {"none"}
    BY <2>1, OneWaits DEF LocksIInv
  <2>4. \E r \in set : work[r] # "place"
    BY NoCircleOfSales
  <2> QED  BY <2>2, <2>3, <2>4 DEF Works
<1> QED  BY LocksStart, LocksSteps, <1>1, PTL DEF LocksSpec

\* No row is locked by two transactions.
THEOREM LocksTypeCorrect == LocksSpec => []LocksTypeOK
<1>1. LocksIInv => LocksTypeOK
  BY DEF LocksIInv, LocksTypeOK, ToSet
<1> QED  BY LocksStart, LocksSteps, <1>1, PTL DEF LocksSpec

===============================================================================
