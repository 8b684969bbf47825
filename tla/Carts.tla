--------------------------------- MODULE Carts ---------------------------------
(***************************************************************************)
(* The cart of one customer (src/src/carts/carts.service.ts) and the       *)
(* checkout that orders and empties it (checkout and persistOrder of       *)
(* src/src/orders/orders.service.ts).                                      *)
(*                                                                         *)
(* The requests come from several tabs or devices of the customer and run  *)
(* side by side.  A request that reads a row and writes it later does so   *)
(* in two steps; what runs in a transaction with the row lock of what it   *)
(* reads is one step.                                                      *)
(***************************************************************************)
EXTENDS Integers, FiniteSets

CONSTANTS
  CartVariants,
  CartRequests,
  MaxQuantity,    \* what one request may ask for
  MaxStock,       \* bound on the stock of a variant
  MaxLines        \* bound on the lines ever created

ASSUME CartAssumption ==
  /\ CartVariants # {}
  /\ MaxQuantity \in Nat \ {0}
  /\ MaxStock \in Nat
  /\ MaxLines \in Nat

VARIABLES
  cartRow,       \* has the customer a row in carts?
  cartLines,     \* its rows in cart_items
  nextLine,      \* id of the next row of cart_items
  shelf,         \* stock and isActive of the variants
  cartRequest,   \* the running requests
  bought,        \* the lines each checkout has ordered
  revived        \* history: ids of lines that were saved after they were gone

cartVars == <<cartRow, cartLines, nextLine, shelf, cartRequest, bought, revived>>

LineIds == 1 .. MaxLines
Line == [id : LineIds, variant : CartVariants, quantity : Nat \ {0}]

\* A request with the line it is about (id 0 when it will be created) and the
\* lines a checkout has read.
CartRow == [op   : {"add", "update", "remove", "clear", "checkout"},
            at   : {"asked", "noCart", "found", "loaded", "resolved"},
            line : [id : 0 .. MaxLines, variant : CartVariants, quantity : Nat],
            read : SUBSET Line]
NoRequest == [at |-> "idle"]
Done      == [at |-> "done"]

InCart(v) == {l \in cartLines : l.variant = v}
WithId(i) == {l \in cartLines : l.id = i}

CartInit ==
  /\ cartRow = FALSE
  /\ cartLines = {}
  /\ nextLine = 1
  /\ shelf = [v \in CartVariants |-> [stock |-> MaxStock, active |-> TRUE]]
  /\ cartRequest = [r \in CartRequests |-> NoRequest]
  /\ bought = [r \in CartRequests |-> {}]
  /\ revived = {}

SetCart(r, state) == cartRequest' = [cartRequest EXCEPT ![r] = state]
Reaches(r, place) == SetCart(r, [cartRequest[r] EXCEPT !.at = place])
At(r, op, place)  == cartRequest[r].at = place /\ cartRequest[r].op = op

-----------------------------------------------------------------------------
(* A request arrives.  Only addItem checks anything before it looks for the  *)
(* cart; a customer updates and removes lines that the cart once showed.     *)

Ask(r, op, line) ==
  /\ cartRequest[r].at = "idle"
  /\ SetCart(r, [op |-> op, at |-> "asked", line |-> line, read |-> {}])
  /\ UNCHANGED <<cartRow, cartLines, nextLine, shelf, bought, revived>>

NoLine == [id |-> 0, variant |-> CHOOSE v \in CartVariants : TRUE, quantity |-> 0]

AskAdd(r, v, n) ==
  /\ shelf[v].active
  /\ n <= shelf[v].stock
  /\ Ask(r, "add", [id |-> 0, variant |-> v, quantity |-> n])

AskUpdate(r, l, n) == Ask(r, "update", [l EXCEPT !.quantity = n])

\* getCart.  A checkout takes the lines with the cart and ends when there are none.
FindCart(r) ==
  /\ cartRequest[r].at = "asked"
  /\ IF ~cartRow THEN Reaches(r, "noCart")
     ELSE IF cartRequest[r].op = "checkout"
     THEN IF cartLines = {} THEN SetCart(r, Done)
          ELSE SetCart(r, [cartRequest[r] EXCEPT !.at = "found", !.read = cartLines])
     ELSE Reaches(r, "found")
  /\ UNCHANGED <<cartRow, cartLines, nextLine, shelf, bought, revived>>

\* A second insert of the cart fails on the unique user_id; a new cart has no
\* line to update, remove or order.
CreateCart(r) ==
  /\ cartRequest[r].at = "noCart"
  /\ cartRow' = TRUE
  /\ IF cartRow \/ cartRequest[r].op \in {"update", "remove", "checkout"}
     THEN SetCart(r, Done) ELSE Reaches(r, "found")
  /\ UNCHANGED <<cartLines, nextLine, shelf, bought, revived>>

-----------------------------------------------------------------------------
(* addItem: upsert and re-check, in one transaction.                         *)

Merged(r) ==
  LET line == cartRequest[r].line  old == CHOOSE l \in cartLines : l.variant = line.variant IN
  IF InCart(line.variant) = {} THEN [line EXCEPT !.id = nextLine]
  ELSE [old EXCEPT !.quantity = @ + line.quantity]

\* A wrong form: the line is inserted beside the one that is there.
AddSecondLine(r) ==
  LET v == cartRequest[r].line.variant IN
  /\ At(r, "add", "found") /\ (InCart(v) # {} \/ nextLine <= MaxLines)
  /\ cartRequest[r].line.quantity <= shelf[v].stock
  /\ cartLines' = cartLines \cup {[cartRequest[r].line EXCEPT !.id = nextLine]}
  /\ nextLine' = nextLine + 1
  /\ SetCart(r, Done)
  /\ UNCHANGED <<cartRow, shelf, bought, revived>>

AddLine(r) ==
  LET v == cartRequest[r].line.variant IN
  /\ At(r, "add", "found") /\ (InCart(v) # {} \/ nextLine <= MaxLines)
  /\ Merged(r).quantity <= shelf[v].stock
  /\ cartLines' = (cartLines \ InCart(v)) \cup {Merged(r)}
  /\ nextLine' = IF InCart(v) = {} THEN nextLine + 1 ELSE nextLine
  /\ SetCart(r, Done)
  /\ UNCHANGED <<cartRow, shelf, bought, revived>>

RefuseAdd(r) ==
  /\ At(r, "add", "found")
  /\ Merged(r).quantity > shelf[cartRequest[r].line.variant].stock
  /\ SetCart(r, Done)
  /\ UNCHANGED <<cartRow, cartLines, nextLine, shelf, bought, revived>>

-----------------------------------------------------------------------------
(* updateItem and removeItem: read the line, check, then save or remove it.  *)

FindLine(r) ==
  LET line == cartRequest[r].line IN
  /\ At(r, "update", "found") \/ At(r, "remove", "found")
  /\ IF /\ WithId(line.id) # {}
        /\ cartRequest[r].op = "update" => line.quantity <= shelf[line.variant].stock
     THEN Reaches(r, "loaded") ELSE SetCart(r, Done)
  /\ UNCHANGED <<cartRow, cartLines, nextLine, shelf, bought, revived>>

\* save() updates the row, or inserts it again when it is gone; the insert fails
\* on (cart_id, variant_id) when the variant has got a new line meanwhile.
SaveLine(r) ==
  LET line == cartRequest[r].line  gone == WithId(line.id) = {} IN
  /\ At(r, "update", "loaded")
  /\ IF gone /\ InCart(line.variant) # {}
     THEN UNCHANGED <<cartLines, revived>>
     ELSE /\ cartLines' = (cartLines \ WithId(line.id)) \cup {line}
          /\ revived' = IF gone THEN revived \cup {line.id} ELSE revived
  /\ SetCart(r, Done)
  /\ UNCHANGED <<cartRow, nextLine, shelf, bought>>

RemoveLine(r) ==
  /\ At(r, "remove", "loaded")
  /\ cartLines' = cartLines \ WithId(cartRequest[r].line.id)
  /\ SetCart(r, Done)
  /\ UNCHANGED <<cartRow, nextLine, shelf, bought, revived>>

ClearCart(r) ==
  /\ At(r, "clear", "found")
  /\ cartLines' = {}
  /\ SetCart(r, Done)
  /\ UNCHANGED <<cartRow, nextLine, shelf, bought, revived>>

-----------------------------------------------------------------------------
(* checkout: the cart has been read; the variants are resolved without a     *)
(* lock; one transaction takes the stock, writes the order, empties the cart.*)

ResolveCart(r) ==
  /\ At(r, "checkout", "found")
  /\ IF \A l \in cartRequest[r].read : shelf[l.variant].active
     THEN Reaches(r, "resolved") ELSE SetCart(r, Done)
  /\ UNCHANGED <<cartRow, cartLines, nextLine, shelf, bought, revived>>

CanBuy(lines) ==
  \A l \in lines : shelf[l.variant].active /\ l.quantity <= shelf[l.variant].stock

\* The stock after the lines have been sold.
Without(lines) ==
  [v \in CartVariants |->
     IF \A l \in lines : l.variant # v THEN shelf[v]
     ELSE [shelf[v] EXCEPT !.stock = @ - (CHOOSE l \in lines : l.variant = v).quantity]]

\* A wrong form: the order is placed and the cart keeps its lines.
OrderCartAndKeepIt(r) ==
  /\ At(r, "checkout", "resolved")
  /\ CanBuy(cartRequest[r].read)
  /\ shelf' = Without(cartRequest[r].read)
  /\ bought' = [bought EXCEPT ![r] = cartRequest[r].read]
  /\ SetCart(r, Done)
  /\ UNCHANGED <<cartRow, cartLines, nextLine, revived>>

OrderCart(r) ==
  /\ At(r, "checkout", "resolved")
  /\ CanBuy(cartRequest[r].read)
  /\ shelf' = Without(cartRequest[r].read)
  /\ bought' = [bought EXCEPT ![r] = cartRequest[r].read]
  /\ cartLines' = {}
  /\ SetCart(r, Done)
  /\ UNCHANGED <<cartRow, nextLine, revived>>

RefuseCart(r) ==
  /\ At(r, "checkout", "resolved")
  /\ ~CanBuy(cartRequest[r].read)
  /\ SetCart(r, Done)
  /\ UNCHANGED <<cartRow, cartLines, nextLine, shelf, bought, revived>>

\* Other customers buy and give back, the administrator switches a variant.
StockChanges(v, stock) ==
  /\ stock # shelf[v].stock
  /\ shelf' = [shelf EXCEPT ![v].stock = stock]
  /\ UNCHANGED <<cartRow, cartLines, nextLine, cartRequest, bought, revived>>

SwitchVariant(v) ==
  /\ shelf' = [shelf EXCEPT ![v].active = ~@]
  /\ UNCHANGED <<cartRow, cartLines, nextLine, cartRequest, bought, revived>>

-----------------------------------------------------------------------------
CustomerAsks(r) ==
  \/ \E v \in CartVariants, n \in 1 .. MaxQuantity : AskAdd(r, v, n)
  \/ \E l \in cartLines, n \in 1 .. MaxQuantity : AskUpdate(r, l, n)
  \/ \E l \in cartLines : Ask(r, "remove", l)
  \/ Ask(r, "clear", NoLine)
  \/ Ask(r, "checkout", NoLine)

CartStep(r) ==
  \/ FindCart(r) \/ CreateCart(r)
  \/ AddLine(r) \/ RefuseAdd(r)
  \/ FindLine(r) \/ SaveLine(r) \/ RemoveLine(r)
  \/ ClearCart(r)
  \/ ResolveCart(r) \/ OrderCart(r) \/ RefuseCart(r)

CartNext ==
  \/ \E r \in CartRequests : CustomerAsks(r) \/ CartStep(r)
  \/ \E v \in CartVariants :
       SwitchVariant(v) \/ \E stock \in 0 .. MaxStock : StockChanges(v, stock)

CartSpec == CartInit /\ [][CartNext]_cartVars

-----------------------------------------------------------------------------
\* One line per variant however many requests add it, never a line without a
\* cart, and no checkout that takes stock below zero.
CartTypeOK ==
  /\ cartRow \in BOOLEAN
  /\ cartLines \subseteq Line
  /\ \A l, m \in cartLines : l.id = m.id \/ l.variant = m.variant => l = m
  /\ cartLines # {} => cartRow
  /\ nextLine \in 1 .. MaxLines + 1
  /\ shelf \in [CartVariants -> [stock : Nat, active : BOOLEAN]]
  /\ cartRequest \in [CartRequests -> CartRow \cup {NoRequest, Done}]
  /\ bought \in [CartRequests -> SUBSET Line]
  /\ revived \subseteq LineIds

\* What has been ordered has left the cart, so that a checkout that reads the
\* cart afterwards cannot order it again; only an update that had read the line
\* before brings it back.
BoughtLeavesCart ==
  \A r \in CartRequests : \A l \in bought[r] : WithId(l.id) # {} => l.id \in revived

================================================================================
