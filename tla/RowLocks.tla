------------------------------- MODULE RowLocks --------------------------------
(***************************************************************************)
(* The order in which transactions lock the rows of payments, orders,      *)
(* variants and discounts (src/src/orders/orders.service.ts,               *)
(* src/src/payments/payments.service.ts).                                  *)
(*                                                                         *)
(* A transaction is the sequence of the rows it locks; what it does with   *)
(* them is in the other modules, which take it for one step.  Every lock   *)
(* is exclusive and held to the end, and the payment of an order goes by   *)
(* the name of the order.                                                  *)
(***************************************************************************)
EXTENDS Naturals, Sequences, SequencesExt, FiniteSets

CONSTANTS
  LockedVariants,   \* ids of variants, as numbers that sort like them
  LockedOrders,
  LockRequests

ASSUME LocksAssumption ==
  /\ LockedVariants \subseteq Nat
  /\ IsFiniteSet(LockedVariants)

VARIABLES
  work,   \* what the transaction of each request is for
  held,   \* the rows it has locked
  todo    \* the rows it has still to lock

lockVars == <<work, held, todo>>

RowOf(table, id) == [table |-> table, id |-> id]
RowOfPayment(o)   == RowOf("payments", o)
RowOfOrder(o)     == RowOf("orders", o)
RowOfVariant(v)   == RowOf("product_variants", v)
RowOfDiscount     == RowOf("discounts", 0)
LockableRows == {RowOfPayment(o) : o \in LockedOrders} \cup {RowOfOrder(o) : o \in LockedOrders}
                  \cup {RowOfVariant(v) : v \in LockedVariants} \cup {RowOfDiscount}

Works == {"none", "place", "edit", "cancel", "status", "payment"}

LocksTypeOK ==
  /\ work \in [LockRequests -> Works]
  /\ \A r \in LockRequests : held[r] \subseteq LockableRows /\ ToSet(todo[r]) \subseteq LockableRows
  \* no row is locked twice
  /\ \A r, s \in LockRequests : r # s => held[r] \cap held[s] = {}

LocksInit ==
  /\ work = [r \in LockRequests |-> "none"]
  /\ held = [r \in LockRequests |-> {}]
  /\ todo = [r \in LockRequests |-> <<>>]

-----------------------------------------------------------------------------
Rows(variants) == [i \in DOMAIN variants |-> RowOfVariant(variants[i])]

\* The lines of an order as the database returns them: in any order.
Lines == SetToAllKPermutations(LockedVariants) \ {<<>>}

\* A wrong form: the variants are taken as the request lists them.
AsListed(lines) == Rows(lines)

\* Placing and editing sort the lines they sell by the id of the variant.
Ascending(seq) == \A i, j \in DOMAIN seq : i < j => seq[i] < seq[j]
Sorted(lines) == Rows(CHOOSE seq \in SetToSeqs(ToSet(lines)) : Ascending(seq))

Begin(r, for, rows) ==
  /\ work[r] = "none"
  /\ work' = [work EXCEPT ![r] = for]
  /\ todo' = [todo EXCEPT ![r] = rows]
  /\ UNCHANGED held

\* create and checkout; the new order is a row that nobody else can see.
LockToPlace(r, lines, code) == Begin(r, "place", Sorted(lines) \o code)

\* update gives back the old lines before it takes the new ones, and writes the
\* order last.
LockToEdit(r, o, old, new) == Begin(r, "edit", Rows(old) \o Sorted(new) \o <<RowOfOrder(o)>>)

\* cancel, and updateStatus to CANCELLED: the order first.
LockToCancel(r, o, old) == Begin(r, "cancel", <<RowOfOrder(o)>> \o Rows(old))

\* updateStatus and applyStatusChange to another status, and the payment that
\* create inserts for an order it has locked.
LockToMove(r, o) == Begin(r, "status", <<RowOfOrder(o)>>)

\* What settles, fails or refunds a payment, or reserves what is to be refunded:
\* the payment, and then its order.
LockToPay(r, o) == Begin(r, "payment", <<RowOfPayment(o), RowOfOrder(o)>>)

\* A row that the transaction has locked already is not locked again.
TakeLock(r) ==
  LET row == Head(todo[r]) IN
  /\ todo[r] # <<>>
  /\ \A s \in LockRequests \ {r} : row \notin held[s]
  /\ held' = [held EXCEPT ![r] = @ \cup {row}]
  /\ todo' = [todo EXCEPT ![r] = Tail(@)]
  /\ UNCHANGED work

Release(r) ==
  /\ work' = [work EXCEPT ![r] = "none"]
  /\ held' = [held EXCEPT ![r] = {}]
  /\ todo' = [todo EXCEPT ![r] = <<>>]

CommitWork(r) == work[r] # "none" /\ todo[r] = <<>> /\ Release(r)

\* The stock, the code or a status refuses it, or the process dies.
Rollback(r) == work[r] # "none" /\ Release(r)

-----------------------------------------------------------------------------
Waits(r, s) == r # s /\ todo[r] # <<>> /\ Head(todo[r]) \in held[s]

\* Requests each of which waits for another of them, and is waited for.
Circle(set) == set # {} /\ \A r \in set : \E s, t \in set : Waits(r, s) /\ Waits(t, r)

\* PostgreSQL finds the circle and makes one of the transactions in it fail.
BreakCircle(r) == (\E set \in SUBSET LockRequests : r \in set /\ Circle(set)) /\ Release(r)

LocksNext == \E r \in LockRequests :
  \/ \E lines \in Lines, code \in {<<>>, <<RowOfDiscount>>} : LockToPlace(r, lines, code)
  \/ \E o \in LockedOrders :
       \/ \E old, new \in Lines : LockToEdit(r, o, old, new)
       \/ \E old \in Lines : LockToCancel(r, o, old)
       \/ LockToMove(r, o) \/ LockToPay(r, o)
  \/ TakeLock(r) \/ CommitWork(r) \/ Rollback(r) \/ BreakCircle(r)

LocksSpec == LocksInit /\ [][LocksNext]_lockVars

-----------------------------------------------------------------------------
\* Orders that share variants never deadlock while they are placed: in a circle of
\* transactions somebody gives stock back, by an edit or a cancellation.  And a
\* transaction that moves a payment or a status is in no circle: what Stripe has
\* reported is never the victim of one.
SalesNeverDeadlock ==
  \A set \in SUBSET LockRequests : Circle(set) =>
    /\ \E r \in set : work[r] \in {"edit", "cancel"}
    /\ \A r \in set : work[r] \notin {"status", "payment"}

===============================================================================
