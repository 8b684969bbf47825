-------------------------------- MODULE MCShop --------------------------------
(* Small instances of the modules around the payments: orders against stock   *)
(* and the locks they take, the arithmetic of prices, the cart and the         *)
(* accounts.  They share no state, so one run explores each of them by itself: *)
(* `part` names the one that moves, and the others keep their initial state.   *)
EXTENDS OrderStock, RowLocks, Proration, Carts, Identities, TLC

CONSTANTS cup, mug

MCSupply == cup :> 2 @@ mug :> 1
MCPrice  == cup :> 1 @@ mug :> 2

VARIABLE part

saleVars  == <<vars, lockVars, prorationVars>>
storeVars == <<cartVars, authVars>>
shopVars  == <<saleVars, storeVars, part>>

Parts == {"orders", "locks", "prices", "carts", "accounts"}

\* A deal to keep while another part moves.
SomeDeal == CHOOSE d \in Deal : TRUE

MCInit ==
  /\ part \in Parts
  /\ Init /\ LocksInit /\ CartInit /\ AuthInit
  /\ ProrationInit /\ (part # "prices" => deal = SomeDeal)

Sales ==
  \/ part = "orders" /\ Next          /\ UNCHANGED <<lockVars, prorationVars>>
  \/ part = "locks"  /\ LocksNext     /\ UNCHANGED <<vars, prorationVars>>
  \/ part = "prices" /\ ProrationNext /\ UNCHANGED <<vars, lockVars>>

Store ==
  \/ part = "carts"    /\ CartNext /\ UNCHANGED authVars
  \/ part = "accounts" /\ AuthNext /\ UNCHANGED cartVars

MCNext ==
  \/ Sales /\ UNCHANGED <<storeVars, part>>
  \/ Store /\ UNCHANGED <<saleVars, part>>

MCSpec == MCInit /\ [][MCNext]_shopVars

\* The rows of every part are well formed; moreover no piece is sold that is not
\* there and no code is used beyond its limit, no row is locked twice, there is one
\* line per variant however many requests add it, and nothing is written to an
\* account that does not exist.
PartsTypeOK ==
  CASE part = "orders"   -> TypeOK
    [] part = "locks"    -> LocksTypeOK
    [] part = "carts"    -> CartTypeOK
    [] part = "accounts" -> AuthTypeOK
    [] OTHER             -> TRUE

\* The requests of an account and the orders go by the same two names, and within
\* each part the two are interchangeable.
MCSymmetry == Permutations(AuthRequests)

===============================================================================
