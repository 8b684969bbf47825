---------------------------- MODULE MCOrderStock ----------------------------
(* Small instances of OrderStock: two variants, one of them cheap and common. *)
EXTENDS OrderStock, TLC

CONSTANTS v, w

MCSupply == v :> 2 @@ w :> 1
MCPrice  == v :> 1 @@ w :> 2

=============================================================================
