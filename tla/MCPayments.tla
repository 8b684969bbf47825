------------------------------ MODULE MCPayments ------------------------------
(***************************************************************************)
(* Payments on small instances.  Payment rows, requests and handlers are    *)
(* interchangeable, so safety is checked up to their permutations.          *)
(***************************************************************************)
EXTENDS Payments, TLC

Symmetry == Permutations(Ids) \cup Permutations(Requests) \cup Permutations(Handlers)

===============================================================================
