------------------------------ MODULE MCRefunds ------------------------------
(***************************************************************************)
(* Refunds of items of which two pieces at 3 were ordered.  Sold at 5 for    *)
(* both, one piece is worth 2 (2.4999...), and 1 remains after the second;  *)
(* sold at 3, one piece is worth 2 (1.5), and the second exceeds the        *)
(* balance.                                                                 *)
(***************************************************************************)
EXTENDS Refunds, TLC

MCOrdered == [i \in Items |-> 2]
MCPrice   == [i \in Items |-> 3]

Symmetry == Permutations(Refunds) \cup Permutations(Requests)

==============================================================================
