----------------------------- MODULE RefundLedger -----------------------------
(***************************************************************************)
(* What refunds promise about one limited quantity - the pieces of an order *)
(* item, or the money of a payment: a refund reserves a part of it before   *)
(* anything moves, then either keeps it or gives it back, once.             *)
(***************************************************************************)
EXTENDS Naturals, Functions

CONSTANTS
  Entries,
  Capacity,
  Quantities   \* the quantities that can be asked for

VARIABLE entry   \* [Entries -> [state, qty]]

Open == {"PENDING", "SUCCEEDED"}

Taken == SumFunctionOnSet([e \in Entries |-> entry[e].qty],
                          {e \in Entries : entry[e].state \in Open})

Init == \A e \in Entries : entry[e].state = "NONE"

Reserve(e, n) ==
  /\ entry[e].state = "NONE"
  /\ n > 0 => n + Taken <= Capacity
  /\ entry' = [entry EXCEPT ![e] = [state |-> "PENDING", qty |-> n]]

Settle(e) ==
  /\ entry[e].state = "PENDING"
  /\ entry' = [entry EXCEPT ![e] = [state |-> "SUCCEEDED", qty |-> entry[e].qty]]

Release(e) ==
  /\ entry[e].state = "PENDING"
  /\ entry' = [entry EXCEPT ![e] = [state |-> "FAILED", qty |-> entry[e].qty]]

Next == \E e \in Entries : (\E n \in Quantities : Reserve(e, n)) \/ Settle(e) \/ Release(e)

Spec == Init /\ [][Next]_entry

\* What the ledger is kept for.
NeverOverdrawn == Taken <= Capacity

===============================================================================
