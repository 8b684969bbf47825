------------------------------ MODULE ChargeBook ------------------------------
(***************************************************************************)
(* What the payments of an order promise, to Stripe, to the customer and to *)
(* the warehouse, in whatever order requests, events and administrators     *)
(* come: a charge is acknowledged once it is on the books, what is          *)
(* on the books for a reported charge stays there, and the goods are put    *)
(* back once, and only while nothing is paid.                               *)
(***************************************************************************)
EXTENDS Naturals

CONSTANT Ids

VARIABLES
  reported,      \* payments whose charge Stripe has reported
  settled,       \* payments the books show as settled
  acknowledged,  \* reported charges that Stripe need not report again
  restocked      \* times the goods have been put back

bookVars == <<reported, settled, acknowledged, restocked>>

Init == reported = {} /\ settled = {} /\ acknowledged = {} /\ restocked = 0

Report(p) ==
  /\ p \notin reported
  /\ reported' = reported \cup {p}
  /\ UNCHANGED <<settled, acknowledged, restocked>>

\* By the charge, or by an administrator who has the money.
Settle(p) ==
  /\ p \notin settled
  /\ settled' = settled \cup {p}
  /\ UNCHANGED <<reported, acknowledged, restocked>>

\* What an administrator settled may be undone, what was charged may not.
Reopen(p) ==
  /\ p \in settled \ reported
  /\ settled' = settled \ {p}
  /\ UNCHANGED <<reported, acknowledged, restocked>>

Acknowledge(p) ==
  /\ p \in reported \cap settled
  /\ acknowledged' = acknowledged \cup {p}
  /\ UNCHANGED <<reported, settled, restocked>>

Restock ==
  /\ settled = {} /\ restocked = 0
  /\ restocked' = 1
  /\ UNCHANGED <<reported, settled, acknowledged>>

Next == Restock \/ \E p \in Ids : Report(p) \/ Settle(p) \/ Reopen(p) \/ Acknowledge(p)

Spec == Init /\ [][Next]_bookVars

===============================================================================
