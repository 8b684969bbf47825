SPECIFICATION Spec
CONSTANTS
  Items = {i1}
  AnyItem = i1
  Ordered <- MCOrdered
  Price <- MCPrice
  Charged = 3
  Quantities = {1, 2}
  Refunds = {r1, r2}
  Requests = {q1, q2}
  Dashboard = {}
  Sums = {1, 2}
  LatestKnown = TRUE
  None = None
  MaxFaults = 1
SYMMETRY Symmetry
CHECK_DEADLOCK FALSE
INVARIANTS
  TypeOK
  ApprovalOwnsRefund
  FaultlessCallsAgree
PROPERTIES
  RejectedIsFinal
  ImplementsPieces
  ImplementsMoney
