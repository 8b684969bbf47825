SPECIFICATION Spec
CONSTANTS
  Items = {i1}
  Ordered <- MCOrdered
  AnyItem = i1
  Price <- MCPrice
  Charged = 5
  Quantities = {1, 2}
  Refunds = {r1, r2}
  Requests = {q1}
  Dashboard = {}
  Sums = {1, 2}
  LatestKnown = TRUE
  None = None
  MaxFaults = 1
CHECK_DEADLOCK FALSE
INVARIANT LostAnswerRefundedOnce
