SPECIFICATION Spec
CONSTANTS
  Items = {i1, i2}
  AnyItem = i1
  Ordered <- MCOrdered
  Price <- MCPrice
  Charged = 10
  Quantities = {1, 2}
  Refunds = {r1, r2}
  Requests = {}
  Dashboard = {d1, d2}
  Sums = {2}
  LatestKnown = FALSE
  None = None
  MaxFaults = 1
SYMMETRY Symmetry
CHECK_DEADLOCK FALSE
INVARIANTS
  NeverRefundedTwice
  OrderFollowsPayment
  RefundsAreBooked
  EventsReconcile
PROPERTIES
  OnlySettlingOverbooks
