SPECIFICATION Spec
CONSTANTS
  Items = {i1}
  Ordered <- MCOrdered
  AnyItem = i1
  Price <- MCPrice
  Charged = 5
  Quantities = {1, 2}
  Refunds = {r1}
  Requests = {}
  Dashboard = {}
  Sums = {1, 2}
  LatestKnown = TRUE
  None = None
  MaxFaults = 0
CHECK_DEADLOCK FALSE
INVARIANT BooksNeverExceed
