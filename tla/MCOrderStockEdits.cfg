SPECIFICATION Spec
CONSTANTS
  v = v
  w = w
  Variants = {v, w}
  Orders = {o1, o2}
  Edits = {e1}
  Quantities = {1}
  Supply <- MCSupply
  Price <- MCPrice
  UsageLimit = 1
  MinOrderValue = 2
  Managed = {}
INVARIANTS StockBalanced
CHECK_DEADLOCK FALSE
