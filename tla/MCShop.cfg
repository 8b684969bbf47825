SPECIFICATION MCSpec
CONSTANTS
  cup = cup
  mug = mug
  Variants = {cup, mug}
  Orders = {r1, r2}
  Edits = {e1}
  Quantities = {1}
  Supply <- MCSupply
  Price <- MCPrice
  UsageLimit = 1
  MinOrderValue = 2
  Managed = {cup}
  CartVariants = {cup, mug}
  CartRequests = {r1, r2, r3}
  MaxQuantity = 1
  MaxStock = 2
  MaxLines = 3
  Passwords = {p1, p2}
  AuthRequests = {r1, r2}
  MaxTokens = 3
  Prices = {1, 3, 50}
  Amounts = {1, 2}
  DiscountTypes = {"PERCENT", "FIXED"}
  Values = {0, 33, 50}
  Shipping = {0, 7}
  LockedVariants = {1, 2}
  LockedOrders = {o1}
  LockRequests = {r1, r2, r3}
SYMMETRY MCSymmetry
CHECK_DEADLOCK FALSE
INVARIANTS
  PartsTypeOK
  SalesNeverDeadlock
  BoughtLeavesCart
  RedeemedTokenIsGone
  AmountsAgree
PROPERTIES
  CountersFollowOrders
  RulesHoldAtCommit
  AccountKept
