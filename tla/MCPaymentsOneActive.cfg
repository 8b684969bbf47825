SPECIFICATION Spec
CONSTANTS
  Ids = {p1, p2}
  Requests = {r1}
  Handlers = {h1}
  None = None
  MaxFaults = 0
CHECK_DEADLOCK FALSE
INVARIANT OneActivePayment
