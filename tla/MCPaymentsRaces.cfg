SPECIFICATION FairSpec
CONSTANTS
  Ids = {p1}
  Requests = {r1}
  Handlers = {h1, h2}
  None = None
  MaxFaults = 1
CHECK_DEADLOCK FALSE
INVARIANTS
  HistoryIsChain
  ChargesAreBooked
PROPERTIES
  FulfilmentNeverMovesBack
  ChargeEventuallySettled
  EveryEventIsAnswered
