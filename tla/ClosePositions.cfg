SPECIFICATION LiveSpec
CONSTANTS
  Linear = {BTC, ETH}
  Inverse = {}
  Sizes = {0, 4, 16}
  DefaultStep = 10
  MaxDisturbances = 1
INVARIANTS ClosedOrUntouched ReturnMeansClosed RejectedOnlyTooSmall
PROPERTIES EventuallyClosed
CHECK_DEADLOCK FALSE
