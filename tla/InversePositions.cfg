SPECIFICATION Spec
CONSTANTS
  Linear = {BTC}
  Inverse = {BTCUSD}
  Sizes = {0, 10}
  DefaultStep = 10
  MaxDisturbances = 0
INVARIANTS ClosesAnyCategory
CHECK_DEADLOCK FALSE
