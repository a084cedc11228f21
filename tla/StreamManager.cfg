\* One ticker without a logger: deltas, missed deltas and spoilt events, and
\* exceptions that leave io_context::run.
SPECIFICATION LiveSpec
CONSTANTS
  Tickers = {"t"}
  Candlesticks = {}
  Watched = {"t"}
  None = None
  Fields = {"ask", "bid"}
  HasLogger = FALSE
  Unreadable = {"t"}
  Timeouts = {0, 1}
  MaxChanges = 2
INVARIANTS CallbackFindsCaches ReadConsistent NeverStuck
PROPERTIES NeverOlder ReadEnds CacheCatchesUp StopEndsServing
\* A manager that has been destroyed does nothing.
CHECK_DEADLOCK FALSE
