SPECIFICATION LiveSpec
CONSTANTS
  Threads = {t1, t2}
  localLimit = 2
  windowSizeMs = 2
  Buffer = 1
  PrivateCalls = TRUE
  ResetDelays = {0, 2}
  MaxRequests = 5
  MaxClock = 3
INVARIANTS DequeBounded AtMostOneTooMany SleepBounded
PROPERTIES NewestResetRespected EveryRequestEnds
CHECK_DEADLOCK FALSE
