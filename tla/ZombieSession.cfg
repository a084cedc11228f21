SPECIFICATION LiveSpec
CONSTANTS
  Filters = {f1, f2}
  HasLogger = TRUE
  MaxCalls = 2
  MaxNotices = 1
PROPERTIES
  FailedSessionForgotten
CHECK_DEADLOCK FALSE
