SPECIFICATION Spec
CONSTANTS
  Filters = {f1, f2}
  HasLogger = TRUE
  MaxCalls = 2
  MaxNotices = 1
PROPERTIES
  QuitOnlyWhenUnwanted
CHECK_DEADLOCK FALSE
