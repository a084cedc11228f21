\* A range of one instant, at which there is a rate.
SPECIFICATION Spec
CONSTANTS
  Rates = {1, 3, 6}
  Starts = {1, 3}
  Ends = {3, 6}
  Limits = {1}
INVARIANTS Complete
CHECK_DEADLOCK FALSE
