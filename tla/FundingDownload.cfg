\* No range is a single instant; ends lie on rates, next to them and between.
SPECIFICATION LiveSpec
CONSTANTS
  Rates = {1, 3, 6, 8, 10, 13, 15}
  Starts = {0, 1, 2, 6, 9}
  Ends = {3, 5, 8, 13, 16}
  Limits = {1, 2, 3}
PROPERTIES ImplementsDelivery PagesMoveOn Terminates
CHECK_DEADLOCK FALSE
