SPECIFICATION LiveSpec
CONSTANTS
  Resolutions = {1, 7, 1440, 40320}
  NumCandles = 8
  Months = {0, 44640, 84960, 129600, 172800, 217440}
  Limits = {2, 3}
  Froms = {0, 1, 2, 1440, 44640}
  Tos = {3, 4, 6, 4320, 7000, 10080, 100000, 129600, 220000}
INVARIANTS WriterHasPrefix
PROPERTIES ImplementsDelivery PagesMoveOn Ends
CHECK_DEADLOCK FALSE
