SPECIFICATION LiveSpec
CONSTANTS
  Threads = {1, 2}
  Categories = {"linear", "spot"}
  NumSymbols = 2
  MaxGiven = 1
INVARIANTS AnswersWhole
PROPERTIES CallsReturn
\* Callers need not call.
CHECK_DEADLOCK FALSE
