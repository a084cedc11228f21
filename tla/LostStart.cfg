\* No handler throws: two threads and a session that comes and goes.
SPECIFICATION LiveSpec
CONSTANT HandlersThrow = FALSE
PROPERTIES SessionReached
\* A client that has been destroyed does nothing.
CHECK_DEADLOCK FALSE
