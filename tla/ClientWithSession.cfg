\* A client that set its logger; two filters, and in each session the request
\* it is made for and two more.
SPECIFICATION LiveSystem
CONSTANTS
  Filters = {f1, f2}
  HasLogger = TRUE
  MaxCalls = 2
  MaxNotices = 1
INVARIANTS
  TypeOK
  FirstFrameNotEmpty
  AnswersAccounted
  SingleChain
  NoSecondClose
  ReadChainAlive
  NoRequestLost
  HandlerOverWhenGone
PROPERTIES
  ImplementsContract
  FirstRequestSent
  RequestsSent
\* A client that has been destroyed does nothing.
CHECK_DEADLOCK FALSE
