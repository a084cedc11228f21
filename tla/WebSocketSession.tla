--------------------------- MODULE WebSocketSession ---------------------------
(***************************************************************************)
(* One WebSocketSession (src/src/bybit_ws_session.cpp) between a caller's  *)
(* threads, the io thread of WebSocketClient and the exchange.             *)
(*                                                                         *)
(* The io thread runs one completion handler at a time; a handler is one   *)
(* action, except that onRead gives up subscriptionLocker twice on its way *)
(* and is cut there (ioStep), because subscribe() of another thread can    *)
(* come in between.  The session lives as long as a handler that captured  *)
(* `self` is outstanding.  Boost.Beast, the timer and the exchange are     *)
(* external and modelled by what the code relies on.                       *)
(***************************************************************************)
EXTENDS Naturals, Sequences

CONSTANTS
  Filters,       \* subscription filters the callers use
  HasLogger,     \* was setLoggerCallback called before the session was made?
  MaxCalls,      \* bound: calls of subscribe() after run()
  MaxNotices     \* bound: unread messages at which the exchange stops pushing

ASSUME ConstantsAssumption ==
  /\ Filters # {}
  /\ HasLogger \in BOOLEAN
  /\ MaxCalls \in Nat
  /\ MaxNotices \in Nat

VARIABLES
  subscriptions,         \* vector<string> as a bag: copies of each filter
  subscriptionRequests,  \* list<string>: one filter per queued request
  pending,               \* operations started whose handler has not run yet
  pingTimer,             \* the wait on pingTimer, if any
  status,                \* the WebSocket stream: init, open, closing, closed
  ioStep,                \* where the io thread is inside onRead, or idle
  connected,             \* is the TCP connection up (known to nobody here)
  requested,             \* subscribe frames the exchange has not answered
  refusals,              \* unread refusals that carry the request
  notices,               \* unread messages of every other kind
  streams,               \* filters the exchange publishes to this session
  asked, refused,        \* history: filters asked for, filters refused
  calls                  \* calls of subscribe() so far (bound)

sessionVars == <<subscriptions, subscriptionRequests>>
streamVars  == <<pending, status>>
networkVars == <<connected, requested, refusals, notices, streams>>
historyVars == <<asked, refused, calls>>
vars == <<sessionVars, streamVars, pingTimer, ioStep, networkVars, historyVars>>

(* Operations of the connection's single chain, in the order they follow each *)
(* other; their handlers capture self.  "run" is the caller still inside run. *)
ChainOps == {"run", "resolve", "connect", "ssl", "handshake", "write", "read"}

(* Handlers of "close" and "ping" capture only `this`. *)
LooseOps == {"close", "ping"}

(* Some handler that captured self is outstanding: weak_ptr::lock succeeds. *)
Alive == \/ pending \intersect ChainOps # {}
         \/ pingTimer # "idle"
         \/ ioStep # "idle"

isSubscribed(f) == subscriptions[f] > 0

Queued(f) == \E i \in 1..Len(subscriptionRequests) : subscriptionRequests[i] = f

Swap(done, next) == (pending \ {done}) \union next

(* pingTimer.cancel() reaches a wait that has not expired; a handler already *)
(* queued by the expiry still runs with success.                             *)
CancelTimer(t) == IF t = "waiting" THEN "aborted" ELSE t

Empty == [f \in Filters |-> 0]

Blank == /\ subscriptions = Empty /\ subscriptionRequests = <<>>
         /\ pingTimer = "idle" /\ status = "init" /\ ioStep = "idle"
         /\ connected = FALSE /\ streams = {}
         /\ requested = Empty /\ refusals = Empty /\ notices = 0
         /\ asked = {} /\ refused = {} /\ calls = 0

Init == Blank /\ pending = {"run"}

-------------------------------------------------------------------------------
(* The caller's side. *)

(* writeSubscription looks for the filter among subscriptions, not among the *)
(* requests still queued.                                                    *)
writeSubscription(f) ==
  /\ subscriptionRequests' = IF isSubscribed(f) THEN subscriptionRequests
                             ELSE Append(subscriptionRequests, f)
  /\ asked' = asked \union {f}
  /\ UNCHANGED <<subscriptions, refused>>

run(f) ==
  /\ "run" \in pending
  /\ writeSubscription(f)
  /\ pending' = Swap("run", {"resolve"})
  /\ UNCHANGED <<status, pingTimer, ioStep, networkVars, calls>>

subscribe(f) ==
  /\ Alive /\ "run" \notin pending
  /\ calls < MaxCalls
  /\ calls' = calls + 1
  /\ writeSubscription(f)
  /\ UNCHANGED <<streamVars, pingTimer, ioStep, networkVars>>

-------------------------------------------------------------------------------
(* Connecting: each handler starts the next operation or logs and gives up. *)

Connecting(done, next) ==
  /\ ioStep = "idle" /\ done \in pending
  /\ pending' \in {Swap(done, {next}), Swap(done, {})}
  /\ UNCHANGED <<sessionVars, status, pingTimer, ioStep, networkVars, historyVars>>

onResolve      == Connecting("resolve", "connect")
onConnect      == Connecting("connect", "ssl")
onSSLHandshake == Connecting("ssl", "handshake")

(* Mutated: off by one. *)
SecondRequestWaiting == Len(subscriptionRequests) > 1

RequestWaiting == subscriptionRequests # <<>>

(* Mutated: the request is taken and not recorded. *)
popSubscription ==
  /\ subscriptionRequests' = IF RequestWaiting THEN Tail(subscriptionRequests)
                             ELSE subscriptionRequests
  /\ UNCHANGED subscriptions

(* Take the first queued request, if any, and record its filter. *)
readSubscription ==
  /\ subscriptions' = IF RequestWaiting
                      THEN [subscriptions EXCEPT ![Head(subscriptionRequests)] = @ + 1]
                      ELSE subscriptions
  /\ subscriptionRequests' = IF RequestWaiting THEN Tail(subscriptionRequests)
                             ELSE subscriptionRequests

(* What the exchange has to answer once the frame is on the wire; no request  *)
(* makes an empty frame, and a connection that is lost takes it nowhere.      *)
Framed(up) == IF RequestWaiting /\ up
              THEN [requested EXCEPT ![Head(subscriptionRequests)] = @ + 1]
              ELSE requested

onHandshake ==
  /\ ioStep = "idle" /\ "handshake" \in pending
  /\ \/ /\ pending' = Swap("handshake", {"write"})
        /\ status' = "open" /\ connected' = TRUE
        /\ pingTimer' = "waiting"
        /\ readSubscription /\ requested' = Framed(TRUE)
        /\ UNCHANGED <<ioStep, refusals, notices, streams, historyVars>>
     \/ /\ pending' = Swap("handshake", {})
        /\ UNCHANGED <<sessionVars, status, pingTimer, ioStep, networkVars, historyVars>>

-------------------------------------------------------------------------------
(* The read and write chain. *)

(* A failed write ends the chain and leaves the ping timer armed. *)
onWrite ==
  /\ ioStep = "idle" /\ "write" \in pending
  /\ \/ /\ status = "open"
        /\ pending' = Swap("write", {"read"})
        /\ UNCHANGED status
     \/ /\ ~connected \/ status # "open"
        /\ pending' = Swap("write", {})
        /\ status' = "closed"
  /\ UNCHANGED <<sessionVars, pingTimer, ioStep, networkVars, historyVars>>

onReadError ==
  /\ ioStep = "idle" /\ "read" \in pending
  /\ ~connected \/ status # "open"
  /\ pending' = Swap("read", {})
  /\ status' = "closed"
  /\ pingTimer' = CancelTimer(pingTimer)
  /\ UNCHANGED <<sessionVars, ioStep, networkVars, historyVars>>

(* Mutated: the exception of a log call is let through always. *)
LogThrows(done, left) == left

(* Calling an empty logger throws std::bad_function_call, which no handler    *)
(* catches: what follows the log in the handler is not done.                  *)
AfterLog(done, left) == IF HasLogger THEN done ELSE left

Reading == /\ ioStep = "idle" /\ "read" \in pending
           /\ status \in {"open", "closing"}

(* A confirmation, a refusal without the request, or a data event; an event   *)
(* whose parser or callback throws is logged.                                 *)
onReadNotice ==
  /\ Reading /\ notices > 0
  /\ notices' = notices - 1
  /\ pending' = Swap("read", {})
  /\ ioStep' \in {"drain", AfterLog("drain", "idle")}
  /\ UNCHANGED <<sessionVars, status, pingTimer, connected, requested, refusals,
                 streams, historyVars>>

(* Mutated: erases without looking at what find returned, and once too often. *)
eraseTwice(f) == [subscriptions EXCEPT ![f] = @ - 2]

erase(f) == [subscriptions EXCEPT ![f] = IF @ > 0 THEN @ - 1 ELSE @]

(* handleApiControlMsg: one copy of the refused filter goes, then the log. *)
onReadRefusal(f) ==
  /\ Reading /\ refusals[f] > 0
  /\ refusals' = [refusals EXCEPT ![f] = @ - 1]
  /\ subscriptions' = erase(f)
  /\ refused' = refused \union {f}
  /\ pending' = Swap("read", {})
  /\ ioStep' = AfterLog("drain", "idle")
  /\ UNCHANGED <<subscriptionRequests, status, pingTimer, connected, requested,
                 notices, streams, asked, calls>>

(* Mutated: reads on after it has started to close. *)
CloseAndReadOn == AfterLog({"close", "read"}, {})

AfterMalformed == AfterLog({"close"}, {})

(* A message that is not JSON, or not of the types expected: log and close. *)
onReadMalformed ==
  /\ Reading /\ notices > 0
  /\ notices' = notices - 1
  /\ pending' = Swap("read", AfterMalformed)
  /\ status' = AfterLog("closing", status)
  /\ UNCHANGED <<sessionVars, pingTimer, ioStep, connected, requested, refusals,
                 streams, historyVars>>

(* Mutated: the request goes out and the next read is started as well. *)
WriteAndRead == IF RequestWaiting THEN {"write", "read"} ELSE {}

AfterDrain == IF RequestWaiting THEN {"write"} ELSE {}

(* The next request goes out instead of a read; the answer to the write reads. *)
(* The frame is in a string that dies with the statement: async_write copies  *)
(* it at once, unless a ping holds the stream's write lock; then the exchange *)
(* may get other bytes and answers those with some message.                   *)
drainRequests ==
  /\ ioStep = "drain"
  /\ readSubscription
  /\ pending' = pending \union AfterDrain
  /\ ioStep' = IF RequestWaiting THEN "idle" ELSE "quit"
  /\ \/ /\ requested' = Framed(connected)
        /\ UNCHANGED notices
     \/ /\ RequestWaiting /\ connected /\ "ping" \in pending
        /\ notices' = notices + 1
        /\ UNCHANGED requested
  /\ UNCHANGED <<status, pingTimer, connected, refusals, streams, historyVars>>

(* The lock is taken again here: what subscribe() queued since is not seen. *)
quitOrReadOn ==
  /\ ioStep = "quit" /\ ioStep' = "idle"
  /\ IF \E f \in Filters : isSubscribed(f)
       THEN pending' = pending \union {"read"} /\ UNCHANGED status
       ELSE /\ pending' = pending \union AfterLog({"close", "read"}, {})
            /\ status' = AfterLog("closing", status)
  /\ UNCHANGED <<sessionVars, pingTimer, networkVars, historyVars>>

onClose ==
  /\ ioStep = "idle" /\ "close" \in pending
  /\ pending' = Swap("close", {})
  /\ status' = "closed" /\ connected' = FALSE
  /\ requested' = [f \in Filters |-> 0] /\ streams' = {}
  /\ pingTimer' = CancelTimer(pingTimer)
  /\ UNCHANGED <<sessionVars, ioStep, refusals, notices, historyVars>>

-------------------------------------------------------------------------------
(* The ping timer. *)

timerExpires ==
  /\ pingTimer = "waiting"
  /\ pingTimer' = "fired"
  /\ UNCHANGED <<sessionVars, streamVars, ioStep, networkVars, historyVars>>

(* ping(), then the timer is armed again whatever the stream's state.  The   *)
(* clocks behind "ping expired" are abstracted: it may be logged any time.   *)
onPingTimer ==
  /\ ioStep = "idle"
  /\ \/ /\ pingTimer = "fired"
        /\ pingTimer' \in {"waiting", AfterLog("waiting", "idle")}
        /\ pending' = IF status = "open" /\ pingTimer' = "waiting"
                      THEN pending \union {"ping"} ELSE pending
     \/ /\ pingTimer = "aborted"
        /\ pingTimer' = "idle"
        /\ UNCHANGED pending
  /\ UNCHANGED <<sessionVars, status, ioStep, networkVars, historyVars>>

(* Only logs or notes the time, but a ping that failed has failed the stream. *)
onPing ==
  /\ ioStep = "idle" /\ "ping" \in pending
  /\ pending' = Swap("ping", {})
  /\ status' \in IF connected THEN {status} ELSE {status, "closed"}
  /\ UNCHANGED <<sessionVars, pingTimer, ioStep, networkVars, historyVars>>

-------------------------------------------------------------------------------
(* The exchange and the network (external).  Messages are bags: every order   *)
(* TCP could deliver, and more.                                               *)

(* What has arrived may still be read, or is lost with the read error. *)
connectionLost ==
  /\ connected
  /\ connected' = FALSE
  /\ requested' = [f \in Filters |-> 0] /\ streams' = {}
  /\ UNCHANGED <<sessionVars, streamVars, pingTimer, ioStep, refusals, notices, historyVars>>

serverAccept(f) ==
  /\ requested[f] > 0
  /\ requested' = [requested EXCEPT ![f] = @ - 1]
  /\ streams' = streams \union {f}
  /\ notices' = notices + 1
  /\ UNCHANGED <<sessionVars, streamVars, pingTimer, ioStep, connected, refusals, historyVars>>

(* A refusal carries the request or, as the v5 API answers, does not. *)
serverRefuse(f) ==
  /\ requested[f] > 0
  /\ requested' = [requested EXCEPT ![f] = @ - 1]
  /\ \/ refusals' = [refusals EXCEPT ![f] = @ + 1] /\ UNCHANGED notices
     \/ notices' = notices + 1 /\ UNCHANGED refusals
  /\ UNCHANGED <<sessionVars, streamVars, pingTimer, ioStep, connected, streams, historyVars>>

serverPublish ==
  /\ streams # {} /\ notices < MaxNotices
  /\ notices' = notices + 1
  /\ UNCHANGED <<sessionVars, streamVars, pingTimer, ioStep, connected, requested,
                 refusals, streams, historyVars>>

-------------------------------------------------------------------------------
Caller == \E f \in Filters : run(f) \/ subscribe(f)

onRead == \/ onReadError \/ onReadNotice \/ onReadMalformed
          \/ \E f \in Filters : onReadRefusal(f)

InRead == drainRequests \/ quitOrReadOn

Answer == \E f \in Filters : serverAccept(f) \/ serverRefuse(f)

Next == \/ Caller
        \/ onResolve \/ onConnect \/ onSSLHandshake \/ onHandshake
        \/ onWrite \/ onRead \/ InRead \/ onClose
        \/ timerExpires \/ onPingTimer \/ onPing
        \/ connectionLost \/ Answer \/ serverPublish

Spec == Init /\ [][Next]_vars

(* The io thread runs every handler that is ready, timers expire, and an      *)
(* exchange that is reached answers and keeps publishing.  Nothing obliges a  *)
(* caller to subscribe or a connection to be lost.                            *)
Fairness ==
  /\ WF_vars(onResolve) /\ WF_vars(onConnect) /\ WF_vars(onSSLHandshake)
  /\ WF_vars(onHandshake) /\ WF_vars(onWrite) /\ WF_vars(onRead)
  /\ WF_vars(InRead) /\ WF_vars(onClose)
  /\ WF_vars(timerExpires) /\ WF_vars(onPingTimer) /\ WF_vars(onPing)
  /\ WF_vars(Answer) /\ WF_vars(serverPublish)

LiveSpec == Spec /\ Fairness

-------------------------------------------------------------------------------
(* Properties. *)

(* Every variable keeps to the values its C++ counterpart can hold. *)
TypeOK ==
  /\ subscriptions \in [Filters -> Nat]
  /\ subscriptionRequests \in Seq(Filters)
  /\ pending \subseteq ChainOps \union LooseOps
  /\ pingTimer \in {"idle", "waiting", "fired", "aborted"}
  /\ status \in {"init", "open", "closing", "closed"}
  /\ ioStep \in {"idle", "drain", "quit"}
  /\ connected \in BOOLEAN
  /\ requested \in [Filters -> Nat]
  /\ refusals \in [Filters -> Nat]
  /\ notices \in Nat
  /\ streams \subseteq Filters
  /\ asked \subseteq Filters /\ refused \subseteq Filters
  /\ calls \in Nat

(* What the exchange publishes, isSubscribed knows of, whatever mix of        *)
(* duplicate requests, confirmations and refusals led there: erasing one copy *)
(* per refusal never forgets an accepted stream.                              *)
StreamsRecorded == \A f \in streams : isSubscribed(f)

(* Every answer still to come or to be read is to an entry of subscriptions   *)
(* of its own, and every accepted stream holds one more.  So a refusal always *)
(* finds an entry to erase, and while a message other than a refusal can      *)
(* arrive, onRead finds subscriptions and does not quit.                      *)
Outstanding(f) == requested[f] + refusals[f]
AnswersAccounted ==
  /\ \A f \in Filters : Outstanding(f) <= subscriptions[f]
  /\ \A f \in streams : Outstanding(f) < subscriptions[f]
  /\ notices > 0 => \E f \in Filters : Outstanding(f) < subscriptions[f]

(* The frame onHandshake writes is never the empty string: the request run()  *)
(* queued is still there however the caller and the connection interleave.    *)
FirstFrameNotEmpty ==
  pending \intersect {"resolve", "connect", "ssl", "handshake"} # {}
    => subscriptionRequests # <<>>

(* Beast allows one read and one write at a time, and onRead starts either:   *)
(* at most one operation of the chain is outstanding, none inside onRead.     *)
SingleChain ==
  /\ \A a, b \in pending \intersect ChainOps : a = b
  /\ ioStep # "idle" => pending \intersect ChainOps = {}

(* Beast allows one close: when onRead is about to close a session without    *)
(* subscriptions, no close is under way and the stream is open.               *)
NoSecondClose ==
  ioStep = "quit" => "close" \notin pending /\ status = "open"

(* While the stream is open a read or a write is under way: the session never *)
(* stops listening to a connection it keeps.                                  *)
ReadChainAlive ==
  status = "open" => pending \intersect {"write", "read"} # {} \/ ioStep # "idle"

(* A request is queued, or recorded, or has been refused; none disappears.    *)
NoRequestLost == \A f \in asked : Queued(f) \/ isSubscribed(f) \/ f \in refused

(* The session keeps the promises of StreamLedger. *)
Ledger == INSTANCE StreamLedger
            WITH claimed <- {f \in Filters : isSubscribed(f)}, streaming <- streams
ImplementsLedger == Ledger!Spec

(* isSubscribed "Check if a stream is already subscribed": after the          *)
(* connection failed, it stops saying so.                                     *)
FailedSessionForgotten ==
  \A f \in Filters :
    (status = "closed" /\ isSubscribed(f)) ~> ~(Alive /\ isSubscribed(f))

(* The session quits for want of subscriptions only when nobody has asked     *)
(* for one.                                                                   *)
QuitOnlyWhenUnwanted ==
  [][ioStep = "quit" /\ status' = "closing" => subscriptionRequests = <<>>]_vars
===============================================================================
