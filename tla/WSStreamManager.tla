---------------------------- MODULE WSStreamManager ----------------------------
(***************************************************************************)
(* WSStreamManager (src/src/bybit_ws_stream_manager.cpp): a caller that    *)
(* subscribes to streams through a WebSocketClient and destroys the        *)
(* manager, the data callback that fills the caches on the client's io     *)
(* thread, and a thread that reads them.  The client is module             *)
(* WebSocketClient with its variables; its session is what StreamLedger    *)
(* promises of one.                                                        *)
(***************************************************************************)
EXTENDS Integers, Sequences, FiniteSets

CONSTANTS
  Tickers,        \* ticker streams: the first event is whole, later ones have
                  \* what changed
  Candlesticks,   \* kline streams: every event is a whole candlestick
  None,           \* no stream
  Fields,         \* fields of an event
  Watched,        \* streams the reading thread reads
  HasLogger,      \* has a logger been set, before anything else?
  Unreadable,     \* streams whose events may be such that they cannot be parsed
  Timeouts,       \* timeouts the caller sets, in tries: timeout / 0.01
  MaxChanges      \* bound: changes the exchange makes

ASSUME ConstantsAssumption ==
  /\ Tickers \intersect Candlesticks = {} /\ None \notin Tickers \union Candlesticks
  /\ Watched \subseteq Tickers \union Candlesticks
  /\ HasLogger \in BOOLEAN /\ Unreadable \subseteq Tickers \union Candlesticks
  /\ Timeouts \subseteq Nat /\ MaxChanges \in Nat

Streams == Tickers \union Candlesticks

VARIABLES
  caller, ioThread, isRunning, stopped, session, started,   \* WebSocketClient
  asked, claimed, streaming,                                \* StreamLedger
  user,       \* where the caller is in the manager: idle, in a subscribe
              \* function, or in the destructor
  stream,     \* the stream it subscribes to, if any
  members,    \* do the caches and their mutexes exist?
  cache,      \* tickers and candlesticks, for the streams that have an entry
  handling,   \* is the callback on its way, with the lock of its cache?
  timeout,
  wanted,     \* the stream a reading thread waits for, if any
  numTries, maxNumTries,
  exchange,   \* what the exchange has for each stream
  past,       \* history: all it ever had
  damaged,    \* history: streams that lack an event which could not be parsed
  wire,       \* events on their way
  requested,  \* streams with a request on its way, whose answer is not read
  broken      \* has the session lost its connection, or stopped reading it?

client == <<caller, ioThread, isRunning, stopped, session, started>>
ledger == <<asked, claimed, streaming>>
reading == <<timeout, wanted, numTries, maxNumTries>>
caches == <<members, cache, damaged, handling>>
market == <<exchange, past>>
feed == <<market, wire, requested, broken>>
vars == <<client, ledger, user, stream, caches, reading, feed>>

Client == INSTANCE WebSocketClient WITH HandlersThrow <- ~HasLogger
Ledger == INSTANCE StreamLedger WITH Filters <- Streams

Init == /\ Client!Init /\ Ledger!Init
        /\ user = "idle" /\ stream = None /\ members = TRUE
        /\ cache = [s \in {} |-> 0] /\ damaged = {} /\ handling = FALSE
        /\ timeout \in Timeouts
        /\ wanted = None /\ numTries = 0 /\ maxNumTries = 0
        /\ exchange = [s \in Streams |-> [f \in Fields |-> 0]]
        /\ past = [s \in Streams |-> {exchange[s]}]
        /\ wire = <<>> /\ requested = {} /\ broken = FALSE

-------------------------------------------------------------------------------
(* subscribeTickerStream and subscribeCandlestickStream, which differ in the  *)
(* filter only.                                                               *)

(* What the client answers: its session, if it lives, has taken the request.  *)
isSubscribed(s) == session /\ s \in claimed

check(s) ==
  /\ user = "idle"
  /\ stream' = s
  /\ user' = IF isSubscribed(s) THEN "run" ELSE "subscribe"
  /\ UNCHANGED <<client, ledger, caches, reading, feed>>

(* A new session knows nothing but this stream. *)
subscribeAnew ==
  /\ user = "subscribe" /\ Client!subscribeAnew
  /\ user' = "run"
  /\ asked' = {stream}
  /\ UNCHANGED <<claimed, streaming, stream, caches, reading, feed>>

subscribeLock ==
  /\ user = "subscribe" /\ Client!subscribeLock
  /\ UNCHANGED <<ledger, user, stream, caches, reading, feed>>

subscribeQueue ==
  /\ user = "subscribe" /\ Client!subscribeQueue
  /\ user' = "run"
  /\ IF session THEN Ledger!Ask(stream) ELSE UNCHANGED ledger
  /\ UNCHANGED <<stream, caches, reading, feed>>

run ==
  /\ user = "run" /\ Client!runCheck
  /\ user' = IF isRunning THEN "idle" ELSE "start"
  /\ stream' = None
  /\ UNCHANGED <<ledger, caches, reading, feed>>

runStarts ==
  /\ user = "start" /\ Client!InRun
  /\ user' = IF caller' = "idle" THEN "idle" ELSE "start"
  /\ UNCHANGED <<ledger, stream, caches, reading, feed>>

-------------------------------------------------------------------------------
setTimeout(n) ==
  /\ user = "idle"
  /\ timeout' = n
  /\ UNCHANGED <<client, ledger, user, stream, caches, wanted, numTries, maxNumTries, feed>>

-------------------------------------------------------------------------------
(* ~WSStreamManager. *)

(* Mutated: without wsClient.reset() the caches, declared after the client,   *)
(* go before it.                                                              *)
destroyMembersFirst ==
  /\ user = "idle" /\ Client!destroy
  /\ user' = "reset" /\ members' = FALSE
  /\ UNCHANGED <<ledger, stream, cache, damaged, handling, reading, feed>>

destroy ==
  /\ user = "idle" /\ Client!destroy
  /\ user' = "reset"
  /\ UNCHANGED <<ledger, stream, caches, reading, feed>>

(* wsClient.reset() has joined the io thread. *)
destroyJoin ==
  /\ user = "reset" /\ Client!destroyJoin
  /\ user' = "joined"
  /\ UNCHANGED <<ledger, stream, caches, reading, feed>>

zeroTimeout ==
  /\ user = "joined"
  /\ user' = "zeroed"
  /\ timeout' = 0
  /\ UNCHANGED <<client, ledger, stream, caches, wanted, numTries, maxNumTries, feed>>

freeMembers ==
  /\ user = "zeroed"
  /\ user' = "gone" /\ members' = FALSE
  /\ UNCHANGED <<client, ledger, stream, cache, damaged, handling, reading, feed>>

-------------------------------------------------------------------------------
(* The io thread. *)

(* What goes with a session. *)
Forget == /\ asked' = {} /\ claimed' = {} /\ streaming' = {}
          /\ wire' = <<>> /\ requested' = {} /\ broken' = FALSE

threadStep ==
  /\ ~handling /\ Client!IoThread
  /\ UNCHANGED <<ledger, user, stream, caches, reading, feed>>

sessionEnds ==
  /\ ~handling /\ Client!sessionEnds
  /\ Forget
  /\ UNCHANGED <<user, stream, caches, reading, market>>

(* The session sends a request, for a stream it has asked for before or not.   *)
sessionClaims(s) ==
  /\ Client!Serving /\ session /\ ~handling
  /\ Ledger!Claim(s)
  /\ requested' = requested \union {s}
  /\ UNCHANGED <<client, user, stream, caches, reading, market, wire, broken>>

(* It reads a refusal that carries the request, and has no other copy of it.   *)
sessionGivesUp(s) ==
  /\ Client!Serving /\ session /\ ~handling
  /\ s \in requested /\ Ledger!GiveUp(s)
  /\ requested' = requested \ {s}
  /\ UNCHANGED <<client, user, stream, caches, reading, market, wire, broken>>

(* A handler that logs without a logger throws out of io_context::run.  If the *)
(* session survives, its ping timer keeps it, and nobody reads any more.       *)
Throw ==
  /\ Client!handlerThrows
  /\ IF session' THEN Ledger!Disconnect /\ wire' = <<>> /\ requested' = {} /\ broken' = TRUE
     ELSE Forget

sessionThrows ==
  /\ ~handling /\ Throw
  /\ UNCHANGED <<user, stream, caches, reading, market>>

(* The locks of the caches.  The callback takes one at its first line. *)
SameCache(s, t) == {s, t} \subseteq Tickers \/ {s, t} \subseteq Candlesticks
Locked(s) == handling /\ SameCache(s, Head(wire).stream)

callbackBegins ==
  /\ Client!Serving /\ session /\ ~handling /\ wire # <<>>
  /\ handling' = TRUE
  /\ UNCHANGED <<client, ledger, user, stream, members, cache, damaged, reading, feed>>

(* Mutated: every event goes into a new ticker, which replaces the cached one. *)
NewTicker(s) == [f \in Fields |-> 0]

Entry(s) == IF s \in DOMAIN cache THEN cache[s] ELSE [f \in Fields |-> 0]

(* Mutated: insert for insert_or_assign, what is cached stays.                *)
LoadedOnce(event) ==
  [f \in Fields |-> IF event.stream \notin DOMAIN cache /\ f \in DOMAIN event.data
                    THEN event.data[f] ELSE Entry(event.stream)[f]]

(* A field that is not in the event stays as it is.                           *)
Loaded(event) ==
  [f \in Fields |-> IF f \in DOMAIN event.data THEN event.data[f]
                    ELSE Entry(event.stream)[f]]

callbackEnds ==
  /\ handling
  /\ LET event == Head(wire)
     IN  /\ cache' = [s \in DOMAIN cache \union {event.stream} |->
                        IF s = event.stream THEN Loaded(event) ELSE cache[s]]
         /\ damaged' = IF DOMAIN event.data = Fields THEN damaged \ {event.stream} ELSE damaged
  /\ wire' = Tail(wire)
  /\ handling' = FALSE
  /\ UNCHANGED <<client, ledger, user, stream, members, reading, market, requested, broken>>

(* An event that cannot be parsed throws out of its loading, and the callback  *)
(* logs it.  A cached ticker is loaded in place, field by field; a new one and *)
(* every candlestick go into the cache when they are complete.                 *)
callbackFails ==
  /\ handling
  /\ LET event == Head(wire)
         s == event.stream
     IN  /\ s \in Unreadable
         /\ \E loaded \in SUBSET DOMAIN event.data :
              cache' = IF s \notin DOMAIN cache \intersect Tickers THEN cache
                       ELSE [cache EXCEPT ![s] = [f \in Fields |-> IF f \in loaded
                                                    THEN event.data[f] ELSE @[f]]]
         /\ damaged' = damaged \union {s}
  /\ handling' = FALSE
  /\ IF HasLogger THEN wire' = Tail(wire) /\ UNCHANGED <<client, ledger, requested, broken>>
     ELSE Throw
  /\ UNCHANGED <<user, stream, members, reading, market>>

-------------------------------------------------------------------------------
(* readEventTicker and readEventCandlestick on a thread of their own. *)

read(s) ==
  /\ s \in Watched /\ wanted = None /\ user \notin {"zeroed", "gone"}
  /\ wanted' = s /\ numTries' = 0 /\ maxNumTries' = timeout
  /\ UNCHANGED <<client, ledger, user, stream, caches, timeout, feed>>

(* Mutated: the tries are not counted. *)
Tries == numTries

NextTry == numTries + 1

(* A timeout of 0, the destructor's or the caller's, ends a read.             *)
GivesUp == timeout = 0 \/ numTries > maxNumTries

(* One look at the cache; between two of them the thread sleeps.              *)
look ==
  /\ wanted # None /\ members
  /\ GivesUp \/ ~Locked(wanted)
  /\ IF GivesUp \/ wanted \in DOMAIN cache
       THEN wanted' = None /\ numTries' = 0 /\ maxNumTries' = 0
       ELSE UNCHANGED <<wanted, maxNumTries>> /\ numTries' = NextTry
  /\ UNCHANGED <<client, ledger, user, stream, caches, timeout, feed>>

-------------------------------------------------------------------------------
(* The exchange and the network (external). *)

(* One request, one answer. *)
accept(s) ==
  /\ session /\ ~broken /\ s \in requested \ streaming
  /\ Ledger!Accept(s)
  /\ requested' = requested \ {s}
  /\ wire' = Append(wire, [stream |-> s, data |-> exchange[s]])
  /\ UNCHANGED <<client, user, stream, caches, reading, market, broken>>

(* A refusal without the request, the v5 form, tells the session nothing: the *)
(* claim stays, and isSubscribed keeps the caller from asking again.  So does *)
(* a refusal of one copy of several, or of a stream that flows.               *)
refuse(s) ==
  /\ session /\ ~broken /\ s \in requested
  /\ requested' = requested \ {s}
  /\ UNCHANGED <<client, ledger, user, stream, caches, reading, market, wire, broken>>

Changes == Cardinality(UNION {{s} \X past[s] : s \in Streams}) - Cardinality(Streams)

change(s, f) ==
  /\ Changes < MaxChanges
  /\ exchange' = [exchange EXCEPT ![s][f] = @ + 1]
  /\ past' = [past EXCEPT ![s] = @ \union {exchange'[s]}]
  /\ wire' = IF s \notin streaming THEN wire
             ELSE Append(wire, [stream |-> s,
                                data |-> IF s \in Tickers THEN [g \in {f} |-> exchange'[s][g]]
                                         ELSE exchange'[s]])
  /\ UNCHANGED <<client, ledger, user, stream, caches, reading, requested, broken>>

(* What has arrived may still be read, refusals included. *)
connectionLost ==
  /\ session /\ ~broken
  /\ Ledger!Disconnect /\ broken' = TRUE
  /\ UNCHANGED <<client, user, stream, caches, reading, market, wire, requested>>

-------------------------------------------------------------------------------
Subscribing == subscribeAnew \/ subscribeLock \/ subscribeQueue \/ run \/ runStarts
Destroying == destroyJoin \/ zeroTimeout \/ freeMembers
Callback == callbackBegins \/ callbackEnds \/ callbackFails

Next == \/ \E s \in Streams : check(s) \/ read(s) \/ accept(s) \/ refuse(s)
                              \/ sessionClaims(s) \/ sessionGivesUp(s)
        \/ \E s \in Streams, f \in Fields : change(s, f)
        \/ Subscribing \/ destroy \/ Destroying
        \/ \E n \in Timeouts : setTimeout(n)
        \/ threadStep \/ sessionEnds \/ sessionThrows \/ Callback
        \/ look \/ connectionLost

Spec == Init /\ [][Next]_vars

(* The threads are scheduled.  The caller need not subscribe, read or destroy, *)
(* the session need not send, and the exchange need not answer.               *)
Fairness ==
  /\ WF_vars(Subscribing) /\ WF_vars(Destroying) /\ WF_vars(threadStep)
  /\ WF_vars(Callback) /\ SF_vars(look)

LiveSpec == Spec /\ Fairness

-------------------------------------------------------------------------------
(* Properties. *)

(* The callback never runs without the caches it writes to: the destructor    *)
(* ends the io thread first.                                                  *)
CallbackFindsCaches == handling => members

(* What is read is what the exchange had at one moment, though tickers are    *)
(* put together from deltas, and deltas are missed between two connections.   *)
(* An event that cannot be parsed spoils one ticker until its next snapshot,  *)
(* and no candlestick.                                                        *)
ReadConsistent == \A s \in DOMAIN cache \ (damaged \intersect Tickers) : cache[s] \in past[s]

(* No entry is lost, or goes back to an older state.                          *)
NeverOlder ==
  [][\A s \in DOMAIN cache : /\ s \in DOMAIN cache'
                             /\ \A f \in Fields : cache[s][f] <= cache'[s][f]]_cache

(* Each read ends, with or without an event.                                  *)
ReadEnds == (wanted # None) ~> (wanted = None \/ ~members)

(* While a stream flows, the cache catches up with the exchange, whatever an   *)
(* earlier connection, a missed delta or a spoilt event has left there: the   *)
(* io thread goes on serving, though run() may be joining it, and its callback *)
(* replaces what is there.                                                    *)
Lasts == session /\ ~broken /\ user \in {"idle", "subscribe", "run", "start"}
CacheCatchesUp ==
  \A s \in Streams :
    <>[](Lasts /\ s \in streaming \ damaged)
      => <>[](s \in DOMAIN cache /\ cache[s] = exchange[s])

(* What the client promises of its threads, with the callback in between: no   *)
(* io thread that would have to clear isRunning is gone, and a stop that finds *)
(* it serving ends it.                                                         *)
NeverStuck == Client!NeverStuck
StopEndsServing == Client!StopEndsServing
===============================================================================
