# bybit_cpp_api in TLA+

The repository is a C++ client for the Bybit v5 API: a WebSocket client for
market data, a REST client with a rate limiter, and thin adapters around both.
These modules model the parts that keep state across calls or run on more than
one thread. TLC checks them on small instances; TLAPS proves the most important
properties for every value of the constants. Paths below are relative to the
repository; `src/bybit_ws_session.cpp` is line-numbered as committed.

## The system

| Component | Code | State | Operations | Talks to |
|---|---|---|---|---|
| WebSocketSession | `src/bybit_ws_session.cpp` | list `subscriptions`, queue `subscriptionRequests`, the Beast stream, `pingTimer`; a recursive mutex around the first two | `run`, `subscribe`, `isSubscribed`, the completion handlers | the exchange; the io thread runs its handlers, callers' threads its public members |
| WebSocketClient | `src/bybit_ws_client.cpp` | `io_context`, the io thread, atomic `isRunning`, weak pointer to the session | `run`, `subscribe`, `isSubscribed`, destructor | makes a session when the weak pointer cannot be locked |
| WSStreamManager | `src/bybit_ws_stream_manager.cpp` | caches of tickers and candlesticks, two mutexes, the timeout | `subscribe...Stream`, `readEvent...`, the data callback | owns a WebSocketClient; its callback runs on the io thread |
| RateLimiter | `src/bybit_rest_client.cpp:31` | deque of request times, `remaining`, `resetTime`, the mode flag, a mutex | `wait`, `update` | every REST request of every thread |
| Historical candles | `src/bybit_rest_client.cpp:245` | the loop's `from`, the candles collected | one download | the exchange, the caller's writer |
| Funding rate history | `src/bybit_rest_client.cpp:516` | the loop's `endTime`, the rates collected | one download | the exchange |
| Instruments cache | `src/bybit_rest_client.cpp:110`, `:338` | one list, a mutex | fill, read, replace | `placeOrder` |
| Orders and positions | `src/bybit_rest_client.cpp:358`, `:397`, `:496` | the account, at the exchange | single requests; `closeAllPositions` a series | the exchange, the instruments cache, the limiter |
| HTTPSession | `src/bybit_http_session.cpp` | the key pair | blocking `get`, `post` | the exchange |
| Interval helpers | `src/bybit.cpp`, `include/vk/bybit/bybit_enums.h` | none | two tables over `CandleInterval` | the pagination loop |
| Connectors, models, other enums | the rest of `src/` | none | one call into one call; JSON | RESTClient |

Where it is hard:

* two threads meet in a session: `subscribe()` comes between any two handlers
  of the io thread, and between the two places where `onRead` takes the mutex;
* a session lives exactly as long as some handler that captured `self` is
  outstanding, so what a handler starts last decides about the session's life;
* a log call can throw (the logger is an empty `std::function` unless it was
  set), and no handler expects that;
* `isRunning` is written by the caller and by the io thread, and read and
  written in separate steps;
* `wait()` sleeps with its mutex locked, and the mode it works in is switched by
  answers to other threads' requests;
* the pagination loop works on a market that goes on, with boundaries that
  depend on `to`, on the interval and on the page;
* `closeAllPositions` is a series of requests without a transaction: any of them
  fails, an answer is lost after the order was accepted, orders are executed
  later than they are answered, and the position list is a snapshot of an
  account others trade on.

What makes each part correct: the session never forgets a stream that flows
nor loses a request, keeps one chain of reads and writes and never stops
reading; the client gives every session an io thread and outlives it; the
limiter keeps its window and obeys the newest answer; a download brings every
closed candle once and in order; closing positions closes each once, or leaves
it for the next call.

## Modules

`StreamLedger` is the abstract specification of a session: streams are asked
for, claimed (`isSubscribed`), streaming or given up. It has no queue, frame or
handler, and says only that nothing is claimed without having been asked for,
nothing streams without being claimed, and no streaming stream is given up.

`WebSocketSession` is the detailed one. One action is one completion handler of
the io thread, with everything the handler does; `onRead` alone is cut, where
it releases the mutex: the message and its bookkeeping (`onReadNotice`,
`onReadRefusal`, `onReadMalformed`, `onReadError`), then the next request
(`drainRequests`), then the decision to quit or to read on (`quitOrReadOn`);
`ioStep` says where the io thread is. `pending` is the set of operations whose
handler has not run, `status` the Beast stream's state. `subscriptions` is a
vector in the code and a function from filters to the number of copies here:
its order is never looked at. Queue entries are filters instead of the JSON
frames made from them. The exchange and the network are actions of their own:
`serverAccept`, `serverRefuse` (with the request in the answer, or without it as
v5 does), `serverPublish`, `connectionLost`. Unread messages are bags, which
allows every order of delivery and more. A message read while a ping holds the
stream's write lock may leave `drainRequests` with a frame whose buffer is gone
when it is written (the string at line 239 is local); the exchange then answers
something else. `asked` and `refused` are history. The mutex needs no variable:
each action is within one critical section.

`WebSocketClient` has the caller and the io thread, each access of `isRunning`,
of the stopped flag and of the weak pointer being a step. The session is
reduced to whether it is alive. `subscribe()` is cut after the weak pointer is
locked, `run()` at each of its lines, the thread's lambda likewise; the
exception that leaves a handler sends the thread round its loop
(`handlerThrows`). The caller is one thread.

`ClientSession` puts the two together: `Client` is an instance of
`WebSocketClient` whose `session` is the session's own `Alive`, and each session,
when it is gone, is followed by a new one (`NewSession`). A handler runs on the
io thread, so only while that is in `io_context::run` and not stopped (`handle`);
one that has begun goes on whoever calls `stop()` (`handleOn`), and
`io_context::run` returns between handlers only (`threadStep`). The exchange, the
network and the timer need no thread (`outside`).

`ClientLedger` is the abstract specification of both: the client's two threads as
in `WebSocketClient`, and of each session what `StreamLedger` says. It is where
the stream manager and the client meet: `WSStreamManager` is written upon it, and
`ClientSession` implements it.

`Delivery` is the abstract specification of both downloads, in ascending or in
descending order: what the caller has grows by items of its range, in order, at
no moment with a gap, and a download that ends normally has handed over all it
owed. It has no pages and no requests.

`RateLimiter` has any number of threads. A thread idles, waits for the mutex,
sleeps inside `wait()` with the mutex locked, or has a request under way. Time
is in ticks. `publicRequest` and `privateRequest` are the calls of RESTClient
that send a request: they differ here in whether the exchange answers with rate
headers, as the comment at line 39 says. `requestThrows` is what HTTPSession's
blocking request may do instead of answering. `waitLocal`/`wakeLocal` are the sliding window, before and after
the sleep; `waitServer`/`wakeServer` the server mode; `update` the headers of an
answer, in any combination the parser can leave behind. `remaining` is 2 (used
up, as the code sees it) or 50.

`HistoricalPrices` is one download. Its interval is a member of the enum
`CandleInterval`, named by the resolution in minutes for which
`isValidCandleResolution` returns it: 40320, four weeks, for the month.
`numberOfMsForCandleInterval` makes a month thirty days, and the exchange's
months (`Months`) are neither. The steps: `fetch` a page, then `stopEmpty`, `lastPage`
or `nextPage`; a candle is its start time and a page is a set, since the code
brings it into ascending order before anything else. `candleOpens` moves the
market between any two steps, `fetchFails` throws. `limit`, `from` and `to` are
chosen by the caller in the initial state. The exchange is taken to answer with
the oldest candles from `from` on, which is what the loop is written for.

`FundingRates` is the other download, backwards from `endTime`: `fetch` a page,
`collect` it and move `endTime` to just before its oldest rate. The reversal at
the end has no step of its own: that pages come newest first (`Delivery`) is what
makes it an ascending order. What it owes is what the header promises: the range
with both its ends. Rates are published meanwhile, and requests may fail. Two
rates a millisecond apart are excluded (`ConstantsAssumption`), since `endTime`
then meets `startTime` one rate early.

`WSStreamManager` composes the client and the session: `Client` is an instance
of `WebSocketClient`, whose variables it shares and whose actions its own are
made of, and `Ledger` an instance of `StreamLedger`. What it assumes of the two
together is `ClientLedger`: its steps are built from that module's, and
`ImplementsContract` of `ClientSession` says that the real client and session do
no more. `requested` is the streams whose request is at the exchange: it accepts
(`accept`), refuses with the request in the answer (`sessionGivesUp`), or without
it, as v5 does (`refuse`), after which the claim stays, `isSubscribed` is true and
`check` passes over the subscription. A session may ask for a stream again, which
a second copy in its queue makes it do. `check`, the two
ways through `subscribe` and `run`/`runStarts` are the two subscribe functions,
which differ in their filter only; the data callback is cut after its lock
(`callbackBegins`, `callbackEnds`); `read` and `look` are a thread in one of the
read functions, a look being one turn of its loop. The destructor is cut where
its body is, and `freeMembers` is what follows the body. An event carries the
fields that changed (a ticker's delta) or all of them (a ticker's snapshot, and
every candlestick); `past` is the history of what the exchange had. Events are
delivered in order, as TCP does, and those on their way go with the session.
An event of `Unreadable` may throw out of its loading (`callbackFails`): a cached
ticker is loaded in place and keeps the fields that were read before, while a
new ticker and every candlestick reach the cache only complete; the callback's
`catch` logs it. Without a logger that log call throws again, out of
`io_context::run`, as does any other of the session's (`sessionThrows`). Then
either the session is gone, or its ping timer keeps it while nobody reads.
`setTimeout` is the caller's, while another thread may be reading.

`Instruments` is the cache of instruments: `getInstrumentsInfo` looks whether it
is empty, `fetch` gets a page, `setInstruments` puts the collected list in and
`getInstruments` reads it, each under a lock of its own; the search of
`placeOrder` begins with the same call. Symbols are numbers that all categories
share (spot and linear both have a BTCUSDT), the cursor is the number of the next
instrument, and a page has one. `replace` is the public setter, which takes any
list, an empty one too. `asked` and `given` are history: the single instruments
asked for, and the lists put in.

`ClosePositions` is one caller of `closeAllPositions` and the account: `held` is
what the account has, `inFlight` what accepted orders will still change,
`snapshot` the account when `getPositionInfo` read it, `listed` the rows it got and
`todo` those the loop has not reached. The request has no cursor and the answer's
is not read (`Positions::fromJson`), so the rows are one page (`Pages`): any of the
category's, with an open one among them if there is any. Their order is the exchange's, so any row may be next.
`prepareOrder` is the body of the loop up to the request: the side, the size,
the step from the cache (filled if it is empty, else whoever filled or emptied
it; see `Instruments`) and the rounding of `Order::toJson`, which keeps the decimals of
the step. Sizes are in steps of the instrument; `DefaultStep` is 0.01 in them,
for an order whose instrument is not found. The request ends in one of four
ways: `orderAccepted`, `orderFails`, `orderRejected` (a symbol of another
category, or quantity zero), and `answerLost`, which the caller cannot tell from
a failure. `execute` comes later, as `bybit_rest_client.h:128` says. `trade` is
somebody else on the account. `touched` and `coarse` are history: the positions
that changed behind the snapshot, and those ordered with the default step. The
account is in one-way mode.

The definitions marked "Mutated" in the modules are the wrong versions that
`PROJECT.json` uses to show that each property can fail.

## Runs

Every run uses only the constants in its `.cfg`. Deadlock is not checked in any
of them: a session whose handlers have all run, a client that is destroyed, a
download that has ended and callers that make no more calls really stop.

| Run | Specification | What it shows |
|---|---|---|
| ClientWithSession | `LiveSystem` | everything below about a client's sessions, one after the other, with a logger |
| Limiter | `LiveSpec` | the window of the local mode, the switch to server mode, the newest limit |
| HistoryDownload | `LiveSpec` | a download of minutes, days and real months, at every alignment, is a `Delivery` |
| FundingDownload | `LiveSpec` | so is the backward download, with every page size and every range longer than an instant |
| StreamManager | `LiveSpec` | what a reader of the caches gets, reads that end, the destructor, the client below |
| InstrumentsCache | `LiveSpec` | what two threads get from one cache |
| ClosePositions | `LiveSpec` | what a call of closeAllPositions leaves, and a caller that repeats it |
| ZombieSession, LostStart | `LiveSpec` | one disagreement of code and documentation each |
| QuitRace, InversePositions, FundingInstant | `Spec` | one disagreement of code and documentation each |

Bounds, and why they are enough:

* *ClientWithSession*: two filters, so that one can be refused while another
  streams; `MaxCalls = 2` in each session after its first request, which puts two
  copies of one filter beside one of the other in the queue, the least for a
  duplicate to be accepted, refused and still recorded while the other streams
  (three calls, 1 184 000 states, were checked once, in five minutes);
  `MaxNotices = 1` bounds only what `serverPublish` adds (answers always arrive),
  since one unread message is enough to make `onRead` go on. Sessions, and calls
  of `run()`, follow each other without bound. With a logger: without one the
  handlers throw, which `WSStreamManager` has. 294 000 states.
* *LostStart*: no bound; all variables are finite.
* *Limiter*: `localLimit = 2`, a window of 2 ticks and five requests of two
  threads, public or private: the window fills, one thread sleeps in it while
  the other waits for the mutex or has an answer with headers under way, and the
  entry of the sleeper is stale. Only the fifth request can be compared with the
  second, whose entry may be one: requests are released at 0, 0, 3, 3 and 3, so a
  bound of `localLimit` instead of one more is violated, which four requests do
  not show. Reset times lie now (a reset that has passed) or two ticks ahead. The
  clock stops at `MaxClock = 3`, which bounds the start of calls, only when nobody
  sleeps. 143 000 states.
* *HistoryDownload*: eight candles of a minute, eight of a day, or six real
  months (31, 28, 31, 30 and 31 days apart); a resolution of 7, which is no
  interval, is refused. Pages of two and three, three pages and more of each;
  `from` on, before and between candles, `to` before, on, between and after
  them.
* *FundingDownload*: seven rates at irregular times, pages of one to three, and
  ranges that begin and end before, on, between and after rates; four pages and
  more of each size. `Starts` and `Ends` have nothing in common, which keeps the
  range of one instant for *FundingInstant*. 18 600 states.
* *StreamManager*: one ticker of two fields, so that a mixture of two states can
  be told from a state; two changes, so that one can be missed and one merged;
  a timeout of none or of one try, set by the caller at any time, which makes
  up to three looks at the cache. No logger, any event may be unreadable, and any
  request refused. Sessions may end and start without bound. 398 000 states. Two
  streams, and candlesticks, make more states than five minutes check (over
  1 600 000): what concerns them is in the theorems, which are for any streams and leave out
  the liveness properties.
* *InstrumentsCache*: two threads, two categories, two symbols: a listing can be
  partial, foreign, or that of one symbol; `MaxGiven = 1`, one list put in at any
  time, any of the sixteen. 376 000 states.
* *ClosePositions*: two linear positions, so that a call can stop between them and
  a page can hold one of them; long, short or none, of 4 or 16
  steps with a default step of 10, so that rounding gives nothing, or more than
  the position; one disturbance, a trade or a retry before the execution. Calls
  are repeated without bound, also for a category that has no positions. An
  inverse position makes it 1 270 000 states and three and a half minutes, checked
  once; it is in *InversePositions*. 210 000 states.

### Properties

Session: `AnswersAccounted` (each answer to come, and each stream that flows, has
an entry of its own, so that a refusal never takes away the last one of a stream
that flows: `StreamsRecorded`, proved from it), `FirstFrameNotEmpty`, `SingleChain`
(Beast's one read or write at a time), `NoSecondClose`, `ReadChainAlive` (with a
logger), `NoRequestLost`, `RequestsSent` (while a stream flows). That one session
alone implements `StreamLedger` (`ImplementsLedger`) is proved; checked is what it
is for, `ImplementsContract`.

Client: `NeverStuck` (the flag is never left set without a thread once `run()`
has returned) and `StopEndsServing` (a stop that finds the thread serving ends
it), both in StreamManager, where handlers throw. `SessionReached`, that a session
gets a thread, is violated: see below. That the thread is over when
the client is gone (`GoneMeansOver`) is proved; `HandlerOverWhenGone` contains it.

Client and sessions: `ImplementsContract` (no claim outlives its session, and only
the io thread touches the list), `HandlerOverWhenGone` (the destructor does not
return while a handler is on its way, not even one that stands between two
critical sections), `FirstRequestSent` (the request a session was made for goes
out when a `run()` found `isRunning` clear, whatever the thread it joins still does,
unless connecting fails; that a `run()` may find it set and return is LostStart).

Closing: `ClosedOrUntouched` (no position is closed twice or half, whichever
request fails), `ReturnMeansClosed`, `RejectedOnlyTooSmall` (what ends a call on
linear positions is a failure, or a position below half the default step whose
instrument was not in the cache), `EventuallyClosed`. The first two speak of
`Settled`, what a position will be when the exchange has executed everything, and
leave out `touched`: a position somebody else changed, and one with orders in
flight when the list was read. A call that returns has closed the positions it was
told of, which may be one page of them; `EventuallyClosed` is about the rest too. The
exception of orders in flight is real: the orders are not
`reduceOnly`, so a caller who repeats the call before its orders are executed
sells its position twice and holds the opposite one. An order rounded with the
default step leaves up to half of it, on either side (`Closed`): 4 steps become 0,
which the exchange rejects for as long as the cache stays that of another
category, and 16 become 20. `EventuallyClosed` therefore has the cache end up
with the linear instruments.

Limiter: `DequeBounded`, `AtMostOneTooMany`, `SleepBounded`,
`NewestResetRespected`, `EveryRequestEnds`. `SleepBounded` is about the thread
for which all others wait, since it sleeps with the mutex: for no longer than the
window, or than the reset lay ahead when it was sent. The limit itself is exceeded by one: a request that slept
is recorded with the time before its sleep (`wait()`, line 105), its entry
expires early, and one more request gets through. `AtMostOneTooMany` says that
it never is more than one.

Download: `ImplementsDelivery` (popping one candle of each page loses none and
repeats none, and leaves out what is still open, page by page and not only at
the end), `WriterHasPrefix` (also after a failure), `PagesMoveOn` (each request
starts after the one before, and not far beyond `to`), `Ends`. `Owed` and
`WriterHasPrefix` leave out `AfterShort`, a month that follows one shorter than
thirty days: see below. `Complete`, `NoOpenCandle` and `InOrder` are the parts of
`ImplementsDelivery` that can be said of one state; they are proved.
`limit` is the size of a page, so more candles than `limit` may be returned; the
writer gets the whole last page, with candles after `to`; and a `limit` of 1
downloads nothing, because the only candle of the first page is popped. That is
why `Limits` starts at 2 in the run.

Funding: `ImplementsDelivery`, `PagesMoveOn`, `Terminates`, and proved of one state
again `Complete` and `InOrder`. What is owed are the rates of the range INCLUSIVE
of its ends, as the header says. Longer ranges get them; a range of a single
instant gets nothing: see below.

Stream manager: `CallbackFindsCaches` (the explicit `wsClient.reset()` of the
destructor), `ReadConsistent` and `NeverOlder` (deltas merged over lost
connections, events that throw half way), `ReadEnds`, `CacheCatchesUp`, and of the
client `NeverStuck` and `StopEndsServing`. `CacheCatchesUp` is about a stream that
flows for good, over whatever an earlier connection left in the cache: the thread
goes on serving and the callback repairs the entry. That a stream comes to flow is
not promised: the exchange may refuse it, and the caller need not ask again.

Instruments: `AnswersWhole`, `CallsReturn`. Whatever two threads reload, replace
and read, an answer is one whole listing, one instrument somebody asked for, or a
list put in: never the half of one. Whose listing it is the cache does not know: a
client that asks for one symbol first, or for two categories, gets that list for
everything, and an order whose symbol is missing from it is rounded with 0.01 (see
`ClosePositions`).

### Disagreements

Those with a run of their own:

* *ZombieSession*: a write that fails leaves the ping timer armed, which re-arms
  itself and keeps the session: `isSubscribed` stays true for ever and new
  requests join a queue nobody reads.
* *QuitRace*: a `subscribe()` between the two looks of `onRead` is queued on a
  session that closes. A session that ends between `subscribe()` locking it and
  queueing the request (`subscribeLock`, `subscribeQueue`) loses it likewise.
* *InversePositions*: `closeAllPositions(Category::inverse)` places linear orders
  (the `Order` keeps its default category), so the exchange rejects the first
  one and nothing is closed, although no request failed.

* *LostStart*: `run()` right after `subscribe()` may return because of a flag the
  old thread is about to clear, and nobody serves the new session until `run()` is
  called again. The header says that `run()` runs the io context; a caller who
  calls it once, as `test/main.cpp` does, waits in vain.
* *FundingInstant*: `startTime` and `endTime` are both INCLUSIVE in the header, but
  the code asks for nothing unless `startTime < endTime`: a range of one instant
  gets no rate, although there is one.

Others the models contain and no run asks about:

* `run()` can join a thread that goes on to serve a session, though its comment
  says it returns immediately (`runJoin` with `ioThread = "run"`).
* without a logger (documented as "all errors are writen to the stderr stream
  only") a refusal, or a message that is not JSON, ends the reading: the log call
  throws out of the handler and the connection stays open with nobody reading it
  (`ReadChainAlive` fails with `HasLogger = FALSE`).
* one private answer with headers ends the local limit on public endpoints,
  which the comment at `src/bybit_rest_client.cpp:39` says send none
  (`serverHeadersFound` is never taken back).
* the next page of months starts thirty days after the last one: if a page ends
  with February, March is never downloaded (`AfterShort`; without that exception
  HistoryDownload finds it). The resolution for months, 40320 minutes, is 28 days.
* `closeAllPositions`, repeated before its orders are executed, opens opposite
  positions; and its orders carry no `positionIdx`, which hedge mode, listed in
  the repository's README, needs.
* a refusal that does not carry the request, the form v5 has, leaves the stream
  claimed: `isSubscribed` stays true ("True if subscribed", `bybit_ws_client.h:61`),
  and no later subscription asks for it while the session lives
  (`onReadRefusal` of `WebSocketSession`, `refuse` of `WSStreamManager`).
* the limit of ten requests in a second (`src/bybit_rest_client.cpp:39`) is
  exceeded by one after a request that slept: see `AtMostOneTooMany`.
* `limit` of `getHistoricalPrices`, "maximum number of returned candles"
  (`bybit_rest_client.h:44`), is the size of a page: more candles are returned,
  and with a limit of 1 none.
* `getInstrumentsInfo` documents a category and a symbol
  (`bybit_rest_client.h:85-86`), but may answer with the list of another query.
* `closeAllPositions` ("all open positions") sees one page of them: `getPositionInfo`
  sends no cursor.
* a reader that finds no event gives up after about a third of the timeout:
  `timeout / 0.01` tries of 3 ms.

Seen while reading, and outside the models: `cancelOrder` sends `orderId` as
`orderLinkId` (`src/bybit_rest_client.cpp:484`), and `Order::toJson` counts the
decimals of a step in its decimal text, which is in scientific notation for very
small ones (`src/bybit_models.cpp:326`).

## Fairness

Session alone (ZombieSession): weak fairness of each handler (the io thread runs
what is ready), of `InRead` (the thread goes on), of the timer, and of the exchange
answering and publishing on a connection that is up. No caller is obliged to
subscribe and no connection to fail.

Client (LostStart): weak fairness of the io thread, of a caller inside `run()`,
inside `subscribe()` or joining in the destructor. No caller is obliged to call
`run()` again. A session need not end, and a handler need not throw.

Client and sessions (`LiveSystem`): the same for the caller; the io thread goes
round its loop, gets to a handler of the chain
that is ready (the queue of `io_context` is first in, first out, so the ping timer
cannot keep it waiting) and goes on with the one it is in; an exchange that is
reached answers and publishes. The timer need not expire, nor a connection fail,
nor a caller subscribe or run. `RequestsSent` holds only while some stream flows, because
requests are sent after a message and a silent exchange sends none.

Limiter: time passes, sleepers wake, the exchange answers, and a thread that
finds the mutex free again and again gets it (strong fairness of taking it).
`std::mutex` does not promise that last part; without it only a thread that is
overtaken for ever would starve.

Downloads: the loop goes on. The market is not obliged to move, nor a request to
fail.

Stream manager: weak fairness of the caller inside a subscribe function, of the
destructor, the io thread and the callback, and strong fairness of `look` (a
mutex that is free again and again is got). The caller need not subscribe, the
session need not send, nor the exchange answer.

Closing: the call goes on and the exchange executes what it accepted (weak
fairness); the caller calls again and again, and neither the list of positions nor
the order of a symbol fails every time (strong fairness of `closeAllPositions`,
`getPositionInfo` and of each symbol's `orderAccepted`). Nothing in the code
retries: that is the caller's part.

Instruments: each thread goes on with the call it is in.

## Proofs

`WebSocketSessionProofs`, for any set of filters, any bounds and with or without
a logger. `SessionInv` is `TypeOK`, `SingleChain`, `AnswersAccounted` and
`StatusInv` (what `status` and the connection say of the operations pending).
None of the safety properties is inductive alone. `StreamsRecorded` needs that a
refusal to come has a copy of its own beyond the stream's: `AnswersAccounted`.
That needs that a frame is counted exactly when its copy is recorded, which is
so in `onHandshake` and `drainRequests`; and its third conjunct, that an unread
message implies a subscription, is what keeps `onRead` from quitting with
messages unread. The lemmas `AccountKept`, `AccountDropped` and `AccountTaken`
are the three things a step can do to the accounts. From `SessionInv` follow
`SingleChainAlways`, `AnswersAlwaysAccounted`, `StreamsAlwaysRecorded`,
`NeverASecondClose`, `FirstFrameNeverEmpty` and `NoRequestEverLost`;
`ListensWhileOpen` assumes a logger. `SessionImplementsLedger` shows that every
step is a step of `StreamLedger` or a stutter, with `QueuedAlwaysAsked` as its
own invariant.

The same module proves about `ClientSession`. `SystemStepKinds` sorts its steps: a
new session, a step of the one there is, or neither. `SessionInv` is true of a new
session (`NewSessionInv`) and kept by the steps of `WebSocketSession`, hence
`EverySessionInvariant`: each session in turn. `EverySessionSafe` and
`EverySessionListens` (with a logger) give the other safety properties, from the
same lemmas about a step (`FirstFrameStep`, `RequestStep`, `ListenStep`) as for a
session alone. `SystemImplementsContract` builds on
it: a session's step was a step of `StreamLedger` already (`StepKeepsLedger`), and
what is left to show is who takes it (`OutsideFacts`, `HandledFacts`) and that a
session that is over leaves no claim. A step of `ClientLedger` is one of
`WebSocketClient` or leaves it alone, so what `WebSocketClientProofs` says holds of
this client (`SystemsClientSound`); with `HandlerInv`, that a handler inside `onRead`
has the io thread and that `run()` starts a thread only after a join,
`HandlerAlwaysOverWhenGone` follows.

The chain is closed from the other side: `ContractStep` in `StreamManagerProofs`,
with `UsageInv` (what is known of a session goes with it), says that the steps of
the manager's client are steps of `ClientLedger`. That is so by the way they are
written; what it is for is `ManagersClientSound`, that what is proved of
`WebSocketClient` holds of the manager's, with its callback and destructor in between.

`WebSocketClientProofs`, whether or not handlers throw: `TypeOK`, `NeverStuck` and
`GoneMeansOver` are inductive together (`ClientInv`), because a thread that still
has one of its two clears to do counts as living. `ClientNeverStuck` and
`ThreadOverWhenGone` follow.

`RateLimiterProofs`: `LimiterInv` adds to the bound that at most one thread
sleeps and that one that sleeps in local mode does so until after the oldest
entry has expired; `PopExpiredShrinks` then says that its own pop makes room for
the entry it adds. `DequeAlwaysBounded` follows, for any number of threads, any
limit, window and buffer. `AtMostOneTooMany` needs to know how entries of the deque
relate to the requests that were really sent, though a sleeper's entry bears the
time before its sleep. `released` is the history of when requests were let go.
`WindowInv` says, as long as no answer had headers, that each recorded time is no
older than the releases before its own (`Covers`), that releases for which nothing
is recorded have left the window, the newest of them excepted (`RestExpired`), and
`Spaced`, from which `AtMostOneTooMany` follows; `ReadLast` says that a sleeper read
the clock after all releases so far, since it has the mutex. `PopKeepsWindow` and
`ReleaseKeepsWindow` are the two things a step can do to it.
`AlwaysAtMostOneTooMany` follows. `NewestResetAlwaysRespected` rests on
`SleepsPastReset`: a thread that sleeps in server mode wakes past the reset time,
which no answer can move meanwhile, since `update()` needs the sleeper's mutex.
`SleepsAlwaysBounded` needs that no recorded time and no thread's reading of the
clock lies in the future, and that the reset is at most one of the delays ahead.

`FundingRatesProofs`, for any set of rates that do not follow each other within
a millisecond, any range and any page size: `DownloadInv` adds to `TypeOK` and
`Complete` that, of the rates known at the start, exactly those after `endTime`
are collected (`Remaining`), and that a page holds the newest up to `endTime`
(`PageInv`). `LastPageIsNewest` is the step: what a page leaves out is older than
all it has, so moving `endTime` before the oldest loses nothing. It rests on
`OldestExists` and `NewestExists`, facts about sets of numbers. `DownloadComplete` and
`PagesInOrder` follow, `PagesAlwaysMoveOn` from `CollectMovesOn`, and
`DownloadImplementsDelivery`: the one step that hands anything over, `collect`, is
`Deliver` (`CollectDelivers`), because the rates after `endTime` are already there and
the page's are the newest of the rest. It and `DownloadComplete` assume that no
start of a range is an end, which leaves out the range of one instant.

`HistoricalPricesProofs`, for any set of month starts, any range, page size and
interval: `DownloadInv` says that caller and writer have exactly the candles from
`start` to the next page's (`Collected`), months after short ones excepted, and
that a page holds the oldest ones from there on (`PageInv`); `NoOpenCandle` and
`WriterHasPrefix` are part of it. `KeptIs` says what `pop_back` leaves of a page, in
each of the two ways it can come out. `TypesAlwaysOK`, `NeverAnOpenCandle`,
`WriterAlwaysHasPrefix`, `PagesInOrder` and `DownloadComplete` follow, and
`PagesAlwaysMoveOn` from what the interval adds to the last candle kept.
`DownloadImplementsDelivery` shows each step to be one of `Delivery` or a stutter,
while candles close between any two steps. It and `DownloadComplete` assume that no
`limit` is 1: such a page loses its only candle, and the download ends with less
than it owes.

`StreamManagerProofs`, for any streams, fields, timeouts, number of changes, and with
or without a logger. `StepKinds` sorts the steps by what they do to the feed: nothing
(`Quiet`), the connection is lost (`Lost`), the session ends (`Cut`), an event is sent
(`accept`, `change`) or taken by the callback. `ThreadsInv` relates where the
destructor is to the io thread, from which `CallbackAlwaysFindsCaches` follows.
`OrderInv` says that along a stream, values do not decrease from the cache over
the wire to the exchange; `EntriesNeverOlder` follows. `ReadConsistent` needs what a
whole queue of deltas adds up to. `StoryInv` says that there is a sequence of states
of the exchange, one for each event on the wire, such that each event was made
from its state (`MadeFrom`), a delta has all that changed since the previous event
of its stream (`Chained`) or, for the first one, since the entry in the cache
(`Based`), and a stream that flows has told everything (`UpToDate`); an entry that
misses an event which could not be parsed is excepted until the next whole one.
`SendKeepsStory`, `ReceiveKeepsStory`, `EndKeepsStory` and `SilenceKeepsStory` are
the four things a step can do to it, `CallbackTells` what the callback leaves in
the cache. `ReadsAlwaysConsistent` follows.

`ClosePositionsProofs`, for any symbols, sizes, default step and number of
disturbances, and any pages. A position that is closed, or left alone, is so in three stages:
still to do and as the snapshot has it, under an order that will close it, or
over (`PositionInv`); `CallInv` says where the call stands. `RoundedCloses` is the
arithmetic of the rounding and `OrderCloses` what `prepareOrder` makes of it.
`ClosingInvariant`, `TypesAlwaysOK`, `AlwaysClosedOrUntouched` and
`ReturnAlwaysMeansClosed` follow. `SmallInv` adds that an order of quantity zero is
for a position too small for the default step, and that nothing in `todo` is closed
in the snapshot; `AlwaysRejectedOnlyTooSmall` follows.

`InstrumentsProofs`, for any threads, categories and symbols: `AnswersWhole` speaks
of answers, but an answer is the cache, which is what some thread fetched.
`InstrumentsInv` therefore says what a thread in the cursor loop has fetched
(`FetchInv`: exactly the query's instruments before its cursor, hence all of them
when there is no cursor), that the cache is empty, a whole listing, an instrument
somebody asked for or a list put in (`CacheInv`), and `AnswerInv`.
`AnswersAlwaysWhole` follows.

Only model-checked: all liveness (`RequestsSent`, `StopEndsServing`, `EveryRequestEnds`, `Ends`, `Terminates`, `ReadEnds`,
`CacheCatchesUp`, `CallsReturn`, `EventuallyClosed`, `FirstRequestSent`), which the
prover does not handle under fairness. `PagesMoveOn` and `SleepBounded` are what
can be proved towards three of them: the requests of a download are bounded by its
range, and nobody waits for a sleeper without bound. Every safety property and
every refinement of a passing run is proved.

## Not modelled

Session and client: `WebSocketSession::close()`, which nothing calls. Several
callers' threads of one WebSocketClient: `session` is a plain weak pointer and
`ioThread` a plain thread, so that would be a data race, and nothing in the
repository does it. Moving a client whose thread runs. What Beast does with the
close and ping handlers, which capture only `this`, when the session goes first.

Stream manager: a logger that is set after the first subscription. A reader that
is still in its loop when the manager is freed: nothing waits for it.

REST: a system clock that is set back. `setCredentials` (and the connectors'
`login()`) while another thread sends a request, a data race on a shared
pointer. Hedge mode. What the single requests send and make of their answers:
`Call`, `publicRequest` and `privateRequest` have of each its call of `wait()` and
the headers of its answer. So `setPositionMode` (its argument check, and its second
look at an answer, which takes "not modified" for success), the open orders and the
cancellations are not modelled: what they change is at the exchange.

The exchange connectors forward each call to one of RESTClient and keep nothing.
Two of their tables choose a value where the source type has more:
`toBybitInterval` falls back to hours, and the spot connector's `getTickerPrice`
asks for the linear ticker. They are not modelled because the enums and models
they translate from are in another repository (`vk_cpp_common`, an empty
submodule here), and without those a model would only repeat the forwarding.
The contents of messages, formatting, signing, JSON.

## Plan

What is left, in order of worth:

1. `ClosePositions` with two callers, and in hedge mode, where a symbol has two
   positions.
2. The stream manager over the real session instead of `ClientLedger`, to say under
   which refusals and losses a stream that was asked for comes to flow.
