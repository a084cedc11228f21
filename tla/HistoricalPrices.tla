--------------------------- MODULE HistoricalPrices ---------------------------
(***************************************************************************)
(* RESTClient::getHistoricalPrices (src/src/bybit_rest_client.cpp:246):    *)
(* one download of the candles from `from` to `to`, page by page, while    *)
(* the market goes on opening candles.  A candle is its start time.        *)
(***************************************************************************)
EXTENDS Integers, FiniteSets

(* The enum CandleInterval, each value named by the resolution in minutes     *)
(* that isValidCandleResolution takes for it.  Time is in minutes.            *)
Day == 1440
Month == 28 * Day
CandleInterval == {1, 3, 5, 15, 30, 60, 120, 240, 360, 720, Day, 7 * Day, Month}

CONSTANTS
  Resolutions,  \* the resolutions the caller asks for
  NumCandles,   \* bound: candles of a resolution other than the month
  Months,       \* when the months start
  Froms, Tos,   \* the values the caller passes for from and to
  Limits        \* and for limit, the size of a page

ASSUME ConstantsAssumption ==
  /\ Resolutions \subseteq Nat
  /\ NumCandles \in Nat \ {0}
  /\ Months \subseteq Nat /\ IsFiniteSet(Months) /\ Months # {}
  /\ Froms \subseteq Nat /\ Tos \subseteq Nat /\ Limits \subseteq Nat \ {0}

VARIABLES
  pc,        \* fetch a page, process it, done, or failed with an exception
  interval,  \* the caller's interval
  start, to, \* the caller's from and to
  limit,     \* the caller's limit
  from,      \* where the next page starts
  page,      \* candles of the page, the newest first in the response
  retVal,    \* candles collected for the caller
  written,   \* candles passed to the writer
  newest,    \* the candle that is open on the exchange
  seen       \* history: the candle that was open when the last page was made

arguments == <<interval, start, to, limit>>
vars == <<pc, arguments, from, page, retVal, written, newest, seen>>

isValidCandleResolution(resolution) == resolution \in CandleInterval

(* A month counts as thirty days. *)
numberOfMsForCandleInterval(i) == IF i = Month THEN 30 * Day ELSE i

Interval == numberOfMsForCandleInterval(interval)

(* Start times of the candles the exchange has or will have (external).       *)
Candles == IF interval = Month THEN Months
           ELSE {n * interval : n \in 0..NumCandles - 1}

Largest(S) == CHOOSE c \in S : \A d \in S : d <= c

Init == /\ pc = "fetch"
        /\ interval \in {r \in Resolutions : isValidCandleResolution(r)}
        /\ start \in Froms /\ to \in Tos /\ start < to
        /\ limit \in Limits
        /\ from = start
        /\ page = {} /\ retVal = {} /\ written = {}
        /\ newest \in Candles
        /\ seen = newest

(* The exchange answers with the oldest candles from `from` on (external). *)
Available == {c \in Candles : from <= c /\ c <= newest}
FirstPage(S) == {c \in S : Cardinality({d \in S : d < c}) < limit}

fetch ==
  /\ pc = "fetch"
  /\ page' = FirstPage(Available)
  /\ seen' = newest
  /\ pc' = IF page' = {} THEN "done" ELSE "process"
  /\ UNCHANGED <<arguments, from, retVal, written, newest>>

(* A request that fails, or is answered with an error, throws. *)
fetchFails ==
  /\ pc = "fetch"
  /\ pc' = "failed"
  /\ UNCHANGED <<arguments, from, page, retVal, written, newest, seen>>

(* Mutated: nothing is popped. *)
KeptAll == page

(* pop_back takes the page's newest candle unless it starts a whole interval  *)
(* after `to`.                                                                *)
Kept == IF Largest(page) - to < Interval THEN page \ {Largest(page)} ELSE page

stopEmpty ==
  /\ pc = "process" /\ Kept = {}
  /\ pc' = "done"
  /\ UNCHANGED <<arguments, from, page, retVal, written, newest, seen>>

(* The caller gets the candles up to `to`, the writer the whole page. *)
lastPage ==
  /\ pc = "process" /\ Kept # {} /\ to < Largest(Kept)
  /\ retVal' = retVal \union {c \in Kept : c <= to}
  /\ written' = written \union Kept
  /\ pc' = "done"
  /\ UNCHANGED <<arguments, from, page, newest, seen>>

(* Mutated: goes on after the popped candle. *)
AfterPopped == Largest(page) + Interval

(* Mutated: goes on at the last candle kept. *)
AtLast == Largest(Kept)

AfterLast == Largest(Kept) + Interval

nextPage ==
  /\ pc = "process" /\ Kept # {} /\ Largest(Kept) <= to
  /\ retVal' = retVal \union Kept
  /\ written' = written \union Kept
  /\ from' = AfterLast
  /\ pc' = "fetch"
  /\ UNCHANGED <<arguments, page, newest, seen>>

(* The market closes the open candle and opens the next one (external). *)
candleOpens ==
  /\ pc \in {"fetch", "process"}
  /\ \E c \in Candles : /\ newest < c
                        /\ \A d \in Candles : newest < d => c <= d
                        /\ newest' = c
  /\ UNCHANGED <<pc, arguments, from, page, retVal, written, seen>>

process == stopEmpty \/ lastPage \/ nextPage

Next == fetch \/ fetchFails \/ process \/ candleOpens

Spec == Init /\ [][Next]_vars

LiveSpec == Spec /\ WF_vars(fetch) /\ WF_vars(process)

-------------------------------------------------------------------------------
(* Properties. *)

TypeOK ==
  /\ pc \in {"fetch", "process", "done", "failed"}
  /\ interval \in CandleInterval
  /\ start \in Nat /\ to \in Nat /\ limit \in Nat /\ from \in Nat
  /\ page \subseteq Candles /\ retVal \subseteq Candles /\ written \subseteq Candles
  /\ newest \in Candles /\ seen \in Candles

Wanted == {c \in Candles : start <= c /\ c <= to}

(* What the code may miss: the month after one shorter than thirty days.      *)
AfterShort == {c \in Candles : \E d \in Candles : d < c /\ c < d + Interval}

(* When the download ends normally the caller has every closed candle it      *)
(* asked for, though each page loses its newest, except a month that follows  *)
(* a short one.                                                               *)
Complete == pc = "done" => {c \in Wanted \ AfterShort : c < seen} \subseteq retVal

(* The caller never gets a candle that was still open when its page was made. *)
NoOpenCandle == retVal \subseteq {c \in Wanted : c < newest}

(* Each page's candles come after all those the caller already has, so retVal *)
(* is in order and without duplicates although pages are fetched over again.  *)
InOrder == pc = "process" => \A c \in retVal, d \in Kept : c < d

(* At every moment, a failed download included, the writer has received a gap *)
(* free prefix of the closed candles, months after short ones excepted.       *)
WriterHasPrefix ==
  \A c \in written : \A d \in Candles \ AfterShort :
    start <= d /\ d < c => d \in written

(* The caller's view of a download. *)
Status == CASE pc = "done" -> "complete" [] pc = "failed" -> "failed" [] OTHER -> "running"
Closed == {c \in Wanted : c < newest}
Owed == {c \in Wanted \ AfterShort : c < seen}

Result == INSTANCE Delivery WITH Descending <- FALSE, offered <- Closed, owed <- Owed,
                                 delivered <- retVal, status <- Status

(* A download implements Delivery: pages that overlap, lose their newest and  *)
(* are fetched while candles close leave the caller neither with a gap, not    *)
(* even for a moment or when a request fails, nor with a candle still open.   *)
ImplementsDelivery == Result!Spec

(* Each page starts where none has, and none starts further than an interval  *)
(* after `to`: the requests of a download are bounded by its range.           *)
PagesMoveOn ==
  [][pc = "process" /\ pc' = "fetch" => from < from' /\ from' <= to + Interval]_vars

(* Every download ends. *)
Ends == <>(pc \in {"done", "failed"})
===============================================================================
