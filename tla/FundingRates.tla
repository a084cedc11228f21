----------------------------- MODULE FundingRates -----------------------------
(***************************************************************************)
(* RESTClient::getFundingRates (src/src/bybit_rest_client.cpp:516): one    *)
(* download of the funding rates from startTime to endTime, the newest     *)
(* page first, while the exchange goes on publishing.  A rate is its time. *)
(***************************************************************************)
EXTENDS Integers, FiniteSets

CONSTANTS
  Rates,         \* times of the rates the exchange has or will have
  Starts, Ends,  \* the values the caller passes for startTime and endTime
  Limits         \* and for limit, the size of a page

(* Hours lie between two rates of a symbol; here it is enough that they do    *)
(* not follow each other within a millisecond.                                *)
ASSUME ConstantsAssumption ==
  /\ Rates \subseteq Nat /\ IsFiniteSet(Rates)
  /\ \A r, s \in Rates : r < s => r + 1 < s
  /\ Starts \subseteq Nat /\ Ends \subseteq Nat /\ Limits \subseteq Nat \ {0}

VARIABLES
  pc,          \* fetch a page, collect it, done, or failed with an exception
  startTime,   \* the caller's arguments
  asked,
  limit,
  endTime,     \* where the next page ends
  fr,          \* the page
  retVal,      \* rates collected
  published,   \* rates the exchange has
  known        \* history: rates it had when the download began

arguments == <<startTime, asked, limit>>
vars == <<pc, arguments, endTime, fr, retVal, published, known>>

Oldest(S) == CHOOSE r \in S : \A s \in S : r <= s

(* The range is looked at before each request. *)
NextStep(from, to) == IF from < to THEN "fetch" ELSE "done"

Init == /\ startTime \in Starts /\ asked \in Ends /\ limit \in Limits
        /\ endTime = asked
        /\ pc = NextStep(startTime, asked)
        /\ fr = {} /\ retVal = {}
        /\ \E now \in Rates : published = {r \in Rates : r <= now}
        /\ known = published

(* The exchange answers with the newest rates of the range (external). *)
InRange == {r \in published : startTime <= r /\ r <= endTime}
LastPage(S) == {r \in S : Cardinality({s \in S : r < s}) < limit}

fetch ==
  /\ pc = "fetch"
  /\ fr' = LastPage(InRange)
  /\ pc' = IF fr' = {} THEN "done" ELSE "collect"
  /\ UNCHANGED <<arguments, endTime, retVal, published, known>>

(* A request that fails, or is answered with an error, throws. *)
fetchFails ==
  /\ pc = "fetch"
  /\ pc' = "failed"
  /\ UNCHANGED <<arguments, endTime, fr, retVal, published, known>>

(* Mutated: the page replaces what was collected before. *)
OnlyPage == fr

Collected == retVal \union fr

(* Mutated: the oldest rate is asked for again. *)
AtOldest == Oldest(fr)

BeforeOldest == Oldest(fr) - 1

collect ==
  /\ pc = "collect"
  /\ retVal' = Collected
  /\ endTime' = BeforeOldest
  /\ fr' = {}
  /\ pc' = NextStep(startTime, endTime')
  /\ UNCHANGED <<arguments, published, known>>

(* The next rate is published (external). *)
publish ==
  /\ pc \in {"fetch", "collect"}
  /\ \E r \in Rates \ published :
       /\ \A s \in Rates \ published : r <= s
       /\ published' = published \union {r}
  /\ UNCHANGED <<pc, arguments, endTime, fr, retVal, known>>

Next == fetch \/ fetchFails \/ collect \/ publish

Spec == Init /\ [][Next]_vars

LiveSpec == Spec /\ WF_vars(fetch) /\ WF_vars(collect)

-------------------------------------------------------------------------------
(* Properties. *)

TypeOK ==
  /\ pc \in {"fetch", "collect", "done", "failed"}
  /\ startTime \in Nat /\ asked \in Nat /\ limit \in Nat \ {0}
  /\ endTime \in Int
  /\ fr \subseteq published /\ retVal \subseteq published
  /\ known \subseteq published /\ published \subseteq Rates

Wanted == {r \in Rates : startTime <= r /\ r <= asked}

(* A download that ends normally has every rate from startTime to endTime,    *)
(* "INCLUSIVE" both, that was there when it began, and none outside.          *)
Complete ==
  pc = "done" => known \intersect Wanted \subseteq retVal /\ retVal \subseteq Wanted

(* Each page is older than all that was collected, so the reversed vector is  *)
(* in order and has no rate twice, though rates are published meanwhile.      *)
InOrder == pc = "collect" => \A r \in fr, s \in retVal : r < s

(* The caller's view of a download. *)
Status == CASE pc = "done" -> "complete" [] pc = "failed" -> "failed" [] OTHER -> "running"
Result == INSTANCE Delivery WITH Descending <- TRUE, offered <- published \intersect Wanted,
                                 owed <- known \intersect Wanted, delivered <- retVal,
                                 status <- Status

(* A download implements Delivery, newest first: no rate of its range is       *)
(* skipped between two pages, though the exchange publishes meanwhile.  So if  *)
(* startTime is not endTime.                                                   *)
ImplementsDelivery == Result!Spec

(* Each page ends before the one fetched last, and none ends before the       *)
(* range: the requests of a download are bounded by its range.                *)
PagesMoveOn ==
  [][pc = "collect" /\ pc' # "collect" => endTime' < endTime /\ startTime - 1 <= endTime']_vars

(* Every download ends. *)
Terminates == <>(pc \in {"done", "failed"})
===============================================================================
