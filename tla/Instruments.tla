----------------------------- MODULE Instruments -----------------------------
(***************************************************************************)
(* The instruments cache of a RESTClient (src/src/bybit_rest_client.cpp),  *)
(* filled by getInstrumentsInfo page by page, replaced by setInstruments,  *)
(* and read by getInstrumentsInfo, for its caller and for placeOrder.  All *)
(* categories and all threads share it.  The exchange sends one instrument *)
(* per page; the cursor is the number of the next one.                     *)
(***************************************************************************)
EXTENDS Naturals, FiniteSets

CONSTANTS
  Threads,
  Categories,
  NumSymbols,   \* each category has the symbols 1..NumSymbols
  MaxGiven      \* bound: different lists put in by callers

ASSUME ConstantsAssumption ==
  NumSymbols \in Nat \ {0} /\ Categories # {} /\ MaxGiven \in Nat

Symbols == 1..NumSymbols
All == 0                                     \* no symbol: all of them
Instrument == Categories \X Symbols

VARIABLES
  cache,      \* m_instruments
  pc,         \* where each thread is
  category,   \* its arguments
  symbol,
  cursor,     \* nextPageCursor, 0 for none
  temp,       \* instruments of the pages so far
  answer,     \* what getInstrumentsInfo returned to it last
  asked,      \* history: the single instruments ever asked for
  given       \* history: the lists ever put in

args == <<category, symbol>>
history == <<asked, given>>
vars == <<cache, pc, args, cursor, temp, answer, history>>

Some == CHOOSE c \in Categories : TRUE

Init == /\ cache = {} /\ asked = {} /\ given = {}
        /\ pc = [t \in Threads |-> "idle"]
        /\ category = [t \in Threads |-> Some]
        /\ symbol = [t \in Threads |-> All]
        /\ cursor = [t \in Threads |-> 0]
        /\ temp = [t \in Threads |-> {}]
        /\ answer = [t \in Threads |-> {}]

(* The arguments and what was fetched are not used any more.                  *)
Reset(t) ==
  /\ category' = [category EXCEPT ![t] = Some]
  /\ symbol' = [symbol EXCEPT ![t] = All]
  /\ cursor' = [cursor EXCEPT ![t] = 0]
  /\ temp' = [temp EXCEPT ![t] = {}]

(* What the exchange answers to a query, over all pages (external).           *)
Listing(c, s) == {c} \X (IF s = All THEN Symbols ELSE {s})

First(s) == IF s = All THEN 1 ELSE s

(* The cache is looked at, and reloaded if it is empty or the caller insists:  *)
(* only then are the arguments used.                                           *)
getInstrumentsInfo(t, c, s, force) ==
  /\ pc[t] = "idle"
  /\ IF cache = {} \/ force
       THEN /\ pc' = [pc EXCEPT ![t] = "fetch"]
            /\ category' = [category EXCEPT ![t] = c]
            /\ symbol' = [symbol EXCEPT ![t] = s]
            /\ cursor' = [cursor EXCEPT ![t] = First(s)]
            /\ asked' = IF s = All THEN asked ELSE asked \union {<<c, s>>}
       ELSE pc' = [pc EXCEPT ![t] = "get"] /\ UNCHANGED <<args, cursor, asked>>
  /\ UNCHANGED <<cache, temp, answer, given>>

(* Any caller; placeOrder is one: it asks for all of its order's category.    *)
call(t) ==
  \E c \in Categories, s \in {All} \union Symbols,
     force \in BOOLEAN : getInstrumentsInfo(t, c, s, force)

(* Mutated: the cursor is not passed on. *)
SamePage(t) == cursor[t]

NextPage(t) == IF symbol[t] = All /\ cursor[t] < NumSymbols THEN cursor[t] + 1 ELSE 0

(* The instruments of a page, of which only category and symbol matter here.  *)
Page(t) == {<<category[t], cursor[t]>>}

(* Mutated: each page goes into the cache. *)
fetchAndSet(t) ==
  /\ pc[t] = "fetch" /\ cursor[t] # 0
  /\ temp' = [temp EXCEPT ![t] = @ \union Page(t)]
  /\ cache' = temp'[t]
  /\ cursor' = [cursor EXCEPT ![t] = NextPage(t)]
  /\ UNCHANGED <<pc, args, answer, history>>

fetch(t) ==
  /\ pc[t] = "fetch" /\ cursor[t] # 0
  /\ temp' = [temp EXCEPT ![t] = @ \union Page(t)]
  /\ cursor' = [cursor EXCEPT ![t] = NextPage(t)]
  /\ UNCHANGED <<cache, pc, args, answer, history>>

(* A request that fails throws: what was fetched is lost.                     *)
fetchFails(t) ==
  /\ pc[t] = "fetch" /\ cursor[t] # 0
  /\ pc' = [pc EXCEPT ![t] = "idle"]
  /\ Reset(t)
  /\ UNCHANGED <<cache, answer, history>>

setInstruments(t) ==
  /\ pc[t] = "fetch" /\ cursor[t] = 0
  /\ cache' = temp[t]
  /\ pc' = [pc EXCEPT ![t] = "get"]
  /\ Reset(t)
  /\ UNCHANGED <<answer, history>>

(* A caller puts in any list, which may be empty.                             *)
replace(t) ==
  /\ pc[t] = "idle"
  /\ \E list \in SUBSET Instrument :
       /\ list \in given \/ Cardinality(given) < MaxGiven
       /\ cache' = list /\ given' = given \union {list}
  /\ UNCHANGED <<pc, args, cursor, temp, answer, asked>>

(* The lock was released: by now it may be the list of somebody else.         *)
getInstruments(t) ==
  /\ pc[t] = "get"
  /\ answer' = [answer EXCEPT ![t] = cache]
  /\ pc' = [pc EXCEPT ![t] = "answered"]
  /\ UNCHANGED <<cache, args, cursor, temp, history>>

(* The caller gets the list. *)
finish(t) ==
  /\ pc[t] = "answered"
  /\ answer' = [answer EXCEPT ![t] = {}]
  /\ pc' = [pc EXCEPT ![t] = "idle"]
  /\ UNCHANGED <<cache, args, cursor, temp, history>>

GoOn(t) == fetch(t) \/ setInstruments(t) \/ getInstruments(t) \/ finish(t)

Next == \E t \in Threads : call(t) \/ replace(t) \/ fetchFails(t) \/ GoOn(t)

Spec == Init /\ [][Next]_vars

LiveSpec == Spec /\ \A t \in Threads : WF_vars(GoOn(t))

-------------------------------------------------------------------------------
(* Properties. *)

TypeOK ==
  /\ cache \subseteq Instrument
  /\ pc \in [Threads -> {"idle", "fetch", "get", "answered"}]
  /\ category \in [Threads -> Categories]
  /\ symbol \in [Threads -> {All} \union Symbols]
  /\ cursor \in [Threads -> {0} \union Symbols]
  /\ temp \in [Threads -> SUBSET Instrument]
  /\ answer \in [Threads -> SUBSET Instrument]
  /\ asked \subseteq Instrument /\ given \subseteq SUBSET Instrument

(* An answer is a whole category, the one instrument that somebody asked for, *)
(* or a list that somebody put in: never some pages of a category, pages of   *)
(* two, or the cache nobody has filled, whoever reloads or empties the cache  *)
(* between the steps of a call.                                               *)
AnswersWhole ==
  \A t \in Threads :
    pc[t] = "answered" =>
      \/ answer[t] \in given
      \/ \E c \in Categories : answer[t] = Listing(c, All)
      \/ \E i \in asked : answer[t] = Listing(i[1], i[2])

(* Every call returns. *)
CallsReturn == \A t \in Threads : (pc[t] # "idle") ~> (pc[t] = "idle")
===============================================================================
