--------------------------- MODULE InstrumentsProofs ---------------------------
(***************************************************************************)
(* Theorems about Instruments, for any threads, categories and number of   *)
(* symbols: whoever reloads or replaces the cache, it holds one listing.   *)
(***************************************************************************)
EXTENDS Instruments, TLAPS

(* A category, an instrument asked for, or a list put in. *)
Whole(S) == \/ S \in given
            \/ \E c \in Categories : S = Listing(c, All)
            \/ \E i \in asked : S = Listing(i[1], i[2])

(* The pages of a query up to the next cursor; 0 when there is none. *)
Fetched(c, s, next) ==
  {c} \X (IF next = 0 THEN IF s = All THEN Symbols ELSE {s}
          ELSE IF s = All THEN {n \in Symbols : n < next} ELSE {})

(* What a thread has fetched is what its cursor says, the cursor of a query   *)
(* for one symbol is that symbol, which was asked for.                        *)
FetchInv ==
  \A t \in Threads :
    IF pc[t] # "fetch" THEN temp[t] = {} ELSE
    /\ temp[t] = Fetched(category[t], symbol[t], cursor[t])
    /\ symbol[t] # All => cursor[t] \in {0, symbol[t]}
    /\ symbol[t] # All => <<category[t], symbol[t]>> \in asked

(* A thread that is about to read the cache finds it filled by somebody. *)
CacheInv ==
  /\ cache = {} \/ Whole(cache)
  /\ \A t \in Threads : pc[t] = "get" => Whole(cache)

AnswerInv == \A t \in Threads : pc[t] = "answered" => Whole(answer[t])

InstrumentsInv == TypeOK /\ FetchInv /\ CacheInv /\ AnswerInv

(* What is whole stays whole as more is asked for and put in. *)
LEMMA WholeStays ==
  ASSUME NEW S, Whole(S), asked \subseteq asked', given \subseteq given'
  PROVE  \/ S \in given'
         \/ \E c \in Categories : S = Listing(c, All)
         \/ \E i \in asked' : S = Listing(i[1], i[2])
BY DEF Whole

(* Nothing is fetched when a query begins. *)
LEMMA FetchedNone ==
  ASSUME NEW c \in Categories, NEW s \in {All} \union Symbols
  PROVE  /\ First(s) \in Symbols /\ (s # All => First(s) = s)
         /\ Fetched(c, s, First(s)) = {}
<1>1. First(s) \in Symbols /\ First(s) # 0 /\ (s # All => First(s) = s)
  BY ConstantsAssumption DEF First, All, Symbols
<1>2. ~\E n \in Symbols : n < 1
  BY DEF Symbols
<1> QED
  BY <1>1, <1>2 DEF Fetched, First

(* A page adds the instrument the cursor named. *)
LEMMA FetchedNext ==
  ASSUME NEW t \in Threads, TypeOK, FetchInv, pc[t] = "fetch", cursor[t] # 0
  PROVE  /\ NextPage(t) \in {0} \union Symbols
         /\ symbol[t] # All => NextPage(t) = 0
         /\ temp[t] \union {<<category[t], cursor[t]>>}
              = Fetched(category[t], symbol[t], NextPage(t))
<1> DEFINE c == category[t]  s == symbol[t]  n == cursor[t]
<1>1. c \in Categories /\ s \in {All} \union Symbols /\ n \in Symbols
  BY DEF TypeOK
<1>2. temp[t] = Fetched(c, s, n) /\ (s # All => n = s)
  BY DEF FetchInv
<1>3. CASE s # All
  <2>1. NextPage(t) = 0
    BY <1>3 DEF NextPage
  <2> QED
    BY <1>1, <1>2, <1>3, <2>1 DEF Fetched
<1>4. CASE s = All /\ n < NumSymbols
  <2>1. NextPage(t) = n + 1 /\ n + 1 \in Symbols /\ n + 1 # 0
    BY <1>1, <1>4, ConstantsAssumption DEF NextPage, Symbols
  <2>2. {m \in Symbols : m < n} \union {n} = {m \in Symbols : m < n + 1}
    BY <1>1 DEF Symbols
  <2>3. temp[t] = {c} \X {m \in Symbols : m < n}
    BY <1>2, <1>4 DEF Fetched
  <2>4. Fetched(c, s, n + 1) = {c} \X {m \in Symbols : m < n + 1}
    BY <1>4, <2>1 DEF Fetched
  <2>5. temp[t] \union {<<c, n>>} = {c} \X ({m \in Symbols : m < n} \union {n})
    BY <2>3
  <2> QED
    BY <1>4, <2>1, <2>2, <2>4, <2>5
<1>5. CASE s = All /\ ~(n < NumSymbols)
  <2>1. NextPage(t) = 0
    BY <1>5 DEF NextPage
  <2>2. {m \in Symbols : m < n} \union {n} = Symbols
    BY <1>1, <1>5, ConstantsAssumption DEF Symbols
  <2> QED
    BY <1>1, <1>2, <1>5, <2>1, <2>2 DEF Fetched
<1> QED
  BY <1>3, <1>4, <1>5

LEMMA InstrumentsInit == ASSUME Init PROVE InstrumentsInv
<1>1. Some \in Categories
  BY ConstantsAssumption DEF Some
<1> QED
  BY <1>1 DEF Init, InstrumentsInv, TypeOK, FetchInv, CacheInv, AnswerInv, All

LEMMA CallKeeps ==
  ASSUME InstrumentsInv, NEW t \in Threads, NEW c \in Categories,
         NEW s \in {All} \union Symbols, NEW force \in BOOLEAN,
         getInstrumentsInfo(t, c, s, force)
  PROVE  InstrumentsInv'
<1> USE DEF InstrumentsInv, getInstrumentsInfo, args
<1>1. First(s) \in Symbols /\ (s # All => First(s) = s) /\ Fetched(c, s, First(s)) = {}
  BY FetchedNone
<1>2. asked \subseteq asked' /\ given' = given
  OBVIOUS
<1>3. TypeOK'
  <2>1. <<c, s>> \in Instrument \/ s = All
    BY DEF Instrument
  <2>2. asked' \subseteq Instrument
    BY <2>1 DEF TypeOK
  <2> QED
    BY <1>1, <2>2 DEF TypeOK
<1>4. FetchInv'
  <2> SUFFICES ASSUME NEW u \in Threads
               PROVE  IF pc'[u] # "fetch" THEN temp'[u] = {} ELSE
                      /\ temp'[u] = Fetched(category'[u], symbol'[u], cursor'[u])
                      /\ symbol'[u] # All => cursor'[u] \in {0, symbol'[u]}
                      /\ symbol'[u] # All => <<category'[u], symbol'[u]>> \in asked'
    BY DEF FetchInv
  <2>1. CASE u = t
    <3>1. temp[t] = {}
      <4>1. pc[t] # "fetch"
        OBVIOUS
      <4> QED
        BY <4>1 DEF FetchInv
    <3> QED
      BY <1>1, <2>1, <3>1 DEF TypeOK
  <2>2. CASE u # t
    BY <1>2, <2>2 DEF TypeOK, FetchInv
  <2> QED
    BY <2>1, <2>2
<1>5. CacheInv'
  <2>1. Whole(cache) => Whole(cache)'
    BY <1>2, WholeStays DEF Whole
  <2>2. \A u \in Threads : pc'[u] = "get" => Whole(cache)
    BY DEF TypeOK, CacheInv
  <2> QED
    BY <2>1, <2>2 DEF CacheInv
<1>6. AnswerInv'
  <2> SUFFICES ASSUME NEW u \in Threads, pc'[u] = "answered"
               PROVE  Whole(answer[u])'
    BY DEF AnswerInv
  <2>1. Whole(answer[u])
    BY DEF TypeOK, AnswerInv
  <2> QED
    BY <1>2, <2>1, WholeStays DEF Whole
<1> QED
  BY <1>3, <1>4, <1>5, <1>6

LEMMA FetchKeepsInv ==
  ASSUME InstrumentsInv, NEW t \in Threads, fetch(t)
  PROVE  InstrumentsInv'
<1> USE DEF InstrumentsInv, fetch, Page, history
<1>1. /\ NextPage(t) \in {0} \union Symbols
      /\ symbol[t] # All => NextPage(t) = 0
      /\ temp[t] \union {<<category[t], cursor[t]>>}
           = Fetched(category[t], symbol[t], NextPage(t))
  BY FetchedNext
<1>2. TypeOK'
  <2>1. <<category[t], cursor[t]>> \in Instrument
    BY DEF TypeOK, Instrument
  <2>2. temp' \in [Threads -> SUBSET Instrument]
    BY <2>1 DEF TypeOK
  <2> QED
    BY <1>1, <2>2 DEF TypeOK, args
<1>3. FetchInv'
  BY <1>1 DEF TypeOK, FetchInv, args
<1>4. CacheInv'
  BY DEF TypeOK, CacheInv, Whole
<1>5. AnswerInv'
  BY DEF TypeOK, AnswerInv, Whole
<1> QED
  BY <1>2, <1>3, <1>4, <1>5

LEMMA FetchFailsKeeps ==
  ASSUME InstrumentsInv, NEW t \in Threads, fetchFails(t)
  PROVE  InstrumentsInv'
<1> USE DEF InstrumentsInv, fetchFails, Reset, history
<1>1. Some \in Categories
  BY ConstantsAssumption DEF Some
<1>2. TypeOK'
  BY <1>1 DEF TypeOK, All
<1>3. FetchInv'
  BY DEF TypeOK, FetchInv
<1>4. CacheInv'
  BY DEF TypeOK, CacheInv, Whole
<1>5. AnswerInv'
  BY DEF TypeOK, AnswerInv, Whole
<1> QED
  BY <1>2, <1>3, <1>4, <1>5

LEMMA SetKeeps ==
  ASSUME InstrumentsInv, NEW t \in Threads, setInstruments(t)
  PROVE  InstrumentsInv'
<1> USE DEF InstrumentsInv, setInstruments, Reset, history
<1>1. Whole(temp[t])
  <2>1. temp[t] = Listing(category[t], symbol[t])
    BY DEF FetchInv, Fetched, Listing
  <2>2. CASE symbol[t] = All
    BY <2>1, <2>2 DEF Whole, TypeOK
  <2>3. CASE symbol[t] # All
    <3>1. <<category[t], symbol[t]>> \in asked
      BY <2>3 DEF FetchInv
    <3> QED
      BY <2>1, <3>1, Zenon DEF Whole
  <2> QED
    BY <2>2, <2>3
<1>2. Some \in Categories
  BY ConstantsAssumption DEF Some
<1>3. TypeOK'
  BY <1>2 DEF TypeOK, All
<1>4. FetchInv'
  BY DEF TypeOK, FetchInv
<1>5. CacheInv'
  BY <1>1 DEF CacheInv, Whole
<1>6. AnswerInv'
  BY DEF TypeOK, AnswerInv, Whole
<1> QED
  BY <1>3, <1>4, <1>5, <1>6

LEMMA ReplaceKeeps ==
  ASSUME InstrumentsInv, NEW t \in Threads, replace(t)
  PROVE  InstrumentsInv'
<1> USE DEF InstrumentsInv, replace, args
<1>1. PICK list \in SUBSET Instrument : cache' = list /\ given' = given \union {list}
  OBVIOUS
<1>2. TypeOK'
  BY <1>1 DEF TypeOK
<1>3. FetchInv'
  BY DEF FetchInv
<1>4. CacheInv'
  BY <1>1 DEF CacheInv, Whole
<1>5. AnswerInv'
  <2> SUFFICES ASSUME NEW u \in Threads, pc'[u] = "answered"
               PROVE  Whole(answer[u])'
    BY DEF AnswerInv
  <2>1. Whole(answer[u])
    BY DEF AnswerInv
  <2> QED
    BY <1>1, <2>1, WholeStays DEF Whole
<1> QED
  BY <1>2, <1>3, <1>4, <1>5

LEMMA GetKeeps ==
  ASSUME InstrumentsInv, NEW t \in Threads, getInstruments(t)
  PROVE  InstrumentsInv'
<1> USE DEF InstrumentsInv, getInstruments, args, history
<1>1. Whole(cache)
  BY DEF CacheInv
<1>2. TypeOK'
  BY DEF TypeOK
<1>3. FetchInv'
  BY DEF TypeOK, FetchInv
<1>4. CacheInv'
  BY DEF TypeOK, CacheInv, Whole
<1>5. AnswerInv'
  BY <1>1 DEF TypeOK, AnswerInv, Whole
<1> QED
  BY <1>2, <1>3, <1>4, <1>5

LEMMA FinishKeeps ==
  ASSUME InstrumentsInv, NEW t \in Threads, finish(t)
  PROVE  InstrumentsInv'
<1> USE DEF InstrumentsInv, finish, args, history
<1>1. TypeOK'
  BY DEF TypeOK
<1>2. FetchInv'
  BY DEF TypeOK, FetchInv
<1>3. CacheInv'
  BY DEF TypeOK, CacheInv, Whole
<1>4. AnswerInv'
  BY DEF TypeOK, AnswerInv, Whole
<1> QED
  BY <1>1, <1>2, <1>3, <1>4

LEMMA StepKeeps ==
  ASSUME InstrumentsInv, [Next]_vars
  PROVE  InstrumentsInv'
<1>1. ASSUME NEW t \in Threads, call(t) PROVE InstrumentsInv'
  BY <1>1, CallKeeps DEF call
<1>2. ASSUME NEW t \in Threads, replace(t) PROVE InstrumentsInv'
  BY <1>2, ReplaceKeeps
<1>3. ASSUME NEW t \in Threads, fetchFails(t) PROVE InstrumentsInv'
  BY <1>3, FetchFailsKeeps
<1>4. ASSUME NEW t \in Threads, GoOn(t) PROVE InstrumentsInv'
  <2>1. CASE fetch(t)
    BY <2>1, FetchKeepsInv
  <2>2. CASE setInstruments(t)
    BY <2>2, SetKeeps
  <2>3. CASE getInstruments(t)
    BY <2>3, GetKeeps
  <2>4. CASE finish(t)
    BY <2>4, FinishKeeps
  <2> QED
    BY <1>4, <2>1, <2>2, <2>3, <2>4 DEF GoOn
<1>5. CASE UNCHANGED vars
  BY <1>5 DEF vars, args, history, InstrumentsInv, TypeOK, FetchInv, CacheInv, AnswerInv, Whole
<1> QED
  BY <1>1, <1>2, <1>3, <1>4, <1>5 DEF Next

-------------------------------------------------------------------------------
(* The cache is empty, one whole listing or a list put in, and what a thread  *)
(* has fetched is what its cursor says.                                       *)
THEOREM InstrumentsInvariant == Spec => []InstrumentsInv
<1>1. Init => InstrumentsInv
  BY InstrumentsInit
<1>2. InstrumentsInv /\ [Next]_vars => InstrumentsInv'
  BY StepKeeps
<1> QED
  BY <1>1, <1>2, PTL DEF Spec

(* What getInstrumentsInfo returns is one whole listing or a list put in,     *)
(* never part of one, whichever threads reload, replace or empty the cache    *)
(* between its steps, and whichever of their requests fail.                   *)
THEOREM AnswersAlwaysWhole == Spec => []AnswersWhole
<1>1. InstrumentsInv => AnswersWhole
  BY DEF InstrumentsInv, AnswerInv, Whole, AnswersWhole
<1> QED
  BY <1>1, InstrumentsInvariant, PTL
===============================================================================
