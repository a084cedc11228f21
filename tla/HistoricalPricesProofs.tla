------------------------ MODULE HistoricalPricesProofs ------------------------
(***************************************************************************)
(* Theorems about HistoricalPrices, for any interval, months of any length *)
(* included, any range and any size of a page, while candles open.         *)
(***************************************************************************)
EXTENDS HistoricalPrices, FiniteSetTheorems, WellFoundedInduction, TLAPS

(* Of some candles one is the oldest. *)
LEMMA OldestExists ==
  ASSUME NEW S \in SUBSET Nat, S # {}
  PROVE  \E r \in S : \A s \in S : r <= s
<1>1. PICK r \in S : \A s \in S : <<s, r>> \notin OpToRel(<, Nat)
  BY NatLessThanWellFounded, WFMin, Zenon
<1>2. \A s \in S : ~(s < r)
  BY <1>1 DEF OpToRel
<1> QED
  BY <1>2

(* Of finitely many candles one is the newest: the one with the fewest after it. *)
LEMMA NewestExists ==
  ASSUME NEW S \in SUBSET Nat, IsFiniteSet(S), S # {}
  PROVE  \E r \in S : \A s \in S : s <= r
<1> DEFINE newer(r) == {s \in S : r < s}
           sets == {newer(r) : r \in S}
<1>1. sets \subseteq FiniteSubsetsOf(S) /\ sets # {}
  <2>1. sets \subseteq SUBSET S /\ sets # {}
    OBVIOUS
  <2> QED
    BY <2>1, FS_FiniteSubsetsOfFinite, Zenon
<1> HIDE DEF sets
<1>2. PICK least \in sets : \A other \in sets : <<other, least>> \notin StrictSubsetOrdering(S)
  BY <1>1, FS_StrictSubsetOrderingWellFounded, WFMin, Zenon
<1> USE DEF sets
<1>3. PICK r \in S : least = newer(r)
  BY <1>2
<1>4. ASSUME NEW s \in S, r < s PROVE FALSE
  <2>1. s \in newer(r) /\ s \notin newer(s) /\ \A x \in S : s < x => r < x
    BY <1>4
  <2>2. <<newer(s), newer(r)>> \in StrictSubsetOrdering(S)
    BY <2>1, Zenon DEF StrictSubsetOrdering
  <2> QED
    BY <1>2, <1>3, <2>2, Zenon
<1> QED
  BY <1>4

(* There are finitely many candles, and an interval has a length. *)
LEMMA CandleFacts ==
  ASSUME interval \in CandleInterval
  PROVE  /\ Candles \subseteq Nat /\ IsFiniteSet(Candles)
         /\ Interval \in Nat \ {0}
<1>1. interval \in Nat \ {0}
  BY DEF CandleInterval, Day, Month
<1>2. Interval \in Nat \ {0}
  BY <1>1 DEF Interval, numberOfMsForCandleInterval, Day
<1>3. CASE interval = Month
  BY <1>2, <1>3, ConstantsAssumption DEF Candles
<1>4. CASE interval # Month
  <2> DEFINE opens == {n * interval : n \in 0..NumCandles - 1}
             end == (NumCandles - 1) * interval
  <2>1. end \in Int
    BY <1>1, ConstantsAssumption
  <2>2. opens \subseteq 0..end
    <3> SUFFICES ASSUME NEW n \in 0..NumCandles - 1
                 PROVE  n * interval \in 0..end
      OBVIOUS
    <3>1. /\ n \in Nat /\ interval \in Nat /\ NumCandles - 1 \in Nat
          /\ n <= NumCandles - 1
      BY <1>1, ConstantsAssumption
    <3> QED
      BY <3>1
  <2>3. IsFiniteSet(opens) /\ opens \subseteq Nat
    <3> HIDE DEF opens, end
    <3>1. IsFiniteSet(0..end)
      BY <2>1, 0 \in Int, FS_Interval, Zenon
    <3>2. IsFiniteSet(opens)
      BY <2>2, <3>1, FS_Subset, Zenon
    <3> QED
      BY <2>1, <2>2, <3>2
  <2> QED
    BY <1>2, <1>4, <2>3 DEF Candles
<1> QED
  BY <1>3, <1>4

(* A step that keeps the interval keeps what it determines. *)
LEMMA SameCandles ==
  ASSUME interval' = interval
  PROVE  Candles' = Candles /\ AfterShort' = AfterShort
<1>1. Candles' = Candles /\ Interval' = Interval
  BY DEF Candles, Interval
<1> QED
  BY <1>1 DEF AfterShort

(* The last candle of a page is its newest. *)
LEMMA LargestIsLargest ==
  ASSUME interval \in CandleInterval, NEW S \in SUBSET Candles, S # {}
  PROVE  Largest(S) \in S /\ \A c \in S : c <= Largest(S)
<1>1. S \in SUBSET Nat /\ IsFiniteSet(S)
  BY CandleFacts, FS_Subset
<1> QED
  BY <1>1, NewestExists DEF Largest

(* A page of candles has some when there are some; what it leaves out is      *)
(* newer than all it brings; and it leaves out nothing beside a single candle *)
(* unless one is its limit.                                                   *)
LEMMA FirstPageIsOldest ==
  ASSUME interval \in CandleInterval, NEW S \in SUBSET Candles, limit \in Nat \ {0}
  PROVE  /\ FirstPage(S) \subseteq S
         /\ S # {} => FirstPage(S) # {}
         /\ \A c \in S \ FirstPage(S), d \in FirstPage(S) : d < c
         /\ limit # 1 => \A c \in S : FirstPage(S) = {c} => S = {c}
<1> DEFINE older(c) == {d \in S : d < c}
<1>1. FirstPage(S) = {c \in S : Cardinality(older(c)) < limit}
  BY DEF FirstPage
<1>2. S \in SUBSET Nat /\ IsFiniteSet(S)
  BY CandleFacts, FS_Subset
<1>3. \A c \in S : IsFiniteSet(older(c)) /\ Cardinality(older(c)) \in Nat
  BY <1>2, FS_Subset, FS_CardinalityType
<1>4. S # {} => FirstPage(S) # {}
  <2> SUFFICES ASSUME S # {} PROVE \E c \in S : Cardinality(older(c)) < limit
    BY <1>1
  <2>1. PICK c \in S : \A d \in S : c <= d
    BY <1>2, OldestExists
  <2>2. older(c) = {}
    <3>1. \A d \in S : ~(d < c)
      BY <1>2, <2>1
    <3> QED
      BY <3>1, Zenon
  <2>3. Cardinality(older(c)) = 0
    BY <2>2, FS_EmptySet
  <2>4. Cardinality(older(c)) < limit
    BY <2>3
  <2> QED
    BY <2>1, <2>4, Zenon
<1>5. ASSUME NEW c \in S \ FirstPage(S), NEW d \in FirstPage(S) PROVE d < c
  <2>0. c \in Nat /\ d \in Nat /\ \A x \in S : x \in Nat
    BY <1>1, <1>2, Zenon
  <2> SUFFICES ASSUME c <= d PROVE FALSE
    BY <2>0
  <2>1. \A x \in S : x < c => x < d
    BY <2>0
  <2>2. older(c) \subseteq older(d)
    BY <2>1, Zenon
  <2>3. d \in S /\ Cardinality(older(d)) < limit /\ ~(Cardinality(older(c)) < limit)
    BY <1>1
  <2>4. Cardinality(older(c)) <= Cardinality(older(d))
    BY <1>3, <2>2, <2>3, FS_Subset
  <2> QED
    BY <1>3, <2>3, <2>4
<1>6. ASSUME limit # 1, NEW c \in S, FirstPage(S) = {c}, S # {c} PROVE FALSE
  <2> DEFINE rest == S \ {c}
  <2>1. rest \in SUBSET Nat /\ rest # {}
    BY <1>2, <1>6
  <2>2. PICK d \in rest : \A x \in rest : d <= x
    BY <2>1, OldestExists
  <2>3. older(d) \subseteq {c}
    <3>1. \A x \in S : x < d => x = c
      BY <1>2, <2>2
    <3> QED
      BY <3>1, Zenon
  <2>4. IsFiniteSet({c}) /\ Cardinality({c}) = 1
    BY FS_Singleton
  <2>5. Cardinality(older(d)) <= 1
    BY <2>3, <2>4, FS_Subset
  <2>6. d \in FirstPage(S)
    BY <1>1, <1>3, <1>6, <2>5
  <2> QED
    BY <1>6, <2>6
<1> QED
  BY <1>1, <1>4, <1>5, <1>6

-------------------------------------------------------------------------------
(* The invariant.                                                             *)

Arguments == start < to /\ limit \in Limits /\ start <= from /\ seen <= newest

(* While the download goes on, the caller and the writer have the candles     *)
(* before the one where the next page starts, but for months after short ones.*)
Collected ==
  pc \in {"fetch", "process"} =>
    /\ \A c \in retVal : start <= c /\ c < from
    /\ \A c \in Candles \ AfterShort : start <= c /\ c < from => c \in retVal
    /\ written = retVal

(* A page has the oldest candles from there on. *)
PageInv ==
  pc = "process" =>
    /\ page # {}
    /\ \A c \in page : from <= c /\ c <= seen
    /\ \A c \in Candles \ page : from <= c /\ c <= seen => \A d \in page : d < c
    /\ limit # 1 => \A c \in page : page = {c} => c = seen

DownloadInv == TypeOK /\ Arguments /\ Collected /\ PageInv
               /\ NoOpenCandle /\ WriterHasPrefix

(* What the pop leaves of a page: the candles from `from` on up to some       *)
(* candle, and of those up to `to` only closed ones.                          *)
LEMMA KeptIs ==
  ASSUME DownloadInv, pc = "process"
  PROVE  /\ Kept \subseteq page
         /\ \A c \in Candles, d \in Kept : from <= c /\ c <= d => c \in Kept
         /\ \A c \in Kept : c <= to => c < seen
         /\ Kept # {} => /\ Largest(Kept) \in Kept
                         /\ \A c \in Kept : c <= Largest(Kept)
         /\ Kept = {} => page = {Largest(page)}
<1> USE DEF DownloadInv
<1>1. page \in SUBSET Candles /\ page # {} /\ to \in Nat /\ Interval \in Nat \ {0}
      /\ Candles \subseteq Nat /\ from \in Nat /\ seen \in Nat
      /\ interval \in CandleInterval
  BY CandleFacts DEF TypeOK, PageInv
<1>2. Largest(page) \in page /\ \A c \in page : c <= Largest(page)
  BY <1>1, LargestIsLargest
<1>3. Kept \subseteq page
  BY DEF Kept
<1>4. ASSUME NEW c \in Candles, NEW d \in Kept, from <= c, c <= d PROVE c \in Kept
  <2>1. d \in page /\ d <= Largest(page) /\ d <= seen
    BY <1>2, <1>3 DEF PageInv
  <2>2. c \in page
    <3> SUFFICES ASSUME c \notin page PROVE FALSE
      OBVIOUS
    <3>1. c <= seen
      BY <1>1, <1>4, <2>1
    <3>2. d < c
      BY <1>4, <2>1, <3>1 DEF PageInv
    <3> QED
      BY <1>1, <1>4, <2>1, <3>2
  <2>3. c = Largest(page) => d = c
    BY <1>1, <1>4, <2>1
  <2> QED
    BY <2>2, <2>3 DEF Kept
<1>5. ASSUME NEW c \in Kept, c <= to PROVE c < seen
  <2>1. c \in page /\ c <= Largest(page) /\ Largest(page) <= seen
    BY <1>2, <1>3 DEF PageInv
  <2>2. c # Largest(page)
    BY <1>1, <1>5, <2>1 DEF Kept
  <2>3. c \in Nat /\ Largest(page) \in Nat
    BY <1>1, <1>2, <2>1
  <2> QED
    BY <1>1, <2>1, <2>2, <2>3
<1>6. Kept # {} => Largest(Kept) \in Kept /\ \A c \in Kept : c <= Largest(Kept)
  BY <1>1, <1>3, LargestIsLargest
<1>7. Kept = {} => page = {Largest(page)}
  BY <1>1, <1>2 DEF Kept
<1> QED
  BY <1>3, <1>4, <1>5, <1>6, <1>7

(* A download begins with nothing collected. *)
LEMMA DownloadInit == Init => DownloadInv
<1> SUFFICES ASSUME Init PROVE DownloadInv
  OBVIOUS
<1>1. /\ pc = "fetch" /\ start \in Nat /\ to \in Nat /\ limit \in Nat /\ limit \in Limits
      /\ start < to /\ from = start /\ newest \in Candles /\ seen = newest /\ newest \in Nat
      /\ page = {} /\ retVal = {} /\ written = {} /\ interval \in CandleInterval
  BY ConstantsAssumption, CandleFacts DEF Init, isValidCandleResolution
<1>2. TypeOK
  BY <1>1 DEF TypeOK
<1>3. Arguments
  BY <1>1 DEF Arguments
<1>4. Collected
  <2>1. \A c \in Candles : ~(start <= c /\ c < from)
    BY <1>1, CandleFacts
  <2> QED
    BY <1>1, <2>1 DEF Collected
<1> QED
  BY <1>1, <1>2, <1>3, <1>4 DEF DownloadInv, PageInv, NoOpenCandle, WriterHasPrefix

(* A page that arrives has the oldest candles from its start on. *)
LEMMA FetchKeeps == DownloadInv /\ fetch => DownloadInv'
<1> SUFFICES ASSUME DownloadInv, fetch PROVE DownloadInv'
  OBVIOUS
<1> USE DEF DownloadInv
<1>1. /\ pc = "fetch" /\ page' = FirstPage(Available) /\ seen' = newest
      /\ pc' = IF page' = {} THEN "done" ELSE "process"
      /\ UNCHANGED <<interval, start, to, limit, from, retVal, written, newest>>
  BY DEF fetch, arguments
<1>s. Candles' = Candles /\ AfterShort' = AfterShort
  BY <1>1, SameCandles
<1>2. /\ newest \in Nat /\ from \in Nat /\ limit \in Nat \ {0} /\ Candles \subseteq Nat
      /\ newest \in Candles /\ seen \in Candles /\ interval \in CandleInterval
  BY ConstantsAssumption, CandleFacts DEF TypeOK, Arguments
<1>3. Available \subseteq Candles
  BY DEF Available
<1>4. /\ page' \subseteq Available
      /\ \A c \in Available \ page', d \in page' : d < c
      /\ limit # 1 => \A c \in Available : page' = {c} => Available = {c}
  BY <1>1, <1>2, <1>3, FirstPageIsOldest
<1>5. TypeOK'
  BY <1>1, <1>s, <1>2, <1>3, <1>4 DEF TypeOK
<1>6. Arguments' /\ Collected' /\ NoOpenCandle' /\ WriterHasPrefix'
  BY <1>1, <1>s, <1>2 DEF Arguments, Collected, NoOpenCandle, WriterHasPrefix, Wanted
<1>7. PageInv'
  <2> SUFFICES ASSUME page' # {}
               PROVE  /\ \A c \in page' : from <= c /\ c <= newest
                      /\ \A c \in Candles \ page' :
                           from <= c /\ c <= newest => \A d \in page' : d < c
                      /\ limit # 1 => \A c \in page' : page' = {c} => c = newest
    BY <1>1, <1>s DEF PageInv
  <2>1. \A c \in page' : from <= c /\ c <= newest
    BY <1>4 DEF Available
  <2>2. \A c \in Candles \ page' : from <= c /\ c <= newest => \A d \in page' : d < c
    BY <1>4 DEF Available
  <2>3. ASSUME limit # 1, NEW c \in page', page' = {c} PROVE c = newest
    <3>1. Available = {c} /\ from <= c /\ c <= newest /\ c \in Nat
      BY <1>2, <1>3, <1>4, <2>1, <2>3
    <3>2. newest \in Available
      BY <1>2, <3>1 DEF Available
    <3> QED
      BY <3>1, <3>2
  <2> QED
    BY <2>1, <2>2, <2>3
<1> QED
  BY <1>5, <1>6, <1>7

(* The page that ends a download leaves what is to be there. *)
LEMMA LastPageKeeps == DownloadInv /\ lastPage => DownloadInv'
<1> SUFFICES ASSUME DownloadInv, lastPage PROVE DownloadInv'
  OBVIOUS
<1> USE DEF DownloadInv
<1>1. /\ pc = "process" /\ pc' = "done"
      /\ retVal' = retVal \union {c \in Kept : c <= to}
      /\ written' = written \union Kept
      /\ UNCHANGED <<interval, start, to, limit, from, page, newest, seen>>
  BY DEF lastPage, arguments
<1>s. Candles' = Candles /\ AfterShort' = AfterShort
  BY <1>1, SameCandles
<1>2. /\ Kept \subseteq page
      /\ \A c \in Candles, d \in Kept : from <= c /\ c <= d => c \in Kept
      /\ \A c \in Kept : c <= to => c < seen
  BY <1>1, KeptIs
<1>3. /\ start \in Nat /\ from \in Nat /\ seen \in Nat /\ newest \in Nat /\ Candles \subseteq Nat
      /\ start <= from /\ seen <= newest /\ page \subseteq Candles
      /\ \A c \in page : from <= c
      /\ \A c \in written : c < from /\ c \in Candles
      /\ \A c \in Candles \ AfterShort : start <= c /\ c < from => c \in written
  BY <1>1, CandleFacts DEF TypeOK, Arguments, PageInv, Collected
<1>4. TypeOK' /\ Arguments' /\ Collected' /\ PageInv'
  BY <1>1, <1>s, <1>2, <1>3 DEF TypeOK, Arguments, Collected, PageInv
<1>5. NoOpenCandle'
  <2> SUFFICES ASSUME NEW c \in Kept, c <= to
               PROVE  c \in Candles /\ start <= c /\ c < newest
    BY <1>1, <1>s DEF NoOpenCandle, Wanted
  <2>1. c \in Candles /\ from <= c /\ c < seen /\ c \in Nat
    BY <1>2, <1>3
  <2> QED
    BY <1>3, <2>1
<1>6. WriterHasPrefix'
  <2> SUFFICES ASSUME NEW c \in written \union Kept, NEW d \in Candles \ AfterShort,
                      start <= d, d < c
               PROVE  d \in written \union Kept
    BY <1>1, <1>s DEF WriterHasPrefix
  <2>1. c \in Nat /\ d \in Nat
    BY <1>2, <1>3
  <2>2. CASE d < from
    BY <1>3, <2>2
  <2>3. CASE ~(d < from)
    <3>1. c \in Kept
      BY <1>3, <2>1, <2>3
    <3>2. from <= d /\ d <= c
      BY <1>3, <2>1, <2>3
    <3> QED
      BY <1>2, <3>1, <3>2
  <2> QED
    BY <2>2, <2>3
<1> QED
  BY <1>4, <1>5, <1>6

(* The next page starts where the last one's candles end. *)
LEMMA NextPageKeeps == DownloadInv /\ nextPage => DownloadInv'
<1> SUFFICES ASSUME DownloadInv, nextPage PROVE DownloadInv'
  OBVIOUS
<1> USE DEF DownloadInv
<1> DEFINE last == Largest(Kept)
<1>1. /\ pc = "process" /\ pc' = "fetch" /\ Kept # {} /\ last <= to
      /\ retVal' = retVal \union Kept /\ written' = written \union Kept
      /\ from' = last + Interval
      /\ UNCHANGED <<interval, start, to, limit, page, newest, seen>>
  BY DEF nextPage, AfterLast, arguments
<1>s. Candles' = Candles /\ AfterShort' = AfterShort
  BY <1>1, SameCandles
<1>2. /\ Kept \subseteq page
      /\ \A c \in Candles, d \in Kept : from <= c /\ c <= d => c \in Kept
      /\ \A c \in Kept : c <= to => c < seen
      /\ last \in Kept /\ \A c \in Kept : c <= last
  BY <1>1, KeptIs
<1> HIDE DEF last
<1>3. /\ start \in Nat /\ to \in Nat /\ from \in Nat /\ seen \in Nat /\ newest \in Nat
      /\ Candles \subseteq Nat /\ Interval \in Nat \ {0}
      /\ start <= from /\ seen <= newest /\ page \subseteq Candles
      /\ \A c \in page : from <= c
      /\ \A c \in retVal : start <= c /\ c < from /\ c \in Candles
      /\ \A c \in Candles \ AfterShort : start <= c /\ c < from => c \in retVal
      /\ written = retVal
  BY <1>1, CandleFacts DEF TypeOK, Arguments, PageInv, Collected
<1>4. last \in Candles /\ last \in Nat /\ from <= last /\ last + Interval \in Nat
  BY <1>2, <1>3
<1>5. TypeOK'
  BY <1>1, <1>s, <1>2, <1>3, <1>4 DEF TypeOK
<1>6. Arguments' /\ PageInv'
  BY <1>1, <1>3, <1>4 DEF Arguments, PageInv
<1>7. ASSUME NEW c \in Candles \ AfterShort, start <= c, c < from' PROVE c \in retVal'
  <2>1. c <= last
    <3>1. ~(last < c)
      BY <1>1, <1>4, <1>7 DEF AfterShort
    <3> QED
      BY <1>3, <1>4, <3>1
  <2>2. CASE c < from
    BY <1>1, <1>3, <1>7, <2>2
  <2>3. CASE ~(c < from)
    <3>1. from <= c
      BY <1>3, <2>3
    <3> QED
      BY <1>1, <1>2, <2>1, <3>1
  <2> QED
    BY <2>2, <2>3
<1>8. Collected'
  <2>1. ASSUME NEW c \in retVal' PROVE start <= c /\ c < from'
    <3>1. CASE c \in retVal
      <4>1. c \in Candles /\ start <= c /\ c < from /\ c \in Nat
        BY <1>3, <3>1
      <4> QED
        BY <1>1, <1>3, <1>4, <4>1
    <3>2. CASE c \in Kept
      <4>1. c \in Candles /\ from <= c /\ c <= last /\ c \in Nat
        BY <1>2, <1>3, <3>2
      <4> QED
        BY <1>1, <1>3, <1>4, <4>1
    <3> QED
      BY <1>1, <2>1, <3>1, <3>2
  <2> QED
    BY <1>1, <1>s, <1>3, <1>7, <2>1 DEF Collected
<1>9. NoOpenCandle'
  <2> SUFFICES ASSUME NEW c \in Kept
               PROVE  c \in Candles /\ start <= c /\ c <= to /\ c < newest
    BY <1>1, <1>s DEF NoOpenCandle, Wanted
  <2>1. c \in Candles /\ c \in Nat /\ from <= c /\ c <= last
    BY <1>2, <1>3
  <2>2. c <= to
    BY <1>1, <1>3, <1>4, <2>1
  <2>3. c < seen
    BY <1>2, <2>2
  <2> QED
    BY <1>3, <2>1, <2>2, <2>3
<1>10. WriterHasPrefix'
  <2> SUFFICES ASSUME NEW c \in retVal', NEW d \in Candles \ AfterShort, start <= d, d < c
               PROVE  d \in retVal'
    BY <1>1, <1>s, <1>3 DEF WriterHasPrefix
  <2>1. c < from' /\ c \in Candles
    BY <1>1, <1>2, <1>3, <1>8 DEF Collected
  <2>2. d < from'
    BY <1>1, <1>3, <1>4, <2>1
  <2> QED
    BY <1>7, <2>2
<1> QED
  BY <1>5, <1>6, <1>8, <1>9, <1>10

(* A candle that opens meanwhile spoils nothing. *)
LEMMA MarketKeeps == DownloadInv /\ candleOpens => DownloadInv'
<1> SUFFICES ASSUME DownloadInv, candleOpens PROVE DownloadInv'
  OBVIOUS
<1> USE DEF DownloadInv
<1>1. /\ newest' \in Candles /\ newest < newest'
      /\ UNCHANGED <<pc, interval, start, to, limit, from, page, retVal, written, seen>>
  BY DEF candleOpens, arguments
<1>s. Candles' = Candles /\ AfterShort' = AfterShort
  BY <1>1, SameCandles
<1>2. newest \in Nat /\ newest' \in Nat /\ seen \in Nat /\ Candles \subseteq Nat
  BY <1>1, CandleFacts DEF TypeOK
<1>3. NoOpenCandle'
  <2>1. \A c \in retVal : c \in Wanted /\ c \in Nat /\ c < newest
    BY <1>2 DEF NoOpenCandle, Wanted
  <2> QED
    BY <1>1, <1>s, <1>2, <2>1 DEF NoOpenCandle, Wanted
<1>4. Arguments'
  BY <1>1, <1>2 DEF Arguments
<1> QED
  BY <1>1, <1>s, <1>3, <1>4 DEF TypeOK, Collected, PageInv, WriterHasPrefix

(* Every step keeps the invariant. *)
LEMMA DownloadStep == DownloadInv /\ [Next]_vars => DownloadInv'
<1> SUFFICES ASSUME DownloadInv, [Next]_vars PROVE DownloadInv'
  OBVIOUS
<1>1. CASE \/ stopEmpty \/ fetchFails \/ UNCHANGED vars
  <2>1. /\ pc' \in {pc, "done", "failed"}
        /\ UNCHANGED <<interval, start, to, limit, from, page, retVal, written, newest, seen>>
    BY <1>1 DEF stopEmpty, fetchFails, vars, arguments
  <2>2. Candles' = Candles /\ AfterShort' = AfterShort
    BY <2>1, SameCandles
  <2> QED
    BY <2>1, <2>2 DEF DownloadInv, TypeOK, Arguments, Collected, PageInv, NoOpenCandle,
                WriterHasPrefix, Wanted
<1> QED
  BY <1>1, FetchKeeps, LastPageKeeps, NextPageKeeps, MarketKeeps DEF Next, process

(* The invariant of a download. *)
THEOREM DownloadInvariant == Spec => []DownloadInv
  BY DownloadInit, DownloadStep, PTL DEF Spec

-------------------------------------------------------------------------------
(* The properties.                                                            *)

(* Every variable keeps its type. *)
THEOREM TypesAlwaysOK == Spec => []TypeOK
  BY DownloadInvariant, PTL DEF DownloadInv

(* The caller never gets a candle that was still open when its page was made. *)
THEOREM NeverAnOpenCandle == Spec => []NoOpenCandle
  BY DownloadInvariant, PTL DEF DownloadInv

(* Stopped at any moment, the writer has a gap free prefix of the candles.    *)
THEOREM WriterAlwaysHasPrefix == Spec => []WriterHasPrefix
  BY DownloadInvariant, PTL DEF DownloadInv

(* Pages never overlap and come in order. *)
THEOREM PagesInOrder == Spec => []InOrder
<1>1. DownloadInv => InOrder
  <2> SUFFICES ASSUME DownloadInv, pc = "process", NEW c \in retVal, NEW d \in Kept
               PROVE  c < d
    BY DEF InOrder
  <2>1. c \in Candles /\ c < from
    BY DEF DownloadInv, Collected, TypeOK
  <2>2. d \in page /\ from <= d /\ d \in Candles
    BY KeptIs DEF DownloadInv, PageInv, TypeOK
  <2>3. c \in Nat /\ d \in Nat /\ from \in Nat
    BY <2>1, <2>2, CandleFacts DEF DownloadInv, TypeOK
  <2> QED
    BY <2>1, <2>2, <2>3
<1> QED
  BY <1>1, DownloadInvariant, PTL

(* No pop, and no candle that opens meanwhile, loses a closed candle.  Pages  *)
(* of one candle are excluded: it would be popped, and the download over.     *)
LEMMA CompleteStep ==
  ASSUME 1 \notin Limits
  PROVE  DownloadInv /\ Complete /\ [Next]_vars => Complete'
<1> SUFFICES ASSUME DownloadInv, Complete, [Next]_vars PROVE Complete'
  OBVIOUS
<1> USE DEF DownloadInv
<1>0. /\ Candles \subseteq Nat /\ to \in Nat /\ from \in Nat /\ seen \in Nat /\ newest \in Nat
      /\ seen \in Candles /\ newest \in Candles /\ start \in Nat
      /\ interval \in CandleInterval
  BY CandleFacts DEF TypeOK
<1>s. Candles' = Candles /\ AfterShort' = AfterShort
  <2>1. interval' = interval
    BY DEF Next, process, fetch, fetchFails, stopEmpty, lastPage, nextPage, candleOpens,
           arguments, vars
  <2> QED
    BY <2>1, SameCandles
<1>1. CASE fetch
  <2> SUFFICES ASSUME page' = {}, NEW c \in Candles \ AfterShort, start <= c, c < newest
               PROVE  c \in retVal
    BY <1>1, <1>s DEF fetch, arguments, Complete, Wanted
  <2>1. Available = {}
    <3>1. limit \in Nat \ {0} /\ Available \in SUBSET Candles
      BY ConstantsAssumption DEF Arguments, Available
    <3> QED
      BY <1>0, <1>1, <3>1, FirstPageIsOldest DEF fetch
  <2>2. newest < from
    BY <1>0, <2>1 DEF Available
  <2>3. c < from
    BY <1>0, <2>2
  <2> QED
    BY <1>1, <2>3 DEF fetch, Collected
<1>2. CASE stopEmpty
  <2> SUFFICES ASSUME NEW c \in Candles \ AfterShort, start <= c, c < seen
               PROVE  c \in retVal
    BY <1>2, <1>s DEF stopEmpty, arguments, Complete, Wanted
  <2>1. pc = "process" /\ Kept = {}
    BY <1>2 DEF stopEmpty
  <2> DEFINE top == Largest(page)
  <2>2. page = {top} /\ top \in page
    BY <2>1, KeptIs
  <2> HIDE DEF top
  <2>3. top = seen
    BY <2>1, <2>2 DEF PageInv, Arguments
  <2>4. c < from
    <3> SUFFICES ASSUME from <= c PROVE FALSE
      BY <1>0
    <3>1. c \notin page /\ c <= seen
      BY <1>0, <2>2, <2>3
    <3>2. top < c
      BY <2>1, <2>2, <3>1 DEF PageInv
    <3> QED
      BY <1>0, <2>3, <3>2
  <2> QED
    BY <2>1, <2>4 DEF Collected
<1>3. CASE lastPage
  <2>1. /\ pc = "process" /\ Kept # {} /\ to < Largest(Kept)
        /\ retVal' = retVal \union {c \in Kept : c <= to}
        /\ UNCHANGED <<start, to, seen>>
    BY <1>3 DEF lastPage, arguments
  <2> SUFFICES ASSUME NEW c \in Candles \ AfterShort, start <= c, c <= to
               PROVE  c \in retVal'
    BY <1>s, <2>1 DEF Complete, Wanted
  <2> DEFINE last == Largest(Kept)
  <2>2. /\ last \in Kept /\ Kept \subseteq page
        /\ \A d \in Candles, e \in Kept : from <= d /\ d <= e => d \in Kept
    BY <2>1, KeptIs
  <2>3. last \in Nat /\ to < last
    BY <1>0, <2>1, <2>2 DEF TypeOK
  <2> HIDE DEF last
  <2>4. CASE c < from
    BY <2>1, <2>4 DEF Collected
  <2>5. CASE ~(c < from)
    <3>1. from <= c /\ c <= last
      BY <1>0, <2>3, <2>5
    <3> QED
      BY <2>1, <2>2, <3>1
  <2> QED
    BY <2>4, <2>5
<1>4. CASE nextPage \/ fetchFails
  BY <1>4 DEF nextPage, fetchFails, Complete
<1>5. CASE candleOpens \/ UNCHANGED vars
  BY <1>5, <1>s DEF candleOpens, vars, arguments, Complete, Wanted
<1> QED
  BY <1>1, <1>2, <1>3, <1>4, <1>5 DEF Next, process

(* A download that ends normally has every closed candle it was asked for,    *)
(* months after short ones excepted, if its pages are not of one candle.      *)
THEOREM DownloadComplete ==
  ASSUME 1 \notin Limits
  PROVE  Spec => []Complete
<1>1. Init => Complete
  BY DEF Init, Complete
<1> QED
  BY <1>1, CompleteStep, DownloadInvariant, PTL DEF Spec

-------------------------------------------------------------------------------
(* The requests are bounded by the range. *)

(* Each page starts after the one before it, and at most an interval after    *)
(* the end of the range.                                                      *)
THEOREM PagesAlwaysMoveOn == Spec => PagesMoveOn
<1>1. ASSUME DownloadInv, [Next]_vars, pc = "process", pc' = "fetch"
      PROVE  from < from' /\ from' <= to + Interval
  <2>1. nextPage
    BY <1>1 DEF Next, process, fetch, fetchFails, stopEmpty, lastPage, candleOpens, vars
  <2> DEFINE last == Largest(Kept)
  <2>2. last \in Kept /\ last <= to /\ from' = last + Interval
    BY <1>1, <2>1, KeptIs DEF nextPage, AfterLast
  <2>3. last \in Candles /\ from <= last
    BY <1>1, <2>2, KeptIs DEF DownloadInv, TypeOK, PageInv
  <2>4. /\ last \in Nat /\ Interval \in Nat \ {0} /\ from \in Nat /\ to \in Nat
    BY <1>1, <2>3, CandleFacts DEF DownloadInv, TypeOK
  <2> HIDE DEF last
  <2> QED
    BY <2>2, <2>3, <2>4
<1> QED
  BY <1>1, DownloadInvariant, PTL DEF Spec, PagesMoveOn

-------------------------------------------------------------------------------
(* A download implements Delivery. *)

Delivers == Result!Next \/ UNCHANGED Result!vars

(* Every step is a step of Delivery or leaves its variables alone. *)
LEMMA StepDelivers ==
  DownloadInv /\ NoOpenCandle' /\ Complete' /\ [Next]_vars => Delivers
<1> SUFFICES ASSUME DownloadInv, NoOpenCandle', Complete', [Next]_vars PROVE Delivers
  OBVIOUS
<1> USE DEF DownloadInv
<1>0. /\ Candles \subseteq Nat /\ to \in Nat /\ from \in Nat /\ seen \in Nat /\ newest \in Nat
      /\ start \in Nat /\ interval \in CandleInterval
  BY CandleFacts DEF TypeOK
<1>s. Wanted' = Wanted /\ AfterShort' = AfterShort
  <2>1. UNCHANGED <<interval, start, to>>
    BY DEF Next, process, fetch, fetchFails, stopEmpty, lastPage, nextPage, candleOpens,
           arguments, vars
  <2> QED
    BY <2>1, SameCandles DEF Wanted
<1>c. Closed \subseteq Closed' /\ retVal' \subseteq Closed'
  <2>1. newest' \in Nat /\ (newest' = newest \/ newest < newest')
    <3>1. Candles' \subseteq Nat
      BY <1>0, SameCandles DEF Next, process, fetch, fetchFails, stopEmpty, lastPage,
         nextPage, candleOpens, arguments, vars
    <3> QED
      BY <1>0, <3>1 DEF Next, process, fetch, fetchFails, stopEmpty, lastPage, nextPage,
         candleOpens, vars
  <2>2. \A c \in Wanted : c \in Nat
    BY <1>0 DEF Wanted
  <2>3. \A c \in Wanted : c < newest => c < newest'
    BY <1>0, <2>1, <2>2
  <2> QED
    BY <1>s, <2>3 DEF Closed, NoOpenCandle
<1>1. ASSUME pc \in {"fetch", "process"}, pc' \in {"process", "done", "failed"},
             retVal' = retVal, seen <= seen', seen' \in Nat
      PROVE  Delivers
  <2>1. Owed \subseteq Owed'
    <3> SUFFICES ASSUME NEW c \in Wanted \ AfterShort, c < seen PROVE c < seen'
      BY <1>s DEF Owed
    <3>1. c \in Nat
      BY <1>0 DEF Wanted
    <3> QED
      BY <1>0, <1>1, <3>1
  <2>2. pc' = "done" => Owed' \subseteq retVal'
    BY DEF Complete, Owed
  <2>3. Result!Deliver
    BY <1>1 DEF Result!Deliver, Result!InOrder, Result!NoGap
  <2> QED
    BY <1>1, <1>c, <2>1, <2>2, <2>3 DEF Delivers, Result!Next, Status
<1>2. ASSUME NEW new \in SUBSET Kept, pc = "process", pc' \in {"fetch", "done"},
             retVal' = retVal \union new, seen' = seen, \A c \in new : c <= to,
             \A c \in Kept : c <= to => c \in new
      PROVE  Delivers
  <2>1. Owed' = Owed
    BY <1>s, <1>2 DEF Owed
  <2>2. pc' = "done" => Owed' \subseteq retVal'
    BY DEF Complete, Owed
  <2>3. /\ Kept \subseteq page /\ page \subseteq Candles /\ \A d \in page : from <= d
        /\ \A c \in Candles, d \in Kept : from <= c /\ c <= d => c \in Kept
    BY <1>2, KeptIs DEF TypeOK, PageInv
  <2>4. \A d \in new : d \in Nat /\ d \in Candles /\ from <= d /\ d <= to
    BY <1>0, <1>2, <2>3
  <2>5. new \subseteq Closed'
    BY <1>c, <1>2
  <2>6. ASSUME NEW c \in retVal, NEW d \in new PROVE c < d
    <3>1. c \in Candles /\ c < from
      BY <1>2 DEF Collected, TypeOK
    <3> QED
      BY <1>0, <2>4, <3>1
  <2>7. ASSUME NEW c \in Owed, NEW d \in new, c < d PROVE c \in retVal \union new
    <3>1. c \in Candles \ AfterShort /\ start <= c /\ c <= to /\ c \in Nat
      BY <1>0 DEF Owed, Wanted
    <3>2. CASE c < from
      BY <1>2, <3>1, <3>2 DEF Collected
    <3>3. CASE ~(c < from)
      <4>1. from <= c /\ c <= d
        BY <1>0, <2>4, <2>7, <3>1, <3>3
      <4>2. c \in Kept
        BY <2>3, <3>1, <4>1
      <4> QED
        BY <1>2, <3>1, <4>2
    <3> QED
      BY <3>2, <3>3
  <2>8. Result!Deliver
    <3>1. retVal' \ retVal \subseteq new
      BY <1>2
    <3> QED
      BY <1>2, <2>5, <2>6, <2>7, <3>1
      DEF Result!Deliver, Result!InOrder, Result!NoGap, Result!Before
  <2> QED
    BY <1>2, <1>c, <2>1, <2>2, <2>8 DEF Delivers, Result!Next, Status
<1>3. CASE fetch
  <2>1. pc = "fetch" /\ pc' \in {"process", "done"} /\ retVal' = retVal /\ seen' = newest
    BY <1>3 DEF fetch
  <2> QED
    BY <1>0, <1>1, <2>1 DEF Arguments
<1>4. CASE fetchFails \/ stopEmpty
  <2>1. pc \in {"fetch", "process"} /\ pc' \in {"failed", "done"} /\ UNCHANGED <<retVal, seen>>
    BY <1>4 DEF fetchFails, stopEmpty
  <2> QED
    BY <1>0, <1>1, <2>1
<1>5. CASE lastPage
  <2> DEFINE new == {c \in Kept : c <= to}
  <2>1. pc = "process" /\ pc' = "done" /\ retVal' = retVal \union new /\ seen' = seen
    BY <1>5 DEF lastPage
  <2>2. /\ new \in SUBSET Kept /\ \A c \in new : c <= to
        /\ \A c \in Kept : c <= to => c \in new
    OBVIOUS
  <2> HIDE DEF new
  <2> QED
    BY <1>2, <2>1, <2>2
<1>6. CASE nextPage
  <2> DEFINE last == Largest(Kept)
  <2>1. /\ pc = "process" /\ pc' = "fetch" /\ retVal' = retVal \union Kept /\ seen' = seen
        /\ Kept # {} /\ last <= to
    BY <1>6 DEF nextPage
  <2>2. /\ Kept \subseteq page /\ page \subseteq Candles
        /\ last \in Kept /\ \A c \in Kept : c <= last
    BY <2>1, KeptIs DEF TypeOK
  <2> HIDE DEF last
  <2>3. \A c \in Kept : c <= to
    <3>1. \A c \in Kept : c \in Nat
      BY <1>0, <2>2
    <3> QED
      BY <1>0, <2>1, <2>2, <3>1
  <2> QED
    BY <1>2, <2>1, <2>3
<1>7. CASE candleOpens
  <2>1. pc \in {"fetch", "process"} /\ UNCHANGED <<pc, retVal, seen>>
    BY <1>7 DEF candleOpens
  <2>2. Owed' = Owed
    BY <1>s, <2>1 DEF Owed
  <2>3. Result!Deliver
    BY <2>1 DEF Result!Deliver, Result!InOrder, Result!NoGap
  <2> QED
    BY <1>c, <2>1, <2>2, <2>3 DEF Delivers, Result!Next, Status
<1>8. CASE UNCHANGED vars
  <2>1. UNCHANGED <<pc, retVal, seen, newest>>
    BY <1>8 DEF vars
  <2> QED
    BY <1>s, <2>1 DEF Delivers, Result!vars, Owed, Closed, Status
<1> QED
  BY <1>3, <1>4, <1>5, <1>6, <1>7, <1>8 DEF Next, process

(* The caller is never left with a gap: every step of a download is a step of *)
(* Delivery, whatever months, ranges, sizes of pages and moves of the market. *)
THEOREM DownloadImplementsDelivery ==
  ASSUME 1 \notin Limits
  PROVE  Spec => ImplementsDelivery
<1>1. Init => Result!Init
  BY DEF Init, Result!Init, Status
<1>2. DownloadInv /\ DownloadInv' /\ Complete' /\ [Next]_vars
        => [Result!Next]_(Result!vars)
  BY StepDelivers DEF Delivers, DownloadInv
<1> QED
  BY <1>1, <1>2, DownloadInvariant, DownloadComplete, PTL
  DEF Spec, ImplementsDelivery, Result!Spec
===============================================================================
