-------------------------- MODULE FundingRatesProofs --------------------------
(***************************************************************************)
(* Theorems about FundingRates, for any rates, any range and any size of a *)
(* page, while rates are published.                                        *)
(***************************************************************************)
EXTENDS FundingRates, FiniteSetTheorems, WellFoundedInduction, TLAPS

(* Of some times one is the oldest. *)
LEMMA OldestExists ==
  ASSUME NEW S \in SUBSET Nat, S # {}
  PROVE  \E r \in S : \A s \in S : r <= s
<1>1. PICK r \in S : \A s \in S : <<s, r>> \notin OpToRel(<, Nat)
  BY NatLessThanWellFounded, WFMin, Zenon
<1>2. \A s \in S : ~(s < r)
  BY <1>1 DEF OpToRel
<1> QED
  BY <1>2

(* Of finitely many times one is the newest: the one with the fewest after it. *)
LEMMA NewestExists ==
  ASSUME NEW S \in SUBSET Nat, IsFiniteSet(S), S # {}
  PROVE  \E r \in S : \A s \in S : s <= r
<1> DEFINE newer(r) == {s \in S : r < s}
           sets == {newer(r) : r \in S}
<1>1. sets \subseteq FiniteSubsetsOf(S) /\ sets # {}
  <2>1. sets \subseteq SUBSET S /\ sets # {}
    OBVIOUS
  <2> QED
    BY <2>1, FS_FiniteSubsetsOfFinite, Zenon
<1> HIDE DEF sets
<1>2. PICK least \in sets : \A other \in sets : <<other, least>> \notin StrictSubsetOrdering(S)
  BY <1>1, FS_StrictSubsetOrderingWellFounded, WFMin, Zenon
<1> USE DEF sets
<1>3. PICK r \in S : least = newer(r)
  BY <1>2
<1>4. ASSUME NEW s \in S, r < s PROVE FALSE
  <2>1. s \in newer(r) /\ s \notin newer(s) /\ \A x \in S : s < x => r < x
    BY <1>4
  <2>2. <<newer(s), newer(r)>> \in StrictSubsetOrdering(S)
    BY <2>1, Zenon DEF StrictSubsetOrdering
  <2> QED
    BY <1>2, <1>3, <2>2, Zenon
<1> QED
  BY <1>4

(* A page of a range that has rates is not empty, and what it leaves out is  *)
(* older than all it brings.                                                 *)
LEMMA LastPageIsNewest ==
  ASSUME NEW S \in SUBSET Nat, IsFiniteSet(S), limit \in Nat \ {0}
  PROVE  /\ LastPage(S) \subseteq S
         /\ S # {} => LastPage(S) # {}
         /\ \A r \in S \ LastPage(S), s \in LastPage(S) : r < s
<1> DEFINE newer(r) == {s \in S : r < s}
<1>1. LastPage(S) = {r \in S : Cardinality(newer(r)) < limit}
  BY DEF LastPage
<1>2. \A r \in S : IsFiniteSet(newer(r)) /\ Cardinality(newer(r)) \in Nat
  BY FS_Subset, FS_CardinalityType
<1>3. S # {} => LastPage(S) # {}
  <2> SUFFICES ASSUME S # {} PROVE \E r \in S : Cardinality(newer(r)) < limit
    BY <1>1
  <2>1. PICK r \in S : \A s \in S : s <= r
    BY NewestExists
  <2>2. newer(r) = {}
    <3>1. \A s \in S : ~(r < s)
      BY <2>1
    <3> QED
      BY <3>1, Zenon
  <2> QED
    BY <2>2, FS_EmptySet
<1>4. ASSUME NEW r \in S \ LastPage(S), NEW s \in LastPage(S) PROVE r < s
  <2>0. r \in Nat /\ s \in Nat /\ \A x \in S : x \in Nat
    BY <1>1, Zenon
  <2> SUFFICES ASSUME s <= r PROVE FALSE
    BY <2>0
  <2>1. \A x \in S : r < x => s < x
    BY <2>0
  <2>2. newer(r) \subseteq newer(s)
    BY <2>1, Zenon
  <2>3. s \in S /\ Cardinality(newer(s)) < limit /\ ~(Cardinality(newer(r)) < limit)
    BY <1>1
  <2>4. Cardinality(newer(r)) <= Cardinality(newer(s))
    BY <1>2, <2>2, <2>3, FS_Subset
  <2> QED
    BY <1>2, <2>3, <2>4
<1> QED
  BY <1>1, <1>3, <1>4

(* The last rate of a page is its oldest. *)
LEMMA OldestIsOldest ==
  ASSUME NEW S \in SUBSET Nat, S # {}
  PROVE  Oldest(S) \in S /\ \A s \in S : Oldest(S) <= s
BY OldestExists DEF Oldest

(* What was collected lies after the range still to be asked for, and so does *)
(* every rate known at the beginning that was wanted and is not in the range. *)
Remaining ==
  /\ retVal \subseteq Wanted
  /\ endTime <= asked
  /\ \A s \in retVal : endTime < s
  /\ \A r \in known \intersect Wanted : endTime < r => r \in retVal
  /\ pc = "fetch" => startTime < endTime

(* A page has what is newest in the range. *)
PageInv ==
  pc = "collect" =>
    /\ fr # {}
    /\ \A r \in fr : startTime <= r /\ r <= endTime
    /\ \A r \in known \ fr : startTime <= r /\ r <= endTime => \A s \in fr : r < s

(* The arguments are the caller's.  A range of one instant is not asked for. *)
Given == startTime \in Starts /\ asked \in Ends
CompleteRange == startTime # asked => Complete

DownloadInv == TypeOK /\ Remaining /\ PageInv /\ Given /\ CompleteRange

(* Nothing lies in a range that ends before it starts. *)
LEMMA NothingWanted ==
  ASSUME startTime \in Nat, asked \in Nat, ~(startTime < asked), startTime # asked
  PROVE  Wanted = {}
<1> SUFFICES ASSUME NEW r \in Rates, startTime <= r, r <= asked PROVE FALSE
  BY DEF Wanted
<1>1. r \in Nat
  BY ConstantsAssumption
<1> QED
  BY <1>1

(* A download begins with nothing collected. *)
LEMMA DownloadInit == Init => DownloadInv
<1> SUFFICES ASSUME Init PROVE DownloadInv
  OBVIOUS
<1> USE ConstantsAssumption
<1>1. /\ startTime \in Nat /\ asked \in Nat /\ limit \in Nat \ {0} /\ endTime = asked
      /\ fr = {} /\ retVal = {} /\ known = published /\ published \subseteq Rates
  BY DEF Init
<1>2. pc = IF startTime < asked THEN "fetch" ELSE "done"
  BY DEF Init, NextStep
<1>3. CompleteRange
  <2>1. ~(startTime < asked) /\ startTime # asked => Wanted = {}
    BY <1>1, NothingWanted
  <2> QED
    BY <1>1, <1>2, <2>1 DEF CompleteRange, Complete
<1>4. Given
  BY DEF Init, Given
<1> QED
  BY <1>1, <1>2, <1>3, <1>4 DEF DownloadInv, TypeOK, Remaining, PageInv, Wanted

(* A page that arrives has the newest rates up to its end. *)
LEMMA FetchKeeps == DownloadInv /\ fetch => DownloadInv'
<1> SUFFICES ASSUME DownloadInv, fetch PROVE DownloadInv'
  OBVIOUS
<1> USE DEF DownloadInv
<1>1. /\ InRange \in SUBSET Nat /\ InRange \subseteq Rates /\ IsFiniteSet(InRange)
      /\ limit \in Nat \ {0}
  BY ConstantsAssumption, FS_Subset DEF TypeOK, InRange
<1>2. /\ fr' \subseteq InRange
      /\ InRange # {} => fr' # {}
      /\ \A r \in InRange \ fr', s \in fr' : r < s
  BY <1>1, LastPageIsNewest DEF fetch
<1>t. /\ known \subseteq published /\ published \subseteq Rates /\ Rates \subseteq Nat
      /\ startTime \in Nat /\ endTime \in Int /\ asked \in Nat
  BY ConstantsAssumption DEF TypeOK
<1>f. /\ pc' # "fetch" /\ pc' = IF fr' = {} THEN "done" ELSE "collect"
      /\ UNCHANGED <<startTime, asked, limit, endTime, retVal, published, known>>
  BY DEF fetch, arguments
<1>3. TypeOK'
  <2>1. fr' \subseteq published
    BY <1>1, <1>2 DEF InRange
  <2> QED
    BY <1>f, <2>1 DEF TypeOK
<1>4. Remaining'
  BY <1>f DEF Remaining, Wanted
<1>5. PageInv'
  <2> SUFFICES ASSUME fr' # {}
               PROVE  /\ \A r \in fr' : startTime <= r /\ r <= endTime
                      /\ \A r \in known \ fr' : startTime <= r /\ r <= endTime
                           => \A s \in fr' : r < s
    BY <1>f DEF PageInv
  <2>1. \A r \in fr' : startTime <= r /\ r <= endTime
    BY <1>2 DEF InRange
  <2>2. \A r \in known \ fr' : startTime <= r /\ r <= endTime => r \in InRange \ fr'
    BY <1>t DEF InRange
  <2> QED
    BY <1>2, <2>1, <2>2
<1>6. Given' /\ CompleteRange'
  <2> SUFFICES ASSUME pc' = "done"
               PROVE  known \intersect Wanted \subseteq retVal /\ retVal \subseteq Wanted
    BY DEF Given, CompleteRange, Complete, Wanted, fetch, arguments
  <2>1. InRange = {}
    BY <1>2 DEF fetch
  <2>2. \A r \in known \intersect Wanted : endTime < r
    BY <2>1, ConstantsAssumption DEF InRange, Wanted, TypeOK
  <2> QED
    BY <2>2 DEF Remaining
<1> QED
  BY <1>3, <1>4, <1>5, <1>6

(* Collecting a page leaves only older rates to be asked for. *)
LEMMA CollectKeeps == DownloadInv /\ collect => DownloadInv'
<1> SUFFICES ASSUME DownloadInv, collect PROVE DownloadInv'
  OBVIOUS
<1> USE DEF DownloadInv
<1> DEFINE old == Oldest(fr)
<1>1. /\ fr # {} /\ fr \in SUBSET Nat /\ fr \subseteq Rates
      /\ old \in fr /\ \A s \in fr : old <= s
  BY ConstantsAssumption, OldestIsOldest DEF PageInv, TypeOK, collect
<1>2. /\ retVal' = retVal \union fr /\ endTime' = old - 1 /\ fr' = {}
      /\ UNCHANGED <<startTime, asked, limit, published, known>>
      /\ pc' = IF startTime < endTime' THEN "fetch" ELSE "done"
  BY DEF collect, Collected, BeforeOldest, NextStep, arguments
<1>t. /\ startTime \in Nat /\ asked \in Nat /\ endTime \in Int /\ old \in Nat
      /\ Rates \subseteq Nat /\ known \subseteq Rates /\ retVal \subseteq Rates
  BY <1>1, ConstantsAssumption DEF TypeOK
<1>p. /\ \A r \in fr : startTime <= r /\ r <= endTime
      /\ \A r \in known \ fr : startTime <= r /\ r <= endTime => \A s \in fr : r < s
  BY DEF PageInv, collect
<1> HIDE DEF old
<1>3. TypeOK'
  BY <1>1, <1>2, <1>t DEF TypeOK
<1>4. /\ (retVal \subseteq Wanted)'
      /\ (endTime <= asked)'
      /\ (\A s \in retVal : endTime < s)'
  BY <1>1, <1>2, <1>t, <1>p DEF Remaining, Wanted
<1>5. ASSUME NEW r \in known, startTime <= r, r <= asked, old <= r PROVE r \in retVal'
  <2>1. CASE endTime < r
    BY <1>2, <1>5, <2>1, <1>t DEF Remaining, Wanted
  <2>2. CASE ~(endTime < r)
    BY <1>1, <1>2, <1>5, <1>p, <1>t, <2>2
  <2> QED
    BY <2>1, <2>2
<1>6. Remaining'
  <2>1. (\A r \in known \intersect Wanted : endTime < r => r \in retVal)'
    BY <1>2, <1>5, <1>t DEF Wanted
  <2> QED
    BY <1>2, <1>4, <2>1 DEF Remaining
<1>7. Given' /\ CompleteRange'
  <2> SUFFICES ASSUME pc' = "done", NEW r \in known, startTime <= r, r <= asked
               PROVE  r \in retVal'
    BY <1>2, <1>4 DEF Given, CompleteRange, Complete, Wanted
  <2>1. ~(startTime < old - 1)
    BY <1>2
  <2>2. old <= r
    (* Else old would follow r within a millisecond. *)
    <3>1. r < old => r + 1 < old
      BY <1>1, <1>t, ConstantsAssumption
    <3> QED
      BY <2>1, <3>1, <1>t
  <2> QED
    BY <1>5, <2>2
<1>8. PageInv'
  BY <1>2 DEF PageInv
<1> QED
  BY <1>3, <1>6, <1>7, <1>8

(* A rate that is published meanwhile spoils nothing. *)
LEMMA PublishKeeps == DownloadInv /\ publish => DownloadInv'
<1> SUFFICES ASSUME DownloadInv, publish PROVE DownloadInv'
  OBVIOUS
<1>1. /\ UNCHANGED <<pc, startTime, asked, limit, endTime, fr, retVal, known>>
      /\ published \subseteq published' /\ published' \subseteq Rates
  BY DEF publish, arguments, DownloadInv, TypeOK
<1> QED
  BY <1>1 DEF DownloadInv, TypeOK, Remaining, PageInv, Given, CompleteRange,
       Complete, Wanted

(* The invariant of a download. *)
THEOREM DownloadInvariant == Spec => []DownloadInv
<1>1. DownloadInv /\ [Next]_vars => DownloadInv'
  <2> SUFFICES ASSUME DownloadInv, [Next]_vars PROVE DownloadInv'
    OBVIOUS
  <2>1. CASE fetchFails
    BY <2>1 DEF fetchFails, arguments, DownloadInv, TypeOK, Remaining, PageInv, Given,
         CompleteRange, Complete, Wanted
  <2>2. CASE UNCHANGED vars
    BY <2>2 DEF vars, arguments, DownloadInv, TypeOK, Remaining, PageInv, Given,
         CompleteRange, Complete, Wanted
  <2> QED
    BY <2>1, <2>2, FetchKeeps, CollectKeeps, PublishKeeps DEF Next
<1> QED
  BY <1>1, DownloadInit, PTL DEF Spec

(* A download that ends normally has every rate of the range that was there   *)
(* when it began, and nothing else, if the range is not a single instant.     *)
THEOREM DownloadComplete ==
  ASSUME Starts \intersect Ends = {}
  PROVE  Spec => []Complete
<1>1. DownloadInv => Complete
  BY DEF DownloadInv, Given, CompleteRange
<1> QED
  BY <1>1, DownloadInvariant, PTL

(* Pages come newest first and never overlap: the reversed vector is in order *)
(* without a sort.                                                            *)
THEOREM PagesInOrder == Spec => []InOrder
<1>1. DownloadInv => InOrder
  BY ConstantsAssumption DEF DownloadInv, TypeOK, Remaining, PageInv, InOrder
<1> QED
  BY <1>1, DownloadInvariant, PTL

(* Where a page starts, and what that leaves of the range. *)
LEMMA CollectMovesOn ==
  ASSUME DownloadInv, collect
  PROVE  /\ endTime' < endTime /\ startTime - 1 <= endTime'
         /\ fr \subseteq Wanted /\ retVal' = retVal \union fr
<1> USE DEF DownloadInv
<1> DEFINE old == Oldest(fr)
<1>1. old \in fr /\ endTime' = old - 1 /\ fr \subseteq Rates
  BY ConstantsAssumption, OldestIsOldest DEF PageInv, TypeOK, collect, BeforeOldest
<1> HIDE DEF old
<1>2. /\ \A r \in fr : r \in Nat /\ r \in Rates /\ startTime <= r /\ r <= endTime
      /\ startTime \in Nat /\ endTime \in Int /\ asked \in Nat /\ endTime <= asked
  BY <1>1, ConstantsAssumption DEF PageInv, Remaining, TypeOK, collect
<1>3. fr \subseteq Wanted
  BY <1>2 DEF Wanted
<1> QED
  BY <1>1, <1>2, <1>3 DEF collect, Collected

(* Each page ends before the one before it, and none before the range. *)
THEOREM PagesAlwaysMoveOn == Spec => PagesMoveOn
<1>1. ASSUME DownloadInv, [Next]_vars, pc = "collect", pc' # "collect"
      PROVE  endTime' < endTime /\ startTime - 1 <= endTime'
  <2>1. collect
    BY <1>1 DEF Next, fetch, fetchFails, publish, vars
  <2> QED
    BY <1>1, <2>1, CollectMovesOn
<1> QED
  BY <1>1, DownloadInvariant, PTL DEF Spec, PagesMoveOn

-------------------------------------------------------------------------------
(* A download implements Delivery. *)

Delivers == Result!Next \/ UNCHANGED Result!vars

(* Collecting a page is Delivery's step: in order, and without a gap. *)
LEMMA CollectDelivers ==
  ASSUME DownloadInv, DownloadInv', collect
  PROVE  Result!Deliver
<1> USE DEF DownloadInv
<1>0. /\ Rates \subseteq Nat /\ startTime \in Nat /\ asked \in Nat /\ endTime \in Int
      /\ known \subseteq Rates /\ endTime <= asked /\ pc = "collect"
  BY ConstantsAssumption DEF TypeOK, Remaining, collect
<1>1. retVal' = retVal \union fr /\ fr \subseteq Wanted
  BY CollectMovesOn
<1>2. \A d \in fr : d \in Nat /\ startTime <= d /\ d <= endTime
  BY <1>0, <1>1 DEF PageInv, Wanted
<1>3. ASSUME NEW c \in retVal, NEW d \in fr PROVE d < c
  <2>1. c \in Nat /\ endTime < c
    BY <1>0 DEF Remaining, TypeOK
  <2> QED
    BY <1>0, <1>2, <2>1
<1>4. ASSUME NEW c \in known \intersect Wanted, NEW d \in fr, d < c
      PROVE  c \in retVal \union fr
  <2>1. c \in Nat /\ startTime <= c
    BY <1>0 DEF Wanted
  <2>2. CASE endTime < c
    BY <2>2 DEF Remaining
  <2>3. CASE ~(endTime < c)
    <3> SUFFICES ASSUME c \notin fr PROVE FALSE
      OBVIOUS
    <3>1. c \in known \ fr /\ c <= endTime
      BY <1>0, <2>1, <2>3
    <3>2. c < d
      BY <1>0, <2>1, <3>1 DEF PageInv
    <3> QED
      BY <1>2, <1>4, <2>1, <3>2
  <2> QED
    BY <2>2, <2>3
<1>5. \A c \in known \intersect Wanted, d \in fr : d < c => c \in retVal \union fr
  BY <1>4
<1>6. retVal' \ retVal \subseteq fr /\ fr \subseteq published' \intersect Wanted'
  <2>1. Wanted' = Wanted /\ published' = published
    BY DEF collect, arguments, Wanted
  <2> QED
    BY <1>1, <2>1 DEF TypeOK
<1> QED
  BY <1>1, <1>3, <1>5, <1>6
  DEF Result!Deliver, Result!InOrder, Result!NoGap, Result!Before

(* Every step is a step of Delivery or leaves its variables alone. *)
LEMMA StepDelivers ==
  DownloadInv /\ DownloadInv' /\ Complete' /\ [Next]_vars => Delivers
<1> SUFFICES ASSUME DownloadInv, DownloadInv', Complete', [Next]_vars PROVE Delivers
  OBVIOUS
<1> USE DEF DownloadInv
<1>s. /\ Wanted' = Wanted /\ known' = known
      /\ published \intersect Wanted \subseteq published' \intersect Wanted'
  BY DEF Next, fetch, fetchFails, collect, publish, vars, arguments, Wanted
<1>1. pc' = "done" => known' \intersect Wanted' \subseteq retVal'
  BY DEF Complete
<1>2. CASE fetch \/ fetchFails
  <2>1. /\ pc = "fetch" /\ pc' \in {"collect", "done", "failed"} /\ retVal' = retVal
    BY <1>2 DEF fetch, fetchFails
  <2>2. Result!Deliver
    BY <2>1 DEF Result!Deliver, Result!InOrder, Result!NoGap
  <2> QED
    BY <1>s, <1>1, <2>1, <2>2 DEF Delivers, Result!Next, Status
<1>3. CASE collect
  <2>1. pc = "collect" /\ pc' \in {"fetch", "done"}
    BY <1>3 DEF collect, NextStep
  <2> QED
    BY <1>s, <1>1, <1>3, <2>1, CollectDelivers DEF Delivers, Result!Next, Status
<1>4. CASE publish
  <2>1. pc \in {"fetch", "collect"} /\ UNCHANGED <<pc, retVal>>
    BY <1>4 DEF publish
  <2>2. Result!Deliver
    BY <2>1 DEF Result!Deliver, Result!InOrder, Result!NoGap
  <2> QED
    BY <1>s, <1>1, <2>1, <2>2 DEF Delivers, Result!Next, Status
<1>5. CASE UNCHANGED vars
  BY <1>s, <1>5 DEF vars, Delivers, Result!vars, Status
<1> QED
  BY <1>2, <1>3, <1>4, <1>5 DEF Next

(* Newest first, the caller is never left with a gap: every step of a         *)
(* download is a step of Delivery, for any rates and size of a page, and any  *)
(* range that is not a single instant.                                        *)
THEOREM DownloadImplementsDelivery ==
  ASSUME Starts \intersect Ends = {}
  PROVE  Spec => ImplementsDelivery
<1>1. Init => Result!Init
  <2> SUFFICES ASSUME Init PROVE Result!Init
    OBVIOUS
  <2>1. startTime \in Nat /\ asked \in Nat /\ startTime # asked /\ retVal = {}
    BY ConstantsAssumption DEF Init
  <2>2. pc = IF startTime < asked THEN "fetch" ELSE "done"
    BY DEF Init, NextStep
  <2>3. pc = "done" => Wanted = {}
    BY <2>1, <2>2, NothingWanted
  <2> QED
    BY <2>1, <2>2, <2>3 DEF Result!Init, Status
<1>2. DownloadInv /\ DownloadInv' /\ Complete' /\ [Next]_vars
        => [Result!Next]_(Result!vars)
  BY StepDelivers DEF Delivers
<1> QED
  BY <1>1, <1>2, DownloadInvariant, DownloadComplete, PTL
  DEF Spec, ImplementsDelivery, Result!Spec
===============================================================================
