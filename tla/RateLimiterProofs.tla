--------------------------- MODULE RateLimiterProofs ---------------------------
(***************************************************************************)
(* Theorems about RateLimiter, for any number of threads, any limit and    *)
(* any window, with and without server headers.                            *)
(***************************************************************************)
EXTENDS RateLimiter, FiniteSetTheorems, WellFoundedInduction, TLAPS

(* The pop keeps a suffix, a shorter one when the oldest time has expired. *)
LEMMA PopExpiredShrinks ==
  ASSUME NEW q \in Seq(Nat), NEW at \in Nat
  PROVE  /\ PopExpired(q, at) \in Seq(Nat)
         /\ Len(PopExpired(q, at)) <= Len(q)
         /\ Len(q) > 0 /\ Expired(q, at, 1) => Len(PopExpired(q, at)) < Len(q)
<1> DEFINE gone == {i \in 1..Len(q) : \A j \in 1..i : Expired(q, at, j)}
<1>1. IsFiniteSet(1..Len(q)) /\ Cardinality(1..Len(q)) = Len(q)
  <2>1. Len(q) \in Nat /\ 1 \in Int /\ Len(q) \in Int
    OBVIOUS
  <2>2. /\ IsFiniteSet(1..Len(q))
        /\ Cardinality(1..Len(q)) = IF 1 > Len(q) THEN 0 ELSE Len(q) - 1 + 1
    BY <2>1, FS_Interval, Zenon
  <2> QED
    BY <2>1, <2>2
<1>2. IsFiniteSet(gone) /\ Cardinality(gone) <= Len(q)
  BY <1>1, FS_Subset
<1>3. Cardinality(gone) \in Nat
  BY <1>2, FS_CardinalityType
<1>4. Len(q) > 0 /\ Expired(q, at, 1) => Cardinality(gone) # 0
  <2> SUFFICES ASSUME Len(q) > 0, Expired(q, at, 1) PROVE Cardinality(gone) # 0
    OBVIOUS
  <2>1. 1 \in gone
    OBVIOUS
  <2> QED
    BY <1>2, <2>1, FS_EmptySet
<1>5. PopExpired(q, at) = SubSeq(q, Cardinality(gone) + 1, Len(q))
  BY DEF PopExpired
<1> HIDE DEF gone
<1>6. ASSUME NEW n \in 0..Len(q)
      PROVE  /\ SubSeq(q, n + 1, Len(q)) \in Seq(Nat)
             /\ Len(SubSeq(q, n + 1, Len(q))) = Len(q) - n
  <2>1. SubSeq(q, n + 1, Len(q)) \in Seq(Nat)
    OBVIOUS
  <2>2. Len(SubSeq(q, n + 1, Len(q))) = Len(q) - n
    OBVIOUS
  <2> QED
    BY <2>1, <2>2
<1>7. Cardinality(gone) \in 0..Len(q)
  <2>1. Len(q) \in Nat
    OBVIOUS
  <2> QED
    BY <1>2, <1>3, <2>1
<1>8. /\ PopExpired(q, at) \in Seq(Nat)
      /\ Len(PopExpired(q, at)) = Len(q) - Cardinality(gone)
  BY <1>5, <1>6, <1>7
<1>9. Len(q) \in Nat
  OBVIOUS
<1> QED
  BY <1>4, <1>7, <1>8, <1>9

(* Whoever sleeps is alone, holds the mutex, and in local mode wakes when the *)
(* oldest recorded time has expired.                                          *)
SleepInv ==
  /\ \A t, u \in Threads : pc[t] = "sleep" /\ pc[u] = "sleep" => t = u
  /\ \A t \in Threads : pc[t] = "sleep" /\ ~serverHeadersFound =>
       /\ Len(requestTimes) > 0
       /\ wakeAt[t] > requestTimes[1] + windowSizeMs

LimiterInv == TypeOK /\ DequeBounded /\ SleepInv

(* A full deque has an oldest time. *)
LEMMA OldestIsTime ==
  ASSUME NEW times \in Seq(Nat), NEW limit \in Nat \ {0}, Len(times) >= limit
  PROVE  Len(times) > 0 /\ 1 \in 1..Len(times) /\ times[1] \in Nat
<1>1. Len(times) \in Nat /\ Len(times) > 0
  OBVIOUS
<1> QED
  BY <1>1

(* At first the deque is empty and nobody sleeps. *)
LEMMA LimiterInit == Init => LimiterInv
<1> SUFFICES ASSUME Init PROVE LimiterInv
  OBVIOUS
<1>1. TypeOK
  <2>1. <<>> \in Seq(Nat)
    OBVIOUS
  <2>2. /\ pc \in [Threads -> {"idle", "wait", "sleep", "send"}]
        /\ kind \in [Threads -> {"public", "private"}]
    BY DEF Init
  <2>3. now \in [Threads -> Nat] /\ wakeAt \in [Threads -> Nat]
    BY DEF Init
  <2> QED
    BY <2>1, <2>2, <2>3 DEF Init, TypeOK
<1> QED
  BY <1>1, ConstantsAssumption DEF Init, LimiterInv, DequeBounded, SleepInv

(* Every step keeps the bound and what is known of the sleeper. *)
LEMMA LimiterStep == LimiterInv /\ [Next]_vars => LimiterInv'
<1> SUFFICES ASSUME LimiterInv, [Next]_vars PROVE LimiterInv'
  OBVIOUS
<1> USE ConstantsAssumption DEF LimiterInv, TypeOK, DequeBounded, SleepInv, threadVars, serverVars
<1>1. ASSUME NEW t \in Threads, request(t) PROVE LimiterInv'
  <2>1. PICK k \in {"public", "private"} : Call(t, k)
    BY <1>1 DEF request, publicRequest, privateRequest
  <2> QED
    BY <2>1 DEF Call
<1>2. ASSUME NEW t \in Threads, waitLocal(t) PROVE LimiterInv'
  <2> DEFINE left == PopExpired(requestTimes, clock)
  <2>1. left \in Seq(Nat) /\ Len(left) <= Len(requestTimes)
    BY PopExpiredShrinks
  <2>2. \A u \in Threads : pc[u] # "sleep"
    BY <1>2 DEF waitLocal, Locked
  <2>3. UNCHANGED <<kind, clock, serverVars, requests>> /\ ~serverHeadersFound
    BY <1>2 DEF waitLocal
  <2> HIDE DEF left
  <2>4. CASE Len(left) >= localLimit
    <3>1. Sleep(t, left[1] + windowSizeMs + Buffer) /\ requestTimes' = left
      BY <1>2, <2>4 DEF waitLocal, left
    <3>2. left[1] \in Nat /\ Len(left) > 0
      BY OldestIsTime, <2>1, <2>4
    <3>3. left[1] + windowSizeMs + Buffer \in Nat
      BY <3>2
    <3>4. now' \in [Threads -> Nat] /\ wakeAt' \in [Threads -> Nat]
      BY <3>1, <3>3 DEF Sleep
    <3>5. /\ pc' \in [Threads -> {"idle", "wait", "sleep", "send"}]
          /\ \A u \in Threads : pc'[u] = "sleep" => u = t
      BY <2>2, <3>1 DEF Sleep
    <3>6. wakeAt'[t] > requestTimes'[1] + windowSizeMs /\ Len(requestTimes') > 0
      BY <3>1, <3>2, <3>3 DEF Sleep
    <3>7. released' = released
      BY <3>1 DEF Sleep
    <3>8. TypeOK'
      BY <2>1, <2>3, <3>1, <3>4, <3>5, <3>7
    <3>9. SleepInv'
      BY <3>5, <3>6
    <3>10. DequeBounded'
      BY <2>1, <3>1
    <3> QED
      BY <3>8, <3>9, <3>10 DEF LimiterInv
  <2>5. CASE ~(Len(left) >= localLimit)
    <3>1. Release(t) /\ requestTimes' = Append(left, clock)
      BY <1>2, <2>5 DEF waitLocal, left
    <3>2. requestTimes' \in Seq(Nat) /\ Len(requestTimes') <= localLimit
      BY <2>1, <2>5, <3>1
    <3> QED
      BY <2>2, <2>3, <3>1, <3>2 DEF Release
  <2> QED
    BY <2>4, <2>5
<1>3. ASSUME NEW t \in Threads, wakeLocal(t) PROVE LimiterInv'
  <2> DEFINE left == PopExpired(requestTimes, clock)
  <2>1. Len(requestTimes) > 0 /\ Expired(requestTimes, clock, 1)
    BY <1>3 DEF wakeLocal, Expired
  <2>2. left \in Seq(Nat) /\ Len(left) < Len(requestTimes)
    BY <2>1, PopExpiredShrinks
  <2>3. \A u \in Threads \ {t} : pc[u] # "sleep"
    BY <1>3 DEF wakeLocal
  <2>4. /\ requestTimes' = Append(left, now[t]) /\ Release(t)
        /\ UNCHANGED <<kind, clock, serverVars, requests>>
    BY <1>3 DEF wakeLocal
  <2> HIDE DEF left
  <2>5. requestTimes' \in Seq(Nat) /\ Len(requestTimes') <= localLimit
    BY <2>2, <2>4
  <2> QED
    BY <2>3, <2>4, <2>5 DEF Release
<1>4. ASSUME NEW t \in Threads, waitServer(t) PROVE LimiterInv'
  <2>1. \A u \in Threads : pc[u] # "sleep"
    BY <1>4 DEF waitServer, Locked
  <2>2. serverHeadersFound' /\ UNCHANGED <<kind, clock, requestTimes, serverVars, requests>>
    BY <1>4 DEF waitServer
  <2>3. CASE Sleep(t, resetTime + Buffer)
    BY <2>1, <2>2, <2>3 DEF Sleep
  <2>4. CASE Release(t)
    BY <2>1, <2>2, <2>4 DEF Release
  <2> QED
    BY <1>4, <2>3, <2>4 DEF waitServer
<1>5. ASSUME NEW t \in Threads, wakeServer(t) PROVE LimiterInv'
  BY <1>5 DEF wakeServer, Release
<1>6. ASSUME NEW t \in Threads, requestThrows(t) \/ respondBare(t) PROVE LimiterInv'
  BY <1>6 DEF requestThrows, respondBare, Done
<1>7. ASSUME NEW t \in Threads, update(t) PROVE LimiterInv'
  <2>1. \A u \in Threads : pc[u] # "sleep"
    BY <1>7 DEF update, Locked
  <2>2. pc' = [pc EXCEPT ![t] = "idle"]
    BY <1>7 DEF update, Done
  <2>3. UNCHANGED <<kind, now, wakeAt, clock, requestTimes, released, requests>>
    BY <1>7 DEF update, Done
  <2>4. remaining' \in Nat /\ resetTime' \in Nat /\ serverHeadersFound' \in BOOLEAN
    <3>1. remaining' \in {2, 50}
      BY <1>7 DEF update
    <3>2. CASE UNCHANGED <<resetTime, serverHeadersFound>>
      BY <3>1, <3>2
    <3>3. CASE resetTime' \in {clock + d : d \in ResetDelays} /\ serverHeadersFound' = TRUE
      BY <3>1, <3>3
    <3> QED
      BY <1>7, <3>2, <3>3 DEF update
  <2> QED
    BY <2>1, <2>2, <2>3, <2>4
<1>8. CASE tick
  BY <1>8 DEF tick
<1>9. CASE UNCHANGED vars
  BY <1>9 DEF vars
<1> QED
  BY <1>1, <1>2, <1>3, <1>4, <1>5, <1>6, <1>7, <1>8, <1>9 DEF Next, wait, wake

(* The invariant of the deque and the sleeper. *)
LEMMA LimiterInvariant == Spec => []LimiterInv
  BY LimiterInit, LimiterStep, PTL DEF Spec

(* The deque never outgrows the limit, whoever sleeps and wakes. *)
THEOREM DequeAlwaysBounded == Spec => []DequeBounded
  BY LimiterInvariant, PTL DEF LimiterInv

-------------------------------------------------------------------------------
(* The window. *)

(* What the pop removes: some number g of the oldest times, all expired.      *)
LEMMA PopExpiredIs ==
  ASSUME NEW q \in Seq(Nat), NEW at \in Nat
  PROVE  \E g \in 0..Len(q) : /\ PopExpired(q, at) = SubSeq(q, g + 1, Len(q))
                              /\ \A i \in 1..g : Expired(q, at, i)
<1> DEFINE gone == {i \in 1..Len(q) : \A j \in 1..i : Expired(q, at, j)}
<1>1. PopExpired(q, at) = SubSeq(q, Cardinality(gone) + 1, Len(q))
  BY DEF PopExpired
<1>2. \A i \in gone : \A j \in 1..i : j \in gone
  OBVIOUS
<1>3. \A i \in gone : i \in 1..Len(q) /\ Expired(q, at, i)
  OBVIOUS
<1> DEFINE left == (1..Len(q) + 1) \ gone
<1>4. left \in SUBSET Nat /\ Len(q) + 1 \in left
  OBVIOUS
<1> HIDE DEF gone, left
<1>5. PICK first \in left : \A i \in left : <<i, first>> \notin OpToRel(<, Nat)
  BY <1>4, NatLessThanWellFounded, WFMin, Zenon
<1>6. first \in 1..Len(q) + 1 /\ first \notin gone
  BY DEF left
<1>7. \A i \in left : first <= i
  <2>1. \A i \in left : ~(i < first)
    BY <1>4, <1>5 DEF OpToRel
  <2>2. \A i \in left : i \in Nat
    BY <1>4
  <2> QED
    BY <2>1, <2>2
<1> DEFINE g == first - 1
<1>8. g \in 0..Len(q) /\ gone = 1..g
  <2>1. \A i \in 1..g : i \in gone
    BY <1>6, <1>7 DEF left
  <2>2. \A i \in gone : i < first
    BY <1>2, <1>3, <1>6
  <2>3. g \in 0..Len(q) /\ first \in Nat
    BY <1>6
  <2>4. \A i \in gone : i \in 1..g
    BY <1>3, <1>6, <2>2
  <2> QED
    BY <2>1, <2>3, <2>4
<1> HIDE DEF g
<1>9. Cardinality(gone) = g
  <2>1. g \in Nat
    BY <1>8
  <2>2. Cardinality(1..g) = IF 1 > g THEN 0 ELSE g - 1 + 1
    BY <2>1, 1 \in Int, g \in Int, FS_Interval, Zenon
  <2> QED
    BY <1>8, <2>1, <2>2
<1> QED
  BY <1>1, <1>3, <1>8, <1>9

(* A sleeper read the clock after every request let go so far. *)
ReadLast == /\ \A i \in 1..Len(released) : released[i] <= clock
            /\ \A t \in Threads : pc[t] = "sleep" =>
                 \A i \in 1..Len(released) : released[i] <= now[t]

(* The a-th recorded time is no older than any but the newest requests let    *)
(* go, as many as there are recorded times from a on: the time recorded for a *)
(* request that slept is older than its release, but by no other release.     *)
Covers(q) == \A a \in 1..Len(q), i \in 1..Len(released) :
               i + Len(q) < Len(released) + a => released[i] <= q[a]

(* A request let go before those, the newest of them excepted, has left the   *)
(* window.                                                                    *)
RestExpired(q) == \A i \in 1..Len(released) :
                    i + Len(q) < Len(released) => clock - released[i] > windowSizeMs

WindowInv == /\ ReadLast
             /\ ~serverHeadersFound =>
                  Covers(requestTimes) /\ RestExpired(requestTimes) /\ Spaced

(* The pop keeps both. *)
LEMMA PopKeepsWindow ==
  ASSUME TypeOK, Covers(requestTimes), RestExpired(requestTimes)
  PROVE  LET left == PopExpired(requestTimes, clock)
         IN  Covers(left) /\ RestExpired(left)
<1> DEFINE left == PopExpired(requestTimes, clock)
<1> USE ConstantsAssumption DEF TypeOK
<1>1. PICK g \in 0..Len(requestTimes) :
        /\ left = SubSeq(requestTimes, g + 1, Len(requestTimes))
        /\ \A a \in 1..g : Expired(requestTimes, clock, a)
  BY PopExpiredIs
<1> HIDE DEF left
<1>2. /\ Len(requestTimes) \in Nat /\ Len(left) = Len(requestTimes) - g
      /\ \A a \in 1..Len(left) : left[a] = requestTimes[a + g]
  BY <1>1
<1>3. Covers(left)
  <2> SUFFICES ASSUME NEW a \in 1..Len(left), NEW i \in 1..Len(released),
                      i + Len(left) < Len(released) + a
               PROVE  released[i] <= left[a]
    BY DEF Covers
  <2>1. a + g \in 1..Len(requestTimes)
    <3> HIDE DEF TypeOK
    <3> QED
      BY <1>2
  <2>2. left[a] = requestTimes[a + g]
    <3> HIDE DEF TypeOK
    <3> QED
      BY <1>2
  <2>3. i + Len(requestTimes) < Len(released) + (a + g)
    BY <1>2
  <2> QED
    BY <2>1, <2>2, <2>3 DEF Covers
<1>4. RestExpired(left)
  <2> SUFFICES ASSUME NEW i \in 1..Len(released), i + Len(left) < Len(released)
               PROVE  clock - released[i] > windowSizeMs
    BY DEF RestExpired
  <2>1. CASE i + Len(requestTimes) < Len(released)
    BY <2>1 DEF RestExpired
  <2>2. CASE ~(i + Len(requestTimes) < Len(released))
    <3> DEFINE a == i + Len(requestTimes) - Len(released) + 1
    <3>1. a \in 1..g /\ a \in 1..Len(requestTimes)
      BY <1>2, <2>2
    <3>2. i + Len(requestTimes) < Len(released) + a
      OBVIOUS
    <3> HIDE DEF a
    <3>3. released[i] <= requestTimes[a]
      BY <3>1, <3>2 DEF Covers
    <3>4. clock - requestTimes[a] > windowSizeMs
      BY <1>1, <3>1 DEF Expired
    <3>5. released[i] \in Nat /\ requestTimes[a] \in Nat /\ clock \in Nat /\ windowSizeMs \in Nat
      BY <3>1
    <3> HIDE DEF TypeOK
    <3> QED
      BY <3>3, <3>4, <3>5
  <2> QED
    BY <2>1, <2>2
<1> QED
  BY <1>3, <1>4 DEF left

(* One more on either side leaves a release where it was in the window.       *)
LEMMA ShiftIndex ==
  ASSUME NEW gone \in Nat, NEW kept \in Nat, NEW a \in 1..kept + 1, NEW i \in 1..gone + 1,
         i + kept + 1 < gone + 1 + a
  PROVE  /\ i \in 1..gone /\ i + kept < gone + a
         /\ a = kept + 1 \/ a \in 1..kept
  OBVIOUS

(* A request let go after the pop has made room, and recorded at a time no    *)
(* older than any earlier release, keeps the window.                          *)
LEMMA ReleaseKeepsWindow ==
  ASSUME TypeOK, ReadLast, Spaced, NEW left \in Seq(Nat), Len(left) < localLimit,
         Covers(left), RestExpired(left),
         NEW at \in Nat, \A i \in 1..Len(released) : released[i] <= at,
         requestTimes' = Append(left, at), clock' = clock,
         released' = Append(released, clock) \/ released' = released
  PROVE  (Covers(requestTimes) /\ RestExpired(requestTimes) /\ Spaced)'
<1> USE ConstantsAssumption DEF TypeOK
<1>1. /\ Len(requestTimes') = Len(left) + 1 /\ requestTimes'[Len(left) + 1] = at
      /\ \A a \in 1..Len(left) : requestTimes'[a] = left[a]
  OBVIOUS
<1>2. CASE released' = released
  <2>1. Covers(requestTimes)'
    <3> SUFFICES ASSUME NEW a \in 1..Len(left) + 1, NEW i \in 1..Len(released),
                        i + Len(left) + 1 < Len(released) + a
                 PROVE  released[i] <= requestTimes'[a]
      BY <1>1, <1>2 DEF Covers
    <3>1. CASE a = Len(left) + 1
      BY <1>1, <3>1
    <3>2. CASE a # Len(left) + 1
      <4>1. a \in 1..Len(left) /\ i + Len(left) < Len(released) + a
        BY <3>2
      <4> QED
        BY <1>1, <4>1 DEF Covers
    <3> QED
      BY <3>1, <3>2
  <2>2. RestExpired(requestTimes)'
    BY <1>1, <1>2 DEF RestExpired
  <2>3. Spaced'
    BY <1>2 DEF Spaced
  <2> QED
    BY <2>1, <2>2, <2>3
<1>3. CASE released' = Append(released, clock)
  <2>1. /\ Len(released') = Len(released) + 1 /\ released'[Len(released) + 1] = clock
        /\ \A i \in 1..Len(released) : released'[i] = released[i]
        /\ \A i \in 1..Len(released) : released[i] \in Nat
    BY <1>3
  <2>2. Covers(requestTimes)'
    <3>0. SUFFICES ASSUME NEW a \in 1..Len(left) + 1, NEW i \in 1..Len(released) + 1,
                          i + Len(left) + 1 < Len(released) + 1 + a
                   PROVE  released'[i] <= requestTimes'[a]
      BY <1>1, <2>1 DEF Covers
    <3>1. /\ i \in 1..Len(released) /\ i + Len(left) < Len(released) + a
          /\ a = Len(left) + 1 \/ a \in 1..Len(left)
      <4>1. Len(left) \in Nat /\ Len(released) \in Nat
        OBVIOUS
      <4> QED
        BY ONLY <3>0, <4>1, ShiftIndex
    <3>2. released'[i] = released[i]
      BY <2>1, <3>1
    <3>3. CASE a = Len(left) + 1
      BY <1>1, <3>1, <3>2, <3>3
    <3>4. CASE a # Len(left) + 1
      <4>1. a \in 1..Len(left)
        BY ONLY <3>1, <3>4
      <4>2. requestTimes'[a] = left[a]
        BY <1>1, <4>1
      <4> QED
        BY <3>1, <3>2, <4>1, <4>2 DEF Covers
    <3> QED
      BY <3>3, <3>4
  <2>3. RestExpired(requestTimes)'
    <3> SUFFICES ASSUME NEW i \in 1..Len(released) + 1, i + Len(left) + 1 < Len(released) + 1
                 PROVE  clock - released'[i] > windowSizeMs
      BY <1>1, <2>1 DEF RestExpired
    <3>1. i \in 1..Len(released) /\ i + Len(left) < Len(released)
      OBVIOUS
    <3> QED
      BY <2>1, <3>1 DEF RestExpired
  <2>4. Spaced'
    <3> SUFFICES ASSUME NEW i \in 1..Len(released) + 1 - localLimit - 1
                 PROVE  released'[i + localLimit + 1] - released'[i] > windowSizeMs
      BY <2>1 DEF Spaced
    <3>1. i \in 1..Len(released) /\ released'[i] = released[i]
      BY <2>1
    <3>2. CASE i + localLimit = Len(released)
      <4>1. i + Len(left) < Len(released)
        BY <3>2
      <4>2. clock - released[i] > windowSizeMs
        BY <3>1, <4>1 DEF RestExpired
      <4>3. released'[i + localLimit + 1] = clock
        BY <2>1, <3>2
      <4> QED
        BY <3>1, <4>2, <4>3
    <3>3. CASE i + localLimit # Len(released)
      <4>1. i \in 1..Len(released) - localLimit - 1
        BY <3>3
      <4>2. i + localLimit + 1 \in 1..Len(released)
        BY <4>1
      <4>3. released'[i + localLimit + 1] = released[i + localLimit + 1]
        BY <2>1, <4>2
      <4> QED
        BY <3>1, <4>1, <4>3 DEF Spaced
    <3> QED
      BY <3>2, <3>3
  <2> QED
    BY <2>2, <2>3, <2>4
<1> QED
  BY <1>2, <1>3

(* A release comes no earlier than any other, and whoever sleeps is alone. *)
LEMMA ReleaseReadsLast ==
  ASSUME TypeOK, ReadLast, NEW t \in Threads, Release(t), clock' = clock,
         \A u \in Threads \ {t} : pc[u] # "sleep"
  PROVE  ReadLast' /\ (released' = Append(released, clock) \/ released' = released)
<1>1. released' = Append(released, clock) \/ released' = released
  BY DEF Release
<1>2. \A u \in Threads : pc'[u] # "sleep"
  BY DEF Release, TypeOK
<1>3. \A i \in 1..Len(released') : released'[i] <= clock
  <2>1. CASE released' = released
    BY <2>1 DEF ReadLast
  <2>2. CASE released' = Append(released, clock)
    <3>1. clock \in Nat /\ released \in Seq(Nat)
      BY DEF TypeOK
    <3>2. /\ Len(released') = Len(released) + 1 /\ released'[Len(released) + 1] = clock
          /\ \A i \in 1..Len(released) : released'[i] = released[i]
      BY <2>2, <3>1
    <3> QED
      BY <3>1, <3>2 DEF ReadLast
  <2> QED
    BY <1>1, <2>1, <2>2
<1> QED
  BY <1>1, <1>2, <1>3 DEF ReadLast

(* Every step keeps the relation of recorded times and releases. *)
LEMMA WindowStep == LimiterInv /\ WindowInv /\ [Next]_vars => WindowInv'
<1> SUFFICES ASSUME LimiterInv, WindowInv, [Next]_vars PROVE WindowInv'
  OBVIOUS
<1> USE ConstantsAssumption DEF LimiterInv, WindowInv
<1>1. ASSUME UNCHANGED <<clock, requestTimes, released>>,
             \A u \in Threads : pc'[u] = "sleep" => pc[u] = "sleep" /\ now'[u] = now[u],
             serverHeadersFound => serverHeadersFound'
      PROVE  WindowInv'
  BY <1>1 DEF ReadLast, Covers, RestExpired, Spaced
<1>2. ASSUME NEW t \in Threads, request(t) PROVE WindowInv'
  <2>1. PICK k \in {"public", "private"} : Call(t, k)
    BY <1>2 DEF request, publicRequest, privateRequest
  <2> QED
    BY <1>1, <2>1 DEF Call, TypeOK, serverVars
<1>3. ASSUME NEW t \in Threads, waitLocal(t) PROVE WindowInv'
  <2> DEFINE left == PopExpired(requestTimes, clock)
  <2>1. left \in Seq(Nat)
    BY PopExpiredShrinks DEF TypeOK
  <2>2. \A u \in Threads : pc[u] # "sleep"
    BY <1>3 DEF waitLocal, Locked
  <2>3. ~serverHeadersFound /\ ~serverHeadersFound' /\ clock' = clock
    BY <1>3 DEF waitLocal, serverVars
  <2>4. Covers(left) /\ RestExpired(left)
    BY <2>3, PopKeepsWindow
  <2>5. CASE Len(left) >= localLimit
    <3>1. Sleep(t, left[1] + windowSizeMs + Buffer) /\ requestTimes' = left
      BY <1>3, <2>5 DEF waitLocal
    <3> HIDE DEF left
    <3>2. released' = released
      BY <3>1 DEF Sleep
    <3>3. \A u \in Threads : pc'[u] = "sleep" => now'[u] = clock
      BY <2>2, <3>1 DEF Sleep, TypeOK
    <3>4. ReadLast'
      BY <2>3, <3>2, <3>3 DEF ReadLast
    <3>5. (Covers(requestTimes) /\ RestExpired(requestTimes) /\ Spaced)'
      BY <2>3, <2>4, <3>1, <3>2 DEF Covers, RestExpired, Spaced
    <3> QED
      BY <3>4, <3>5
  <2>6. CASE ~(Len(left) >= localLimit)
    <3>1. Release(t) /\ requestTimes' = Append(left, clock)
      BY <1>3, <2>6 DEF waitLocal
    <3> HIDE DEF left
    <3>2. ReadLast' /\ (released' = Append(released, clock) \/ released' = released)
      BY <2>2, <2>3, <3>1, ReleaseReadsLast
    <3>3. Len(left) < localLimit /\ clock \in Nat
      BY <2>1, <2>6 DEF TypeOK
    <3>4. \A i \in 1..Len(released) : released[i] <= clock
      BY DEF ReadLast
    <3>5. (Covers(requestTimes) /\ RestExpired(requestTimes) /\ Spaced)'
      BY <2>1, <2>3, <2>4, <3>1, <3>2, <3>3, <3>4, ReleaseKeepsWindow
    <3> QED
      BY <3>2, <3>5
  <2> QED
    BY <2>5, <2>6
<1>4. ASSUME NEW t \in Threads, wakeLocal(t) PROVE WindowInv'
  <2> DEFINE left == PopExpired(requestTimes, clock)
  <2>1. Len(requestTimes) > 0 /\ Expired(requestTimes, clock, 1)
    BY <1>4 DEF wakeLocal, Expired, SleepInv, TypeOK
  <2>2. left \in Seq(Nat) /\ Len(left) < localLimit
    BY <2>1, PopExpiredShrinks DEF TypeOK, DequeBounded
  <2>3. \A u \in Threads \ {t} : pc[u] # "sleep"
    BY <1>4 DEF wakeLocal, SleepInv
  <2>4. ~serverHeadersFound /\ ~serverHeadersFound' /\ clock' = clock
    BY <1>4 DEF wakeLocal, serverVars
  <2>5. Covers(left) /\ RestExpired(left)
    BY <2>4, PopKeepsWindow
  <2>6. Release(t) /\ requestTimes' = Append(left, now[t])
    BY <1>4 DEF wakeLocal
  <2> HIDE DEF left
  <2>7. ReadLast' /\ (released' = Append(released, clock) \/ released' = released)
    BY <2>3, <2>4, <2>6, ReleaseReadsLast
  <2>8. now[t] \in Nat /\ \A i \in 1..Len(released) : released[i] <= now[t]
    BY <1>4 DEF wakeLocal, ReadLast, TypeOK
  <2>9. (Covers(requestTimes) /\ RestExpired(requestTimes) /\ Spaced)'
    BY <2>2, <2>4, <2>5, <2>6, <2>7, <2>8, ReleaseKeepsWindow
  <2> QED
    BY <2>7, <2>9
<1>5. ASSUME NEW t \in Threads, waitServer(t) PROVE WindowInv'
  <2>1. serverHeadersFound' /\ clock' = clock
    BY <1>5 DEF waitServer, serverVars
  <2>2. \A u \in Threads : pc[u] # "sleep"
    BY <1>5 DEF waitServer, Locked
  <2>3. CASE Sleep(t, resetTime + Buffer)
    <3>1. \A u \in Threads : pc'[u] = "sleep" => now'[u] = clock
      BY <2>2, <2>3 DEF Sleep, TypeOK
    <3> QED
      BY <2>1, <2>3, <3>1 DEF Sleep, ReadLast
  <2>4. CASE Release(t)
    BY <2>1, <2>2, <2>4, ReleaseReadsLast
  <2> QED
    BY <1>5, <2>3, <2>4 DEF waitServer
<1>6. ASSUME NEW t \in Threads, wakeServer(t) PROVE WindowInv'
  <2>1. serverHeadersFound' /\ clock' = clock /\ Release(t)
    BY <1>6 DEF wakeServer, serverVars
  <2>2. \A u \in Threads \ {t} : pc[u] # "sleep"
    BY <1>6 DEF wakeServer, SleepInv
  <2> QED
    BY <2>1, <2>2, ReleaseReadsLast
<1>7. ASSUME NEW t \in Threads, requestThrows(t) \/ respondBare(t) \/ update(t)
      PROVE  WindowInv'
  <2>1. Done(t)
    BY <1>7 DEF requestThrows, respondBare, update
  <2>2. serverHeadersFound => serverHeadersFound'
    BY <1>7 DEF requestThrows, respondBare, update, serverVars
  <2>3. UNCHANGED <<now, clock, requestTimes, released>> /\ pc' = [pc EXCEPT ![t] = "idle"]
    BY <2>1 DEF Done
  <2>4. \A u \in Threads : pc'[u] = "sleep" => pc[u] = "sleep" /\ now'[u] = now[u]
    BY <2>3 DEF TypeOK
  <2> QED
    BY <1>1, <2>2, <2>3, <2>4
<1>8. CASE tick
  <2>1. clock' = clock + 1 /\ clock \in Nat /\ UNCHANGED <<threadVars, requestTimes, serverVars, released>>
    BY <1>8 DEF tick, TypeOK
  <2>2. \A i \in 1..Len(released) : released[i] \in Nat
    BY DEF TypeOK
  <2> QED
    BY <2>1, <2>2 DEF ReadLast, Covers, RestExpired, Spaced, threadVars, serverVars
<1>9. CASE UNCHANGED vars
  BY <1>1, <1>9 DEF vars, threadVars, serverVars
<1> QED
  BY <1>2, <1>3, <1>4, <1>5, <1>6, <1>7, <1>8, <1>9 DEF Next, wait, wake

(* Without server headers a window sees at most one public request more than  *)
(* the limit, although wait() records the time it read before it slept.       *)
THEOREM AlwaysAtMostOneTooMany == Spec => []AtMostOneTooMany
<1>1. Init => WindowInv
  BY ConstantsAssumption DEF Init, WindowInv, ReadLast, Covers, RestExpired, Spaced
<1>2. WindowInv => AtMostOneTooMany
  BY DEF WindowInv, AtMostOneTooMany
<1> QED
  BY <1>1, <1>2, LimiterInvariant, WindowStep, PTL DEF Spec

-------------------------------------------------------------------------------
(* The reset time. *)

(* Whoever sleeps in server mode does so past the reset time, which nobody    *)
(* can move meanwhile.                                                        *)
SleepsPastReset ==
  \A t \in Threads : pc[t] = "sleep" /\ serverHeadersFound => resetTime <= wakeAt[t]

(* update() needs the mutex, so no reset moves under a sleeper. *)
LEMMA SleepsPastResetStep ==
  TypeOK /\ TypeOK' /\ SleepsPastReset /\ [Next]_vars => SleepsPastReset'
<1> SUFFICES ASSUME TypeOK, TypeOK', SleepsPastReset, [Next]_vars PROVE SleepsPastReset'
  OBVIOUS
<1> USE DEF TypeOK, SleepsPastReset, threadVars, serverVars
<1>1. ASSUME NEW t \in Threads, request(t) PROVE SleepsPastReset'
  BY <1>1 DEF request, publicRequest, privateRequest, Call
<1>2. ASSUME NEW t \in Threads, waitLocal(t) PROVE SleepsPastReset'
  <2>1. ~serverHeadersFound'
    BY ONLY <1>2 DEF waitLocal, serverVars
  <2> QED
    BY <2>1
<1>3. ASSUME NEW t \in Threads, waitServer(t) PROVE SleepsPastReset'
  <2>1. UNCHANGED serverVars /\ \A u \in Threads : pc[u] # "sleep"
    BY <1>3 DEF waitServer, Locked
  <2>2. CASE Sleep(t, resetTime + Buffer)
    <3>1. resetTime <= resetTime + Buffer
      BY ConstantsAssumption
    <3>2. wakeAt'[t] = resetTime + Buffer
      BY <2>2 DEF Sleep
    <3>3. \A u \in Threads : pc'[u] = "sleep" => u = t
      BY <2>1, <2>2 DEF Sleep
    <3> QED
      BY <2>1, <3>1, <3>2, <3>3
  <2>3. CASE Release(t)
    BY <2>1, <2>3 DEF Release
  <2> QED
    BY <1>3, <2>2, <2>3 DEF waitServer
<1>4. ASSUME NEW t \in Threads, wakeLocal(t) \/ wakeServer(t) PROVE SleepsPastReset'
  <2>1. CASE wakeLocal(t)
    <3>1. ~serverHeadersFound'
      BY ONLY <2>1 DEF wakeLocal, serverVars
    <3> QED
      BY <3>1
  <2>2. CASE wakeServer(t)
    <3>1. UNCHANGED serverVars /\ Release(t)
      BY ONLY <2>2 DEF wakeServer
    <3> QED
      BY <3>1 DEF Release
  <2> QED
    BY <1>4, <2>1, <2>2
<1>5. ASSUME NEW t \in Threads, requestThrows(t) \/ respondBare(t) PROVE SleepsPastReset'
  BY <1>5 DEF requestThrows, respondBare, Done
<1>6. ASSUME NEW t \in Threads, update(t) PROVE SleepsPastReset'
  <2>1. \A u \in Threads : pc[u] # "sleep"
    BY <1>6 DEF update, Locked
  <2>2. \A u \in Threads : pc'[u] # "sleep"
    BY <1>6, <2>1 DEF update, Done
  <2> QED
    BY <2>2
<1>7. CASE tick \/ UNCHANGED vars
  BY <1>7 DEF tick, vars
<1> QED
  BY <1>1, <1>2, <1>3, <1>4, <1>5, <1>6, <1>7 DEF Next, wait, wake

(* No request is let go before the newest reset time with the quota used up,  *)
(* for any number of threads: the sleepers hold the mutex update() needs.     *)
THEOREM NewestResetAlwaysRespected == Spec => NewestResetRespected
<1>1. Init => SleepsPastReset
  BY DEF Init, SleepsPastReset
<1>2. ASSUME TypeOK, SleepsPastReset, NEW t \in Threads, (wait(t) /\ pc'[t] = "send") \/ wake(t),
             serverHeadersFound
      PROVE  ~(remaining <= 2 /\ clock < resetTime)
  <2>1. CASE waitServer(t) /\ pc'[t] = "send"
    <3>1. ~Sleep(t, resetTime + Buffer)
      BY <1>2, <2>1 DEF Sleep, TypeOK
    <3>2. ~(remaining <= 2 /\ resetTime > clock)
      BY <2>1, <3>1 DEF waitServer
    <3> QED
      BY <1>2, <3>2 DEF TypeOK
  <2>2. CASE wakeServer(t)
    <3>1. pc[t] = "sleep" /\ clock >= wakeAt[t] /\ wakeAt[t] \in Nat
      BY <1>2, <2>2 DEF wakeServer, TypeOK
    <3> QED
      BY <1>2, <3>1 DEF SleepsPastReset, TypeOK
  <2>3. ~waitLocal(t) /\ ~wakeLocal(t)
    BY <1>2 DEF waitLocal, wakeLocal
  <2> QED
    BY <1>2, <2>1, <2>2, <2>3 DEF wait, wake
<1>3. TypeOK /\ SleepsPastReset
        => [\A t \in Threads : ((wait(t) /\ pc'[t] = "send") \/ wake(t))
              => ~(serverHeadersFound /\ remaining <= 2 /\ clock < resetTime)]_vars
  BY <1>2
<1> QED
  BY <1>1, <1>3, SleepsPastResetStep, LimiterInvariant, PTL
     DEF Spec, NewestResetRespected, LimiterInv

-------------------------------------------------------------------------------
(* How long a sleep lasts. *)

(* No recorded time lies ahead, and the reset time only as far as the         *)
(* exchange put it.                                                           *)
TimesPast ==
  /\ \A i \in 1..Len(requestTimes) : requestTimes[i] <= clock
  /\ \A t \in Threads : now[t] <= clock
  /\ serverHeadersFound => \E d \in ResetDelays : resetTime <= clock + d

(* What is left of the deque was recorded in the past. *)
LEMMA PopKeepsPast ==
  ASSUME TypeOK, TimesPast
  PROVE  LET left == PopExpired(requestTimes, clock)
         IN  left \in Seq(Nat) /\ \A i \in 1..Len(left) : left[i] <= clock
<1> DEFINE left == PopExpired(requestTimes, clock)
<1>1. PICK g \in 0..Len(requestTimes) : left = SubSeq(requestTimes, g + 1, Len(requestTimes))
  BY PopExpiredIs DEF TypeOK
<1>2. left \in Seq(Nat)
  BY PopExpiredShrinks DEF TypeOK
<1> HIDE DEF left
<1>3. ASSUME NEW i \in 1..Len(left) PROVE left[i] <= clock
  <2>1. Len(left) = Len(requestTimes) - g /\ left[i] = requestTimes[g + i]
    BY <1>1, <1>3 DEF TypeOK
  <2>2. g + i \in 1..Len(requestTimes)
    BY <1>3, <2>1 DEF TypeOK
  <2> QED
    BY <2>1, <2>2 DEF TimesPast
<1> USE DEF left
<1> QED
  BY <1>2, <1>3

(* So is what is added to it. *)
LEMMA AppendKeepsPast ==
  ASSUME NEW left \in Seq(Nat), NEW at \in Nat, NEW end \in Nat, at <= end,
         \A i \in 1..Len(left) : left[i] <= end
  PROVE  \A i \in 1..Len(Append(left, at)) : Append(left, at)[i] <= end
<1> SUFFICES ASSUME NEW i \in 1..Len(left) + 1 PROVE Append(left, at)[i] <= end
  OBVIOUS
<1>1. Append(left, at)[i] = IF i = Len(left) + 1 THEN at ELSE left[i]
  OBVIOUS
<1>2. i = Len(left) + 1 \/ i \in 1..Len(left)
  OBVIOUS
<1> QED
  BY <1>1, <1>2

(* A thread goes to sleep by times of the past only. *)
LEMMA SleepBoundedStep ==
  LimiterInv /\ TypeOK' /\ TimesPast /\ SleepBounded /\ [Next]_vars => (TimesPast /\ SleepBounded)'
<1> SUFFICES ASSUME LimiterInv, TypeOK', TimesPast, SleepBounded, [Next]_vars
             PROVE  (TimesPast /\ SleepBounded)'
  OBVIOUS
<1> USE ConstantsAssumption DEF LimiterInv, TypeOK, threadVars, serverVars
<1>0. ASSUME UNCHANGED <<now, wakeAt, clock, requestTimes, serverHeadersFound, resetTime>>,
             \A u \in Threads : pc'[u] = "sleep" => pc[u] = "sleep"
      PROVE  (TimesPast /\ SleepBounded)'
  BY <1>0 DEF TimesPast, SleepBounded
<1>1. ASSUME NEW t \in Threads, request(t) PROVE (TimesPast /\ SleepBounded)'
  <2>1. PICK k \in {"public", "private"} : Call(t, k)
    BY <1>1 DEF request, publicRequest, privateRequest
  <2>2. \A u \in Threads : pc'[u] = "sleep" => pc[u] = "sleep"
    BY <2>1 DEF Call
  <2>3. UNCHANGED <<now, wakeAt, clock, requestTimes, serverHeadersFound, resetTime>>
    BY <2>1 DEF Call
  <2> QED
    BY <1>0, <2>2, <2>3
<1>2. ASSUME NEW t \in Threads, waitLocal(t) PROVE (TimesPast /\ SleepBounded)'
  <2> DEFINE left == PopExpired(requestTimes, clock)
  <2>1. left \in Seq(Nat) /\ \A i \in 1..Len(left) : left[i] <= clock
    BY PopKeepsPast
  <2>2. /\ \A u \in Threads : pc[u] # "sleep"
        /\ UNCHANGED <<clock, serverVars>> /\ ~serverHeadersFound
    BY <1>2 DEF waitLocal, Locked
  <2> HIDE DEF left
  <2>3. CASE Len(left) >= localLimit
    <3>1. Sleep(t, left[1] + windowSizeMs + Buffer) /\ requestTimes' = left
      BY <1>2, <2>3 DEF waitLocal, left
    <3>2. left[1] \in Nat /\ left[1] <= clock
      <4>1. localLimit \in Nat \ {0} /\ left \in Seq(Nat)
        BY <2>1
      <4>2. 1 \in 1..Len(left) /\ left[1] \in Nat
        BY ONLY <2>3, <4>1, OldestIsTime
      <4> QED
        BY ONLY <2>1, <4>2
    <3>3. /\ \A u \in Threads : pc'[u] = "sleep" => u = t
          /\ \A u \in Threads : now'[u] <= clock
          /\ now'[t] = clock /\ wakeAt'[t] = left[1] + windowSizeMs + Buffer
      BY <2>2, <3>1 DEF Sleep, TimesPast
    <3>4. wakeAt'[t] <= now'[t] + windowSizeMs + Buffer
      <4> DEFINE oldest == left[1]
      <4> HIDE DEF oldest
      <4> SUFFICES oldest + windowSizeMs + Buffer <= clock + windowSizeMs + Buffer
        BY <3>3 DEF oldest
      <4>1. oldest \in Nat /\ oldest <= clock
        BY <3>2 DEF oldest
      <4> QED
        BY <4>1
    <3> QED
      BY <2>1, <2>2, <3>1, <3>3, <3>4 DEF TimesPast, SleepBounded
  <2>4. CASE ~(Len(left) >= localLimit)
    <3>1. Release(t) /\ requestTimes' = Append(left, clock)
      BY <1>2, <2>4 DEF waitLocal, left
    <3>2. \A i \in 1..Len(requestTimes') : requestTimes'[i] <= clock
      <4>1. clock \in Nat /\ clock <= clock
        OBVIOUS
      <4>2. \A i \in 1..Len(Append(left, clock)) : Append(left, clock)[i] <= clock
        BY ONLY <2>1, <4>1, AppendKeepsPast
      <4> QED
        BY ONLY <3>1, <4>2
    <3>3. \A u \in Threads : pc'[u] # "sleep" /\ now'[u] <= clock
      BY <2>2, <3>1 DEF Release, TimesPast
    <3> QED
      BY <2>2, <3>2, <3>3 DEF TimesPast, SleepBounded
  <2> QED
    BY <2>3, <2>4
<1>3. ASSUME NEW t \in Threads, wakeLocal(t) PROVE (TimesPast /\ SleepBounded)'
  <2> DEFINE left == PopExpired(requestTimes, clock)
  <2>1. left \in Seq(Nat) /\ \A i \in 1..Len(left) : left[i] <= clock
    BY PopKeepsPast
  <2>2. /\ requestTimes' = Append(left, now[t]) /\ Release(t)
        /\ UNCHANGED <<clock, serverVars>> /\ ~serverHeadersFound
    BY <1>3 DEF wakeLocal
  <2> HIDE DEF left
  <2>3. \A i \in 1..Len(requestTimes') : requestTimes'[i] <= clock
    <3>1. now[t] \in Nat /\ now[t] <= clock
      BY DEF TimesPast
    <3> QED
      BY AppendKeepsPast, <2>1, <2>2, <3>1
  <2>4. \A u \in Threads : pc'[u] # "sleep" /\ now'[u] <= clock
    <3>1. \A u \in Threads \ {t} : pc[u] # "sleep"
      BY <1>3 DEF wakeLocal, SleepInv
    <3> QED
      BY <2>2, <3>1 DEF Release, TimesPast
  <2> QED
    BY <2>2, <2>3, <2>4 DEF TimesPast, SleepBounded
<1>4. ASSUME NEW t \in Threads, waitServer(t) PROVE (TimesPast /\ SleepBounded)'
  <2>1. /\ \A u \in Threads : pc[u] # "sleep"
        /\ UNCHANGED <<clock, requestTimes, serverVars>> /\ serverHeadersFound
    BY <1>4 DEF waitServer, Locked
  <2>2. CASE Sleep(t, resetTime + Buffer)
    <3>1. PICK d \in ResetDelays : resetTime <= clock + d
      BY <2>1 DEF TimesPast
    <3>2. /\ \A u \in Threads : pc'[u] = "sleep" => u = t
          /\ \A u \in Threads : now'[u] <= clock
          /\ now'[t] = clock /\ wakeAt'[t] = resetTime + Buffer
      BY <2>1, <2>2 DEF Sleep, TimesPast
    <3>3. wakeAt'[t] <= now'[t] + d + Buffer
      BY <3>1, <3>2
    <3> QED
      BY <2>1, <3>2, <3>3 DEF TimesPast, SleepBounded
  <2>3. CASE Release(t)
    BY <2>1, <2>3 DEF Release, TimesPast, SleepBounded
  <2> QED
    BY <1>4, <2>2, <2>3 DEF waitServer
<1>5. ASSUME NEW t \in Threads, wakeServer(t) PROVE (TimesPast /\ SleepBounded)'
  BY <1>5 DEF wakeServer, Release, TimesPast, SleepBounded
<1>6. ASSUME NEW t \in Threads, requestThrows(t) \/ respondBare(t)
      PROVE  (TimesPast /\ SleepBounded)'
  <2>1. \A u \in Threads : pc'[u] = "sleep" => pc[u] = "sleep"
    BY <1>6 DEF requestThrows, respondBare, Done
  <2> QED
    BY <1>0, <1>6, <2>1 DEF requestThrows, respondBare, Done
<1>7. ASSUME NEW t \in Threads, update(t) PROVE (TimesPast /\ SleepBounded)'
  <2>1. \A u \in Threads : pc[u] # "sleep" /\ pc'[u] # "sleep"
    BY <1>7 DEF update, Done, Locked
  <2>2. /\ UNCHANGED <<now, wakeAt, clock, requestTimes>>
        /\ \/ \E d \in ResetDelays : resetTime' = clock + d
           \/ UNCHANGED <<resetTime, serverHeadersFound>>
    BY <1>7 DEF update, Done
  <2> QED
    BY <2>1, <2>2 DEF TimesPast, SleepBounded
<1>8. CASE tick
  <2>1. clock' = clock + 1 /\ UNCHANGED <<pc, now, wakeAt, requestTimes, serverVars>>
    BY <1>8 DEF tick
  <2>2. serverHeadersFound => \E d \in ResetDelays : resetTime <= clock + 1 + d
    BY DEF TimesPast
  <2> QED
    BY <2>1, <2>2 DEF TimesPast, SleepBounded
<1>9. CASE UNCHANGED vars
  BY <1>9 DEF vars, TimesPast, SleepBounded
<1> QED
  BY <1>1, <1>2, <1>3, <1>4, <1>5, <1>6, <1>7, <1>8, <1>9 DEF Next, wait, wake

(* The mutex is never slept on for longer than the window, or the time to the *)
(* reset as the exchange sent it, and the buffer.                             *)
THEOREM SleepsAlwaysBounded == Spec => []SleepBounded
<1>1. Init => TimesPast /\ SleepBounded
  BY DEF Init, TimesPast, SleepBounded
<1> QED
  BY <1>1, SleepBoundedStep, LimiterInvariant, PTL DEF Spec, LimiterInv
===============================================================================
