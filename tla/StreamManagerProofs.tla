-------------------------- MODULE StreamManagerProofs --------------------------
(***************************************************************************)
(* Theorems about WSStreamManager, for any streams, fields, timeouts and   *)
(* number of changes, with and without a logger: the callback finds its    *)
(* caches, and what they hold is what the exchange had.                    *)
(***************************************************************************)
EXTENDS WSStreamManager, TLAPS

-------------------------------------------------------------------------------
(* The threads. *)

(* Where the caller is in the client follows from where it is in the manager; *)
(* a callback runs on an io thread that serves, and the caches go when there  *)
(* is no such thread and no caller to start one.                              *)
ThreadsInv ==
  /\ handling => ioThread = "run"
  /\ caller = "spawn" => ioThread = "none"
  /\ caller \in {"set", "join", "spawn"} => user = "start"
  /\ user \in {"joined", "zeroed", "gone"} => ioThread = "none"
  /\ ~members => user = "gone"

(* Before the first call there is no thread. *)
LEMMA ThreadsInit == Init => ThreadsInv
  BY DEF Init, ThreadsInv, Client!Init

(* Every step keeps destructor and io thread in that relation. *)
LEMMA ThreadsStep == ThreadsInv /\ [Next]_vars => ThreadsInv'
<1> SUFFICES ASSUME ThreadsInv, [Next]_vars PROVE ThreadsInv'
  OBVIOUS
<1> USE DEF ThreadsInv, caches
<1>1. ASSUME NEW s \in Streams, check(s) PROVE ThreadsInv'
  BY <1>1 DEF check, client
<1>2. ASSUME NEW s \in Streams, read(s) \/ accept(s) \/ refuse(s) PROVE ThreadsInv'
  BY <1>2 DEF read, accept, refuse, client
<1>3. ASSUME NEW s \in Streams, sessionClaims(s) \/ sessionGivesUp(s) PROVE ThreadsInv'
  BY <1>3 DEF sessionClaims, sessionGivesUp, client
<1>4. ASSUME NEW s \in Streams, NEW f \in Fields, change(s, f) PROVE ThreadsInv'
  BY <1>4 DEF change, client
<1>5. CASE subscribeAnew
  BY <1>5 DEF subscribeAnew, Client!subscribeAnew
<1>6. CASE subscribeLock
  BY <1>6 DEF subscribeLock, Client!subscribeLock
<1>7. CASE subscribeQueue
  BY <1>7 DEF subscribeQueue, Client!subscribeQueue
<1>8. CASE run
  BY <1>8 DEF run, Client!runCheck
<1>9. CASE runStarts
  BY <1>9 DEF runStarts, Client!InRun, Client!runSet, Client!runJoin, Client!runSpawn
<1>10. CASE destroy
  BY <1>10 DEF destroy, Client!destroy
<1>11. CASE destroyJoin
  BY <1>11 DEF destroyJoin, Client!destroyJoin
<1>12. CASE zeroTimeout
  BY <1>12 DEF zeroTimeout, client
<1>13. CASE freeMembers
  BY <1>13 DEF freeMembers, client
<1>14. ASSUME NEW n \in Timeouts, setTimeout(n) PROVE ThreadsInv'
  BY <1>14 DEF setTimeout, client
<1>15. CASE threadStep
  BY <1>15 DEF threadStep, Client!IoThread, Client!ioBegin, Client!ioRestart,
       Client!runReturns, Client!ioClear, Client!ioClearAgain
<1>16. CASE sessionEnds
  BY <1>16 DEF sessionEnds, Client!sessionEnds
<1>17. CASE sessionThrows
  BY <1>17 DEF sessionThrows, Throw, Client!handlerThrows
<1>18. CASE callbackBegins
  BY <1>18 DEF callbackBegins, Client!Serving, client
<1>19. CASE callbackEnds
  BY <1>19 DEF callbackEnds, client
<1>20. CASE callbackFails
  BY <1>20 DEF callbackFails, Throw, Client!handlerThrows, client
<1>21. CASE look
  BY <1>21 DEF look, client
<1>22. CASE connectionLost
  BY <1>22 DEF connectionLost, client
<1>23. CASE UNCHANGED vars
  BY <1>23 DEF vars, client
<1> QED
  BY <1>1, <1>2, <1>3, <1>4, <1>5, <1>6, <1>7, <1>8, <1>9, <1>10, <1>11, <1>12, <1>13,
     <1>14, <1>15, <1>16, <1>17, <1>18, <1>19, <1>20, <1>21, <1>22, <1>23
     DEF Next, Subscribing, Destroying, Callback

(* The destructor ends the io thread before the caches go, so the callback    *)
(* never runs without them.                                                   *)
THEOREM CallbackAlwaysFindsCaches == Spec => []CallbackFindsCaches
<1>1. ThreadsInv => CallbackFindsCaches
  BY DEF ThreadsInv, CallbackFindsCaches
<1> QED
  BY <1>1, ThreadsInit, ThreadsStep, PTL DEF Spec

-------------------------------------------------------------------------------
(* The feed. *)

Event == [stream : Streams, data : UNION {[D -> Nat] : D \in SUBSET Fields}]

FeedType ==
  /\ exchange \in [Streams -> [Fields -> Nat]]
  /\ past \in [Streams -> SUBSET [Fields -> Nat]]
  /\ \A s \in Streams : exchange[s] \in past[s]
  /\ DOMAIN cache \subseteq Streams
  /\ \A s \in DOMAIN cache : cache[s] \in [Fields -> Nat]
  /\ wire \in Seq(Event)
  /\ handling => wire # <<>>
  /\ streaming \subseteq Streams

(* What a step does to exchange, wire and cache, unless it is one of those    *)
(* the proofs below look at.                                                  *)
Quiet ==
  /\ UNCHANGED <<market, wire, streaming, cache, damaged>>
  /\ handling' => handling \/ wire # <<>>

Cut ==
  /\ wire' = <<>> /\ streaming' = {} /\ ~handling'
  /\ UNCHANGED <<market, cache, damaged>>

Lost ==
  /\ streaming' = {}
  /\ UNCHANGED <<market, wire, cache, damaged, handling>>

(* What a step is to the feed. *)
LEMMA StepKinds ==
  ASSUME [Next]_vars
  PROVE  \/ Quiet \/ Cut \/ Lost \/ callbackEnds \/ callbackFails
         \/ \E s \in Streams : accept(s) \/ \E f \in Fields : change(s, f)
<1> USE DEF caches, feed, market, ledger, Ledger!vars
<1>1. ASSUME NEW s \in Streams, check(s) \/ read(s) \/ refuse(s) PROVE Quiet
  BY <1>1 DEF check, read, refuse, Quiet
<1>2. ASSUME NEW s \in Streams, sessionClaims(s) \/ sessionGivesUp(s) PROVE Quiet
  BY <1>2 DEF sessionClaims, sessionGivesUp, Ledger!Claim, Ledger!GiveUp, Quiet
<1>3. CASE Subscribing
  BY <1>3 DEF Subscribing, subscribeAnew, subscribeLock, subscribeQueue, run, runStarts,
       Ledger!Ask, Quiet
<1>4. CASE destroy \/ Destroying
  BY <1>4 DEF destroy, Destroying, destroyJoin, zeroTimeout, freeMembers, Quiet
<1>5. ASSUME NEW n \in Timeouts, setTimeout(n) PROVE Quiet
  BY <1>5 DEF setTimeout, Quiet
<1>6. CASE threadStep \/ look
  BY <1>6 DEF threadStep, look, Quiet
<1>7. CASE callbackBegins
  BY <1>7 DEF callbackBegins, Quiet
<1>8. CASE sessionEnds
  BY <1>8 DEF sessionEnds, Forget, Cut
<1>9. CASE sessionThrows
  BY <1>9 DEF sessionThrows, Throw, Forget, Ledger!Disconnect, Cut
<1>10. CASE connectionLost
  BY <1>10 DEF connectionLost, Ledger!Disconnect, Lost
<1>11. CASE UNCHANGED vars
  BY <1>11 DEF vars, Quiet
<1> QED
  BY <1>1, <1>2, <1>3, <1>4, <1>5, <1>6, <1>7, <1>8, <1>9, <1>10, <1>11 DEF Next, Callback

(* An event names a stream and has numbers for some fields. *)
LEMMA EventFacts ==
  ASSUME NEW e \in Event
  PROVE  /\ e.stream \in Streams /\ DOMAIN e.data \subseteq Fields
         /\ \A f \in DOMAIN e.data : e.data[f] \in Nat
<1>1. PICK D \in SUBSET Fields : e.data \in [D -> Nat]
  BY DEF Event
<1> QED
  BY <1>1 DEF Event

(* An event that is sent goes to the end of the wire.                         *)
LEMMA AcceptFacts ==
  ASSUME FeedType, NEW s \in Streams, accept(s)
  PROVE  LET e == [stream |-> s, data |-> exchange[s]]
         IN  /\ e \in Event /\ DOMAIN exchange[s] = Fields
             /\ wire' = Append(wire, e)
             /\ streaming' = streaming \union {s}
             /\ UNCHANGED <<market, cache, damaged, handling>>
<1>1. exchange[s] \in [Fields -> Nat]
  BY DEF FeedType
<1>2. [stream |-> s, data |-> exchange[s]] \in Event
  BY <1>1 DEF Event
<1> QED
  BY <1>1, <1>2 DEF accept, Ledger!Accept, caches

Sent(s, f) == [stream |-> s,
               data |-> IF s \in Tickers THEN [g \in {f} |-> exchange'[s][g]] ELSE exchange'[s]]

(* A change at the exchange adds one to one field, and is sent if the stream flows. *)
LEMMA ChangeFacts ==
  ASSUME FeedType, NEW s \in Streams, NEW f \in Fields, change(s, f)
  PROVE  /\ exchange' \in [Streams -> [Fields -> Nat]]
         /\ \A t \in Streams, g \in Fields :
              exchange'[t][g] = IF t = s /\ g = f THEN exchange[t][g] + 1 ELSE exchange[t][g]
         /\ \A t \in Streams : t # s => exchange'[t] = exchange[t]
         /\ past' \in [Streams -> SUBSET [Fields -> Nat]]
         /\ \A t \in Streams : past[t] \subseteq past'[t] /\ exchange'[t] \in past'[t]
         /\ Sent(s, f) \in Event
         /\ wire' = IF s \in streaming THEN Append(wire, Sent(s, f)) ELSE wire
         /\ UNCHANGED <<cache, damaged, handling, streaming>>
<1>1. exchange' = [exchange EXCEPT ![s][f] = @ + 1]
  BY DEF change
<1>2. /\ exchange' \in [Streams -> [Fields -> Nat]]
      /\ \A t \in Streams, g \in Fields :
           exchange'[t][g] = IF t = s /\ g = f THEN exchange[t][g] + 1 ELSE exchange[t][g]
      /\ \A t \in Streams : t # s => exchange'[t] = exchange[t]
  BY <1>1 DEF FeedType
<1>3. past' = [past EXCEPT ![s] = @ \union {exchange'[s]}]
  BY DEF change
<1>4. /\ past' \in [Streams -> SUBSET [Fields -> Nat]]
      /\ \A t \in Streams : past[t] \subseteq past'[t] /\ exchange'[t] \in past'[t]
  BY <1>2, <1>3 DEF FeedType
<1>5. Sent(s, f) \in Event
  <2>1. exchange'[s] \in [Fields -> Nat]
    BY <1>2
  <2>2. [g \in {f} |-> exchange'[s][g]] \in [{f} -> Nat]
    BY <2>1
  <2>3. {f} \in SUBSET Fields /\ Fields \in SUBSET Fields
    OBVIOUS
  <2> QED
    BY <2>1, <2>2, <2>3 DEF Event, Sent
<1>6. wire' = IF s \in streaming THEN Append(wire, Sent(s, f)) ELSE wire
  BY DEF change, Sent
<1> QED
  BY <1>2, <1>4, <1>5, <1>6 DEF change, caches, ledger

(* What is left of a queue when its head is taken. *)
LEMMA TailFacts ==
  ASSUME NEW w \in Seq(Event), w # <<>>
  PROVE  /\ Tail(w) \in Seq(Event) /\ Len(w) \in Nat /\ Len(w) > 0
         /\ Len(Tail(w)) = Len(w) - 1 /\ Head(w) = w[1] /\ w[1] \in Event
         /\ \A i \in 1..Len(w) - 1 : Tail(w)[i] = w[i + 1]
  OBVIOUS

(* What becomes of a queue when an event is added. *)
LEMMA AppendFacts ==
  ASSUME NEW w \in Seq(Event), NEW e \in Event
  PROVE  /\ Append(w, e) \in Seq(Event) /\ Len(w) \in Nat
         /\ Len(Append(w, e)) = Len(w) + 1 /\ Append(w, e)[Len(w) + 1] = e
         /\ \A i \in 1..Len(w) : Append(w, e)[i] = w[i]
         /\ Append(w, e) # <<>>
<1>1. /\ Append(w, e) \in Seq(Event) /\ Len(w) \in Nat
      /\ Len(Append(w, e)) = Len(w) + 1 /\ Append(w, e)[Len(w) + 1] = e
      /\ \A i \in 1..Len(w) : Append(w, e)[i] = w[i]
  OBVIOUS
<1>2. Len(<<>>) = 0
  OBVIOUS
<1> QED
  BY <1>1, <1>2

(* Everything on the wire is an event. *)
LEMMA WireFacts ==
  ASSUME FeedType, NEW i \in 1..Len(wire)
  PROVE  /\ wire[i] \in Event /\ wire[i].stream \in Streams
         /\ DOMAIN wire[i].data \subseteq Fields
         /\ \A f \in DOMAIN wire[i].data : wire[i].data[f] \in Nat
<1>1. wire[i] \in Event
  BY DEF FeedType
<1> QED
  BY <1>1, EventFacts

(* Whether it loads the event or fails, the callback touches one entry, where *)
(* each field becomes the event's or stays; what follows stays on the wire,   *)
(* or is gone with the session.                                               *)
Merged(e) ==
  /\ DOMAIN cache \subseteq DOMAIN cache'
  /\ DOMAIN cache' \subseteq DOMAIN cache \union {e.stream}
  /\ \A t \in DOMAIN cache \ {e.stream} : cache'[t] = cache[t]
  /\ e.stream \in DOMAIN cache' =>
       /\ cache'[e.stream] \in [Fields -> Nat]
       /\ \A f \in Fields : \/ f \in DOMAIN e.data /\ cache'[e.stream][f] = e.data[f]
                            \/ cache'[e.stream][f] = Entry(e.stream)[f]

Taken == \/ wire' = Tail(wire) /\ UNCHANGED streaming
         \/ wire' = <<>> /\ streaming' = {}

(* An entry that is missing reads as zeros. *)
LEMMA EntryFacts ==
  ASSUME FeedType, NEW s \in Streams
  PROVE  /\ Entry(s) \in [Fields -> Nat]
         /\ s \in DOMAIN cache => Entry(s) = cache[s]
         /\ s \notin DOMAIN cache => \A f \in Fields : Entry(s)[f] = 0
  BY DEF FeedType, Entry

(* The callback takes the first event and merges all, some or none of it. *)
LEMMA CallbackFacts ==
  ASSUME FeedType, callbackEnds \/ callbackFails
  PROVE  /\ wire # <<>> /\ Head(wire) = wire[1] /\ 1 \in 1..Len(wire)
         /\ Merged(wire[1]) /\ Taken /\ ~handling'
         /\ UNCHANGED market
<1> DEFINE e == Head(wire)
           s == e.stream
<1>1. wire # <<>> /\ wire \in Seq(Event)
  BY DEF FeedType, callbackEnds, callbackFails
<1>2. e = wire[1] /\ 1 \in 1..Len(wire)
  BY <1>1, TailFacts
<1>3. /\ s \in Streams /\ DOMAIN e.data \subseteq Fields
      /\ \A f \in DOMAIN e.data : e.data[f] \in Nat
  BY <1>2, WireFacts
<1>4. /\ Entry(s) \in [Fields -> Nat]
      /\ s \in DOMAIN cache => Entry(s) = cache[s]
  BY <1>3, EntryFacts
<1>5. CASE callbackEnds
  <2>1. /\ Loaded(e) \in [Fields -> Nat]
        /\ \A f \in Fields : Loaded(e)[f] = IF f \in DOMAIN e.data THEN e.data[f]
                                            ELSE Entry(s)[f]
    BY <1>3, <1>4 DEF Loaded
  <2>2. cache' = [t \in DOMAIN cache \union {s} |-> IF t = s THEN Loaded(e) ELSE cache[t]]
    BY <1>5 DEF callbackEnds
  <2>3. Merged(e)
    BY <2>1, <2>2 DEF Merged
  <2> QED
    BY <1>1, <1>2, <1>5, <2>3 DEF callbackEnds, Taken, ledger
<1>6. CASE callbackFails
  <2>1. Taken /\ ~handling' /\ UNCHANGED market
    <3>1. /\ handling' = FALSE /\ UNCHANGED market
          /\ (wire' = Tail(wire) /\ UNCHANGED ledger) \/ Throw
      BY <1>6, Zenon DEF callbackFails
    <3>2. Throw => wire' = <<>> /\ streaming' = {}
      BY DEF Throw, Forget, Ledger!Disconnect
    <3> QED
      BY <3>1, <3>2 DEF Taken, ledger
  <2>2. PICK loaded \in SUBSET DOMAIN e.data :
          cache' = IF s \notin DOMAIN cache \intersect Tickers THEN cache
                   ELSE [cache EXCEPT ![s] = [f \in Fields |-> IF f \in loaded
                                                THEN e.data[f] ELSE @[f]]]
    BY <1>6, Zenon DEF callbackFails
  <2>3. ASSUME s \notin DOMAIN cache \intersect Tickers PROVE Merged(e)
    <3>1. cache' = cache
      BY <2>2, <2>3
    <3> QED
      BY <1>4, <3>1 DEF Merged
  <2>4. ASSUME s \in DOMAIN cache \intersect Tickers PROVE Merged(e)
    <3> DEFINE new == [f \in Fields |-> IF f \in loaded THEN e.data[f] ELSE cache[s][f]]
    <3>1. /\ new \in [Fields -> Nat]
          /\ \A f \in Fields : new[f] = IF f \in loaded THEN e.data[f] ELSE Entry(s)[f]
      BY <1>3, <1>4, <2>4
    <3>2. cache' = [cache EXCEPT ![s] = new]
      BY <2>2, <2>4
    <3> HIDE DEF new
    <3>3. DOMAIN cache' = DOMAIN cache /\ cache'[s] = new
          /\ \A t \in DOMAIN cache \ {s} : cache'[t] = cache[t]
      BY <2>4, <3>2
    <3> QED
      BY <3>1, <3>3, <2>4 DEF Merged
  <2> QED
    BY <1>1, <1>2, <2>1, <2>3, <2>4
<1> QED
  BY <1>5, <1>6

(* At first caches and wire are empty. *)
LEMMA FeedTypeInit == Init => FeedType
<1> SUFFICES ASSUME Init PROVE FeedType
  OBVIOUS
<1>1. exchange \in [Streams -> [Fields -> Nat]]
  BY DEF Init
<1>2. past \in [Streams -> SUBSET [Fields -> Nat]] /\ \A s \in Streams : exchange[s] \in past[s]
  BY <1>1 DEF Init
<1> QED
  BY <1>1, <1>2 DEF Init, FeedType, Ledger!Init

(* Every step keeps the types of caches, wire and exchange. *)
LEMMA FeedTypeStep == FeedType /\ [Next]_vars => FeedType'
<1> SUFFICES ASSUME FeedType, [Next]_vars PROVE FeedType'
  OBVIOUS
<1>1. CASE Quiet
  BY <1>1 DEF Quiet, FeedType, market
<1>2. CASE Cut
  BY <1>2 DEF Cut, FeedType, market
<1>3. CASE Lost
  BY <1>3 DEF Lost, FeedType, market
<1>4. ASSUME NEW s \in Streams, accept(s) PROVE FeedType'
  <2> DEFINE e == [stream |-> s, data |-> exchange[s]]
  <2>1. /\ e \in Event /\ wire' = Append(wire, e)
        /\ streaming' = streaming \union {s}
        /\ UNCHANGED <<market, cache, damaged, handling>>
    BY <1>4, AcceptFacts
  <2> HIDE DEF e
  <2>2. wire' \in Seq(Event) /\ wire' # <<>>
    BY <2>1, AppendFacts DEF FeedType
  <2> QED
    BY <2>1, <2>2 DEF FeedType, market
<1>5. ASSUME NEW s \in Streams, NEW f \in Fields, change(s, f) PROVE FeedType'
  <2>1. /\ exchange' \in [Streams -> [Fields -> Nat]]
        /\ past' \in [Streams -> SUBSET [Fields -> Nat]]
        /\ \A t \in Streams : exchange'[t] \in past'[t]
        /\ UNCHANGED <<cache, handling, streaming>>
    BY <1>5, ChangeFacts
  <2>2. Sent(s, f) \in Event /\ (wire' = Append(wire, Sent(s, f)) \/ wire' = wire)
    BY <1>5, ChangeFacts
  <2>3. wire' \in Seq(Event) /\ (wire # <<>> => wire' # <<>>)
    BY <2>2, AppendFacts DEF FeedType
  <2> QED
    BY <2>1, <2>3 DEF FeedType
<1>6. CASE callbackEnds \/ callbackFails
  <2>1. wire' \in Seq(Event)
    <3>1. wire # <<>> /\ Taken
      BY <1>6, CallbackFacts
    <3>2. wire \in Seq(Event)
      BY DEF FeedType
    <3>3. Tail(wire) \in Seq(Event)
      BY <3>1, <3>2, TailFacts
    <3>4. <<>> \in Seq(Event)
      OBVIOUS
    <3>5. wire' = Tail(wire) \/ wire' = <<>>
      BY <3>1 DEF Taken
    <3> QED
      BY <3>3, <3>4, <3>5, Zenon
  <2>2. /\ 1 \in 1..Len(wire) /\ Merged(wire[1]) /\ ~handling' /\ UNCHANGED market
        /\ streaming' \subseteq streaming
    BY <1>6, CallbackFacts DEF Taken
  <2>3. wire[1].stream \in Streams
    BY <2>2, WireFacts
  <2> QED
    BY <2>1, <2>2, <2>3 DEF FeedType, Merged, market
<1> QED
  BY <1>1, <1>2, <1>3, <1>4, <1>5, <1>6, StepKinds

-------------------------------------------------------------------------------
(* No entry goes back: a cached value is not newer than any on the wire, nor  *)
(* one of those newer than what the exchange has, and they arrive in order.   *)
CacheOldest ==
  \A s \in DOMAIN cache : \A f \in Fields :
    /\ cache[s][f] <= exchange[s][f]
    /\ \A i \in 1..Len(wire) :
         wire[i].stream = s /\ f \in DOMAIN wire[i].data => cache[s][f] <= wire[i].data[f]

WireOlder ==
  \A i \in 1..Len(wire) : \A f \in DOMAIN wire[i].data :
    wire[i].data[f] <= exchange[wire[i].stream][f]

WireInOrder ==
  \A i, j \in 1..Len(wire) : \A f \in DOMAIN wire[i].data :
    i < j /\ wire[i].stream = wire[j].stream /\ f \in DOMAIN wire[j].data
      => wire[i].data[f] <= wire[j].data[f]

OrderInv == CacheOldest /\ WireOlder /\ WireInOrder

(* An event that is sent has the exchange's values, the newest there are.     *)
LEMMA SendKeepsOrder ==
  ASSUME FeedType, FeedType', OrderInv, NEW e \in Event,
         wire' = Append(wire, e), UNCHANGED cache,
         \A t \in Streams, g \in Fields : exchange[t][g] <= exchange'[t][g],
         \A g \in DOMAIN e.data : e.data[g] = exchange'[e.stream][g]
  PROVE  OrderInv'
<1>1. /\ Len(wire) \in Nat /\ Len(wire') = Len(wire) + 1 /\ wire'[Len(wire) + 1] = e
      /\ \A i \in 1..Len(wire) : wire'[i] = wire[i]
  BY AppendFacts DEF FeedType
<1>2. /\ e.stream \in Streams /\ DOMAIN e.data \subseteq Fields
      /\ \A g \in DOMAIN e.data : e.data[g] \in Nat
  BY EventFacts
<1>3. \A t \in Streams, g \in Fields : exchange[t][g] \in Nat /\ exchange'[t][g] \in Nat
  BY DEF FeedType
<1>4. \A t \in DOMAIN cache, g \in Fields : t \in Streams /\ cache[t][g] \in Nat
  BY DEF FeedType
<1>5. \A i \in 1..Len(wire) : /\ wire[i].stream \in Streams /\ DOMAIN wire[i].data \subseteq Fields
                              /\ \A g \in DOMAIN wire[i].data : wire[i].data[g] \in Nat
  BY WireFacts
<1>6. \A i \in 1..Len(wire') : i \in 1..Len(wire) \/ i = Len(wire) + 1
  BY <1>1
<1>7. CacheOldest'
  <2> SUFFICES ASSUME NEW s \in DOMAIN cache, NEW f \in Fields
               PROVE  /\ cache[s][f] <= exchange'[s][f]
                      /\ \A i \in 1..Len(wire') :
                           wire'[i].stream = s /\ f \in DOMAIN wire'[i].data
                             => cache[s][f] <= wire'[i].data[f]
    BY DEF CacheOldest
  <2>1. cache[s][f] <= exchange[s][f] /\ exchange[s][f] <= exchange'[s][f] /\ s \in Streams
    BY <1>4 DEF OrderInv, CacheOldest
  <2>2. cache[s][f] <= exchange'[s][f]
    BY <1>3, <1>4, <2>1
  <2>3. ASSUME NEW i \in 1..Len(wire'), wire'[i].stream = s, f \in DOMAIN wire'[i].data
        PROVE  cache[s][f] <= wire'[i].data[f]
    <3>1. CASE i \in 1..Len(wire)
      BY <1>1, <2>3, <3>1 DEF OrderInv, CacheOldest
    <3>2. CASE i = Len(wire) + 1
      BY <1>1, <2>2, <2>3, <3>2
    <3> QED
      BY <1>6, <3>1, <3>2
  <2> QED
    BY <2>2, <2>3
<1>8. WireOlder'
  <2> SUFFICES ASSUME NEW i \in 1..Len(wire'), NEW f \in DOMAIN wire'[i].data
               PROVE  wire'[i].data[f] <= exchange'[wire'[i].stream][f]
    BY DEF WireOlder
  <2>1. CASE i \in 1..Len(wire)
    <3>1. wire'[i] = wire[i] /\ f \in DOMAIN wire[i].data
      BY <1>1, <2>1
    <3>2. wire[i].data[f] <= exchange[wire[i].stream][f]
      BY <2>1, <3>1 DEF OrderInv, WireOlder
    <3>3. f \in Fields /\ wire[i].stream \in Streams /\ wire[i].data[f] \in Nat
      BY <1>5, <2>1, <3>1
    <3> QED
      BY <1>3, <3>1, <3>2, <3>3
  <2>2. CASE i = Len(wire) + 1
    BY <1>1, <1>2, <1>3, <2>2
  <2> QED
    BY <1>6, <2>1, <2>2
<1>9. WireInOrder'
  <2> SUFFICES ASSUME NEW i \in 1..Len(wire'), NEW j \in 1..Len(wire'),
                      NEW f \in DOMAIN wire'[i].data,
                      i < j, wire'[i].stream = wire'[j].stream, f \in DOMAIN wire'[j].data
               PROVE  wire'[i].data[f] <= wire'[j].data[f]
    BY DEF WireInOrder
  <2>1. i \in 1..Len(wire)
    BY <1>1
  <2>2. CASE j \in 1..Len(wire)
    BY <1>1, <2>1, <2>2 DEF OrderInv, WireInOrder
  <2>3. CASE j = Len(wire) + 1
    <3>1. f \in DOMAIN e.data /\ wire'[j].data[f] = exchange'[e.stream][f] /\ wire[i].stream = e.stream
      BY <1>1, <2>1, <2>3
    <3>2. wire'[i].data[f] <= exchange'[wire'[i].stream][f]
      BY <1>8 DEF WireOlder
    <3> QED
      BY <1>1, <2>1, <3>1, <3>2
  <2> QED
    BY <1>6, <2>2, <2>3
<1> QED
  BY <1>7, <1>8, <1>9 DEF OrderInv

(* What the callback leaves in the cache is what was there, or the event's.   *)
LEMMA CallbackGoesForward ==
  ASSUME FeedType, OrderInv, callbackEnds \/ callbackFails, NEW s \in DOMAIN cache, NEW f \in Fields
  PROVE  s \in DOMAIN cache' /\ cache[s][f] <= cache'[s][f]
<1>1. 1 \in 1..Len(wire) /\ Merged(wire[1])
  BY CallbackFacts
<1>2. s \in Streams /\ cache[s][f] \in Nat
  BY DEF FeedType
<1>3. CASE s # wire[1].stream
  BY <1>1, <1>2, <1>3 DEF Merged
<1>4. CASE s = wire[1].stream
  <2>1. Entry(s) = cache[s]
    BY <1>2, EntryFacts
  <2>2. f \in DOMAIN wire[1].data => cache[s][f] <= wire[1].data[f]
    BY <1>1, <1>4 DEF OrderInv, CacheOldest
  <2>3. s \in DOMAIN cache'
    BY <1>1 DEF Merged
  <2>4. \/ f \in DOMAIN wire[1].data /\ cache'[s][f] = wire[1].data[f]
        \/ cache'[s][f] = cache[s][f]
    BY <1>1, <1>4, <2>1, <2>3 DEF Merged
  <2> QED
    BY <1>2, <2>2, <2>3, <2>4
<1> QED
  BY <1>3, <1>4

(* Merging the oldest event on the wire keeps the order. *)
LEMMA CallbackKeepsOrder ==
  ASSUME FeedType, FeedType', OrderInv, callbackEnds \/ callbackFails
  PROVE  OrderInv'
<1> DEFINE s == wire[1].stream
<1>1. /\ wire # <<>> /\ 1 \in 1..Len(wire) /\ Merged(wire[1]) /\ Taken
      /\ exchange' = exchange
  BY CallbackFacts DEF market
<1>2. /\ s \in Streams /\ DOMAIN wire[1].data \subseteq Fields
      /\ \A f \in DOMAIN wire[1].data : wire[1].data[f] \in Nat
  BY <1>1, WireFacts
<1>3. Len(wire') \in Nat /\ \A i \in 1..Len(wire') : /\ i \in 1..Len(wire) /\ i + 1 \in 1..Len(wire)
                                                     /\ wire'[i] = wire[i + 1]
  <2>1. Len(wire) \in Nat /\ Len(Tail(wire)) = Len(wire) - 1
        /\ \A i \in 1..Len(wire) - 1 : Tail(wire)[i] = wire[i + 1]
    BY <1>1, TailFacts DEF FeedType
  <2>2. Len(<<>>) = 0
    OBVIOUS
  <2> QED
    BY <1>1, <2>1, <2>2 DEF Taken
<1>4. \A t \in Streams, f \in Fields : exchange[t][f] \in Nat
  BY DEF FeedType
<1>5. WireOlder' /\ WireInOrder'
  <2>1. WireOlder'
    <3> SUFFICES ASSUME NEW i \in 1..Len(wire'), NEW f \in DOMAIN wire'[i].data
                 PROVE  wire'[i].data[f] <= exchange'[wire'[i].stream][f]
      BY DEF WireOlder
    <3> QED
      BY <1>1, <1>3 DEF OrderInv, WireOlder
  <2>2. WireInOrder'
    <3> SUFFICES ASSUME NEW i \in 1..Len(wire'), NEW j \in 1..Len(wire'),
                        NEW f \in DOMAIN wire'[i].data,
                        i < j, wire'[i].stream = wire'[j].stream, f \in DOMAIN wire'[j].data
                 PROVE  wire'[i].data[f] <= wire'[j].data[f]
      BY DEF WireInOrder
    <3>1. i + 1 < j + 1
      OBVIOUS
    <3> QED
      BY <1>3, <3>1 DEF OrderInv, WireInOrder
  <2> QED
    BY <2>1, <2>2
<1>6. CacheOldest'
  <2> SUFFICES ASSUME NEW t \in DOMAIN cache', NEW f \in Fields
               PROVE  /\ cache'[t][f] <= exchange'[t][f]
                      /\ \A i \in 1..Len(wire') :
                           wire'[i].stream = t /\ f \in DOMAIN wire'[i].data
                             => cache'[t][f] <= wire'[i].data[f]
    BY DEF CacheOldest
  <2>1. CASE t # s
    <3>1. t \in DOMAIN cache /\ cache'[t] = cache[t]
      BY <1>1, <2>1 DEF Merged
    <3> QED
      BY <1>1, <1>3, <3>1 DEF OrderInv, CacheOldest
  <2>2. CASE t = s
    <3>1. \/ f \in DOMAIN wire[1].data /\ cache'[s][f] = wire[1].data[f]
          \/ cache'[s][f] = Entry(s)[f]
      BY <1>1, <2>2 DEF Merged
    <3>2. CASE f \in DOMAIN wire[1].data /\ cache'[s][f] = wire[1].data[f]
      <4>1. wire[1].data[f] <= exchange[s][f]
        BY <1>1, <3>2 DEF OrderInv, WireOlder
      <4>2. ASSUME NEW i \in 1..Len(wire'), wire'[i].stream = s, f \in DOMAIN wire'[i].data
            PROVE  wire[1].data[f] <= wire'[i].data[f]
        <5>1. i + 1 \in 1..Len(wire) /\ wire'[i] = wire[i + 1] /\ 1 < i + 1
          BY <1>3
        <5> QED
          BY <1>1, <3>2, <4>2, <5>1 DEF OrderInv, WireInOrder
      <4> QED
        BY <1>1, <2>2, <3>2, <4>1, <4>2
    <3>3. CASE cache'[s][f] = Entry(s)[f] /\ s \in DOMAIN cache
      <4>1. cache'[s][f] = cache[s][f]
        BY <1>2, <3>3, EntryFacts
      <4> QED
        BY <1>1, <1>3, <2>2, <3>3, <4>1 DEF OrderInv, CacheOldest
    <3>4. CASE cache'[s][f] = Entry(s)[f] /\ s \notin DOMAIN cache
      <4>1. cache'[s][f] = 0
        BY <1>2, <3>4, EntryFacts
      <4>2. \A i \in 1..Len(wire') : f \in DOMAIN wire'[i].data => wire'[i].data[f] \in Nat
        BY <1>3, WireFacts
      <4> QED
        BY <1>1, <1>2, <1>4, <2>2, <4>1, <4>2
    <3> QED
      BY <3>1, <3>2, <3>3, <3>4
  <2> QED
    BY <2>1, <2>2
<1> QED
  BY <1>5, <1>6 DEF OrderInv

(* Every step keeps values from falling between cache, wire and exchange. *)
LEMMA OrderStep == FeedType /\ FeedType' /\ OrderInv /\ [Next]_vars => OrderInv'
<1> SUFFICES ASSUME FeedType, FeedType', OrderInv, [Next]_vars PROVE OrderInv'
  OBVIOUS
<1>1. CASE Quiet \/ Lost
  BY <1>1 DEF Quiet, Lost, OrderInv, CacheOldest, WireOlder, WireInOrder, market
<1>2. CASE Cut
  <2>1. Len(wire') = 0 /\ UNCHANGED <<exchange, cache>>
    BY <1>2 DEF Cut, market
  <2> QED
    BY <2>1 DEF OrderInv, CacheOldest, WireOlder, WireInOrder
<1>3. ASSUME NEW s \in Streams, accept(s) PROVE OrderInv'
  <2> DEFINE e == [stream |-> s, data |-> exchange[s]]
  <2>1. e \in Event /\ wire' = Append(wire, e) /\ UNCHANGED <<exchange, cache>>
    BY <1>3, AcceptFacts DEF market
  <2>2. \A t \in Streams, g \in Fields : exchange[t][g] <= exchange'[t][g]
    BY <2>1 DEF FeedType
  <2>3. \A g \in DOMAIN e.data : e.data[g] = exchange'[e.stream][g]
    BY <2>1
  <2> HIDE DEF e
  <2> QED
    BY <2>1, <2>2, <2>3, SendKeepsOrder
<1>4. ASSUME NEW s \in Streams, NEW f \in Fields, change(s, f) PROVE OrderInv'
  <2>1. /\ \A t \in Streams, g \in Fields :
              exchange'[t][g] = IF t = s /\ g = f THEN exchange[t][g] + 1 ELSE exchange[t][g]
        /\ UNCHANGED cache
        /\ Sent(s, f) \in Event
        /\ wire' = IF s \in streaming THEN Append(wire, Sent(s, f)) ELSE wire
    BY <1>4, ChangeFacts
  <2>2. \A t \in Streams, g \in Fields : /\ exchange[t][g] <= exchange'[t][g]
                                         /\ exchange[t][g] \in Nat /\ exchange'[t][g] \in Nat
    <3>1. \A t \in Streams, g \in Fields : exchange[t][g] \in Nat /\ exchange'[t][g] \in Nat
      BY DEF FeedType
    <3> QED
      BY <2>1, <3>1
  <2>3. \A g \in DOMAIN Sent(s, f).data : Sent(s, f).data[g] = exchange'[Sent(s, f).stream][g]
    BY DEF Sent
  <2>4. CASE s \in streaming
    BY <2>1, <2>2, <2>3, <2>4, SendKeepsOrder
  <2>5. CASE s \notin streaming
    <3>1. wire' = wire
      BY <2>1, <2>5
    <3>2. CacheOldest'
      <4>1. \A t \in DOMAIN cache, g \in Fields : t \in Streams /\ cache[t][g] \in Nat
        BY DEF FeedType
      <4> QED
        BY <2>1, <2>2, <3>1, <4>1 DEF OrderInv, CacheOldest
    <3>3. WireOlder'
      <4>1. \A i \in 1..Len(wire) : \A g \in DOMAIN wire[i].data :
              wire[i].stream \in Streams /\ g \in Fields /\ wire[i].data[g] \in Nat
        BY WireFacts
      <4> QED
        BY <2>2, <3>1, <4>1 DEF OrderInv, WireOlder
    <3>4. WireInOrder'
      BY <3>1 DEF OrderInv, WireInOrder
    <3> QED
      BY <3>2, <3>3, <3>4 DEF OrderInv
  <2> QED
    BY <2>4, <2>5
<1>5. CASE callbackEnds \/ callbackFails
  BY <1>5, CallbackKeepsOrder
<1> QED
  BY <1>1, <1>2, <1>3, <1>4, <1>5, StepKinds

(* Whatever is lost, and whichever event cannot be parsed, no entry of the    *)
(* caches is lost or goes back to an older value.                             *)
THEOREM EntriesNeverOlder == Spec => NeverOlder
<1>1. Init => FeedType /\ OrderInv
  <2>1. Init => OrderInv
    BY DEF Init, OrderInv, CacheOldest, WireOlder, WireInOrder
  <2> QED
    BY <2>1, FeedTypeInit
<1>2. FeedType /\ OrderInv /\ [Next]_vars => (FeedType /\ OrderInv)'
  BY FeedTypeStep, OrderStep
<1>3. FeedType /\ OrderInv /\ [Next]_vars
        => [\A s \in DOMAIN cache : /\ s \in DOMAIN cache'
                                    /\ \A f \in Fields : cache[s][f] <= cache'[s][f]]_cache
  <2> SUFFICES ASSUME FeedType, OrderInv, [Next]_vars, cache' # cache
               PROVE  \A s \in DOMAIN cache : /\ s \in DOMAIN cache'
                                              /\ \A f \in Fields : cache[s][f] <= cache'[s][f]
    OBVIOUS
  <2>1. callbackEnds \/ callbackFails
    <3>1. ASSUME NEW s \in Streams, accept(s) PROVE FALSE
      BY <3>1, AcceptFacts
    <3>2. ASSUME NEW s \in Streams, NEW f \in Fields, change(s, f) PROVE FALSE
      BY <3>2, ChangeFacts
    <3> QED
      BY <3>1, <3>2, StepKinds DEF Quiet, Cut, Lost
  <2>2. ASSUME NEW s \in DOMAIN cache PROVE s \in DOMAIN cache'
    BY <2>1, CallbackFacts DEF Merged
  <2> QED
    BY <2>1, <2>2, CallbackGoesForward
<1> QED
  BY <1>1, <1>2, <1>3, PTL DEF Spec, NeverOlder

-------------------------------------------------------------------------------
(* What is read was at the exchange.  The states of the exchange that the     *)
(* events on the wire were made from tell what the deltas add up to: states   *)
(* has one for each event.                                                    *)
State == [Fields -> Nat]

Whole(i) == DOMAIN wire[i].data = Fields

First(i) == \A k \in 1..i - 1 : wire[k].stream # wire[i].stream
Final(i) == \A k \in i + 1..Len(wire) : wire[k].stream # wire[i].stream
Follows(j, i) == /\ i < j /\ wire[i].stream = wire[j].stream
                 /\ \A k \in i + 1..j - 1 : wire[k].stream # wire[j].stream

(* Two states differ in nothing but what the event brings.                    *)
AgreeBeside(i, x, y) == \A f \in Fields \ DOMAIN wire[i].data : x[f] = y[f]

(* An entry is in this state, or misses an event.                             *)
EntryIs(s, x) == s \in damaged \/ (s \in DOMAIN cache /\ cache[s] = x)

(* An event has what its state has, and a candlestick's has all of it.        *)
MadeFrom(states) ==
  \A i \in 1..Len(wire) :
    /\ states[i] \in past[wire[i].stream]
    /\ \A f \in DOMAIN wire[i].data : wire[i].data[f] = states[i][f]
    /\ wire[i].stream \in Tickers \/ Whole(i)

(* A delta has all that changed since the event before it on its stream, or   *)
(* since the state of the cache.                                              *)
Chained(states) ==
  \A i, j \in 1..Len(wire) : Follows(j, i) => AgreeBeside(j, states[i], states[j])

Based(states) ==
  \A i \in 1..Len(wire) :
    First(i) /\ ~Whole(i) =>
      \E x \in State : EntryIs(wire[i].stream, x) /\ AgreeBeside(i, x, states[i])

(* What streams has nothing but what is still on the wire to come.            *)
UpToDate(states) ==
  \A s \in streaming :
    /\ \A i \in 1..Len(wire) : wire[i].stream = s /\ Final(i) => states[i] = exchange[s]
    /\ (\A i \in 1..Len(wire) : wire[i].stream # s) => EntryIs(s, exchange[s])

Story(states) == /\ states \in Seq(State) /\ Len(states) = Len(wire)
                 /\ MadeFrom(states) /\ Chained(states) /\ Based(states) /\ UpToDate(states)

StoryInv == ReadConsistent /\ \E states \in Seq(State) : Story(states)

(* Nothing is sent or received. *)
LEMMA SilenceKeepsStory ==
  ASSUME NEW states, Story(states), UNCHANGED <<wire, cache, damaged>>,
         streaming' \subseteq streaming, \A s \in Streams : past[s] \subseteq past'[s],
         \A s \in streaming' : exchange'[s] = exchange[s],
         \A i \in 1..Len(wire) : wire[i].stream \in Streams
  PROVE  Story(states)'
<1> USE DEF Whole
<1>1. MadeFrom(states)'
  BY DEF Story, MadeFrom
<1>2. Chained(states)'
  BY DEF Story, Chained, Follows, AgreeBeside
<1>3. Based(states)'
  BY DEF Story, Based, First, AgreeBeside, EntryIs
<1>4. UpToDate(states)'
  BY DEF Story, UpToDate, Final, EntryIs
<1> QED
  BY <1>1, <1>2, <1>3, <1>4 DEF Story

(* An event is sent, whole or with what changed. *)
LEMMA SendKeepsStory ==
  ASSUME FeedType, FeedType', NEW states, Story(states),
         NEW s \in Streams, NEW e \in Event, e.stream = s, wire' = Append(wire, e),
         NEW states2, states2 = Append(states, exchange'[s]),
         UNCHANGED <<cache, damaged>>, streaming' \subseteq streaming \union {s},
         \A t \in Streams : past[t] \subseteq past'[t],
         \A t \in Streams : t # s => exchange'[t] = exchange[t],
         \A f \in DOMAIN e.data : e.data[f] = exchange'[s][f],
         s \in Tickers \/ DOMAIN e.data = Fields,
         \/ DOMAIN e.data = Fields
         \/ s \in streaming /\ \A f \in Fields \ DOMAIN e.data : exchange[s][f] = exchange'[s][f]
  PROVE  Story(states2)'
<1> DEFINE n == Len(wire)
<1>1. /\ n \in Nat /\ Len(wire') = n + 1 /\ wire'[n + 1] = e
      /\ \A i \in 1..n : wire'[i] = wire[i]
  BY AppendFacts DEF FeedType
<1>2. /\ states2 \in Seq(State) /\ Len(states2) = n + 1 /\ states2[n + 1] = exchange'[s]
      /\ \A i \in 1..n : states2[i] = states[i]
  <2>1. exchange'[s] \in State /\ states \in Seq(State) /\ Len(states) = n
    BY DEF FeedType, State, Story
  <2> QED
    BY <2>1
<1>3. exchange'[s] \in past'[s] /\ exchange[s] \in State
  BY DEF FeedType, State
<1>4. \A i \in 1..n : wire[i].stream \in Streams
  BY WireFacts
<1>5. \A i \in 1..Len(wire') : i \in 1..n \/ i = n + 1
  BY <1>1
<1> HIDE DEF n
<1>6. MadeFrom(states2)'
  <2> SUFFICES ASSUME NEW i \in 1..Len(wire')
               PROVE  /\ states2[i] \in past'[wire'[i].stream]
                      /\ \A f \in DOMAIN wire'[i].data : wire'[i].data[f] = states2[i][f]
                      /\ wire'[i].stream \in Tickers \/ DOMAIN wire'[i].data = Fields
    BY DEF MadeFrom, Whole
  <2>1. CASE i \in 1..n
    BY <1>1, <1>2, <1>4, <2>1 DEF Story, MadeFrom, Whole, n
  <2>2. CASE i = n + 1
    BY <1>1, <1>2, <1>3, <2>2
  <2> QED
    BY <1>5, <2>1, <2>2
<1>7. Chained(states2)'
  <2> SUFFICES ASSUME NEW i \in 1..Len(wire'), NEW j \in 1..Len(wire'), Follows(j, i)',
                      NEW f \in Fields \ DOMAIN wire'[j].data
               PROVE  states2[i][f] = states2[j][f]
    BY DEF Chained, AgreeBeside
  <2>1. i \in 1..n
    BY <1>1, <1>5 DEF Follows
  <2>2. CASE j \in 1..n
    <3>1. Follows(j, i)
      BY <1>1, <2>1, <2>2 DEF Follows
    <3>2. AgreeBeside(j, states[i], states[j])
      BY <2>1, <2>2, <3>1 DEF Story, Chained, n
    <3> QED
      BY <1>1, <1>2, <2>1, <2>2, <3>2 DEF AgreeBeside
  <2>3. CASE j = n + 1
    <3>1. f \notin DOMAIN e.data
      BY <1>1, <2>3
    <3>2. s \in streaming /\ exchange[s][f] = exchange'[s][f]
      BY <3>1
    <3>3. wire[i].stream = s /\ Final(i)
      BY <1>1, <2>1, <2>3 DEF Follows, Final, n
    <3>4. states[i] = exchange[s]
      BY <2>1, <3>2, <3>3 DEF Story, UpToDate, n
    <3> QED
      BY <1>2, <2>1, <2>3, <3>2, <3>4
  <2> QED
    BY <1>5, <2>2, <2>3
<1>8. Based(states2)'
  <2> SUFFICES ASSUME NEW i \in 1..Len(wire'), First(i)', ~Whole(i)'
               PROVE  \E x \in State : (EntryIs(wire[i].stream, x) /\ AgreeBeside(i, x, states2[i]))'
    BY DEF Based
  <2>1. CASE i \in 1..n
    <3>1. First(i) /\ ~Whole(i)
      BY <1>1, <2>1 DEF First, Whole
    <3>2. PICK x \in State : EntryIs(wire[i].stream, x) /\ AgreeBeside(i, x, states[i])
      BY <2>1, <3>1 DEF Story, Based, n
    <3> QED
      BY <1>1, <1>2, <2>1, <3>2 DEF AgreeBeside, EntryIs
  <2>2. CASE i = n + 1
    <3>1. DOMAIN e.data # Fields
      BY <1>1, <2>2 DEF Whole
    <3>2. \A k \in 1..n : wire[k].stream # s
      BY <1>1, <2>2 DEF First
    <3>3. EntryIs(s, exchange[s])
      BY <3>1, <3>2 DEF Story, UpToDate, n
    <3> QED
      BY <1>1, <1>2, <1>3, <2>2, <3>1, <3>3, exchange[s] \in State DEF AgreeBeside, EntryIs
  <2> QED
    BY <1>5, <2>1, <2>2
<1>9. UpToDate(states2)'
  <2> SUFFICES ASSUME NEW t \in streaming'
               PROVE  /\ \A i \in 1..Len(wire') : wire'[i].stream = t /\ Final(i)'
                                                    => states2[i] = exchange'[t]
                      /\ (\A i \in 1..Len(wire') : wire'[i].stream # t)
                           => EntryIs(t, exchange'[t])
    BY DEF UpToDate, EntryIs
  <2>1. n + 1 \in 1..Len(wire')
    BY <1>1
  <2>2. CASE t = s
    <3>1. ASSUME NEW i \in 1..n, wire'[i].stream = t, Final(i)' PROVE FALSE
      BY <1>1, <2>1, <2>2, <3>1 DEF Final
    <3> QED
      BY <1>1, <1>2, <1>5, <2>1, <2>2, <3>1
  <2>3. CASE t # s
    <3>1. t \in streaming /\ t \in Streams
      BY <2>3 DEF FeedType
    <3>2. ASSUME NEW i \in 1..Len(wire'), wire'[i].stream = t, Final(i)'
          PROVE  states2[i] = exchange'[t]
      <4>1. i \in 1..n /\ wire[i].stream = t /\ t \in Streams
        BY <1>1, <1>4, <1>5, <2>3, <3>2
      <4>2. Final(i)
        BY <1>1, <3>2, <4>1 DEF Final, n
      <4> QED
        BY <1>2, <2>3, <3>1, <4>1, <4>2 DEF Story, UpToDate, n
    <3>3. ASSUME \A i \in 1..Len(wire') : wire'[i].stream # t
          PROVE  EntryIs(t, exchange'[t])
      <4>1. \A i \in 1..n : wire[i].stream # t
        BY <1>1, <3>3
      <4> QED
        BY <2>3, <3>1, <4>1 DEF Story, UpToDate, n
    <3> QED
      BY <3>2, <3>3
  <2> QED
    BY <2>2, <2>3
<1> QED
  BY <1>1, <1>2, <1>6, <1>7, <1>8, <1>9 DEF Story

(* Either callback leaves the entry of its event's stream in the event's      *)
(* state or missing something; a candlestick is never spoiled.                *)
LEMMA CallbackTells ==
  ASSUME FeedType, NEW states, Story(states), callbackEnds \/ callbackFails,
         NEW s, s = wire[1].stream
  PROVE  /\ EntryIs(s, states[1])'
         /\ \A t \in Streams : t # s => (t \in damaged' <=> t \in damaged)
         /\ s \in DOMAIN cache' \ (damaged' \intersect Tickers) =>
              \/ cache'[s] = states[1]
              \/ s \in DOMAIN cache \ Tickers /\ cache'[s] = cache[s]
<1> DEFINE data == wire[1].data
<1>1. /\ 1 \in 1..Len(wire) /\ Head(wire) = wire[1] /\ Merged(wire[1])
  BY CallbackFacts
<1>2. s \in Streams /\ DOMAIN data \subseteq Fields
  BY <1>1, WireFacts
<1>3. states[1] \in State
  BY <1>1 DEF Story
<1>4. CASE callbackEnds
  <2>1. /\ cache' = [t \in DOMAIN cache \union {s} |-> IF t = s THEN Loaded(wire[1]) ELSE cache[t]]
        /\ damaged' = IF DOMAIN data = Fields THEN damaged \ {s} ELSE damaged
    BY <1>1, <1>4 DEF callbackEnds
  <2>2. /\ s \in DOMAIN cache' /\ cache'[s] \in State
        /\ \A f \in Fields : cache'[s][f] = IF f \in DOMAIN data THEN data[f] ELSE Entry(s)[f]
    <3>1. s \in DOMAIN cache' /\ cache'[s] = Loaded(wire[1])
      BY <2>1
    <3> QED
      BY <1>1, <3>1 DEF Loaded, Merged, State
  <2>3. \A f \in DOMAIN data : data[f] = states[1][f]
    BY <1>1 DEF Story, MadeFrom
  <2>4. CASE DOMAIN data = Fields
    <3>1. cache'[s] = states[1]
      BY <1>3, <2>2, <2>3, <2>4 DEF State
    <3> QED
      BY <2>1, <2>2, <2>4, <3>1 DEF EntryIs
  <2>5. CASE DOMAIN data # Fields
    <3>1. s \in Tickers
      BY <1>1, <2>5 DEF Story, MadeFrom, Whole
    <3>2. PICK x \in State : EntryIs(s, x) /\ AgreeBeside(1, x, states[1])
      BY <1>1, <2>5 DEF Story, Based, First, Whole
    <3>3. CASE s \in damaged
      BY <2>1, <2>5, <3>1, <3>3 DEF EntryIs
    <3>4. CASE s \notin damaged
      <4>1. s \in DOMAIN cache /\ cache[s] = x
        BY <3>2, <3>4 DEF EntryIs
      <4>2. Entry(s) = x
        BY <1>2, <4>1, EntryFacts
      <4>3. \A f \in Fields : cache'[s][f] = states[1][f]
        BY <2>2, <2>3, <3>2, <4>2 DEF AgreeBeside
      <4>4. cache'[s] = states[1]
        BY <1>3, <2>2, <4>3 DEF State
      <4> QED
        BY <2>1, <2>2, <2>5, <4>4 DEF EntryIs
    <3> QED
      BY <3>3, <3>4
  <2> QED
    BY <2>4, <2>5
<1>5. CASE callbackFails
  <2>1. damaged' = damaged \union {s} /\ (s \notin DOMAIN cache \intersect Tickers => cache' = cache)
    BY <1>1, <1>5, Zenon DEF callbackFails
  <2> QED
    BY <1>2, <2>1 DEF EntryIs
<1> QED
  BY <1>4, <1>5

(* Nothing is left of a session that has ended. *)
LEMMA EndKeepsStory ==
  ASSUME wire' = <<>>, streaming' = {}
  PROVE  Story(<<>>)'
<1>1. <<>> \in Seq(State) /\ Len(<<>>) = 0
  OBVIOUS
<1> QED
  BY <1>1 DEF Story, MadeFrom, Chained, Based, UpToDate

(* The first state of a story goes with the event that the callback takes. *)
LEMMA ReceiveKeepsStory ==
  ASSUME FeedType, NEW states, Story(states), callbackEnds \/ callbackFails,
         wire' = Tail(wire), UNCHANGED streaming,
         NEW states2, states2 = Tail(states)
  PROVE  Story(states2)'
<1> DEFINE n == Len(wire)
<1>0. PICK s : s = wire[1].stream
  OBVIOUS
<1>1. /\ n \in Nat /\ n > 0 /\ Len(wire') = n - 1
      /\ \A i \in 1..n - 1 : wire'[i] = wire[i + 1]
  BY CallbackFacts, TailFacts DEF FeedType
<1>2. /\ states2 \in Seq(State) /\ Len(states2) = n - 1
      /\ \A i \in 1..n - 1 : states2[i] = states[i + 1]
  BY <1>1 DEF Story
<1>3. /\ Merged(wire[1]) /\ UNCHANGED market
      /\ EntryIs(s, states[1])'
      /\ \A t \in Streams : t # s => (t \in damaged' <=> t \in damaged)
  BY <1>0, CallbackFacts, CallbackTells
<1>4. ASSUME NEW t \in Streams, t # s, NEW x, EntryIs(t, x) PROVE EntryIs(t, x)'
  BY <1>0, <1>3, <1>4 DEF EntryIs, Merged
<1>5. \A i \in 1..n : wire[i].stream \in Streams
  BY WireFacts
<1>6. 1 \in 1..n /\ states[1] \in State
  BY <1>1 DEF Story
<1>7. \A i \in 1..n - 1 : i + 1 \in 1..n
  BY <1>1
<1> HIDE DEF n
<1>8. MadeFrom(states2)'
  <2> SUFFICES ASSUME NEW i \in 1..n - 1
               PROVE  /\ states2[i] \in past'[wire'[i].stream]
                      /\ \A f \in DOMAIN wire'[i].data : wire'[i].data[f] = states2[i][f]
                      /\ wire'[i].stream \in Tickers \/ DOMAIN wire'[i].data = Fields
    BY <1>1 DEF MadeFrom, Whole
  <2> QED
    BY <1>1, <1>2, <1>3, <1>7 DEF Story, MadeFrom, Whole, market, n
<1>9. Chained(states2)'
  <2> SUFFICES ASSUME NEW i \in 1..Len(wire'), NEW j \in 1..Len(wire'), Follows(j, i)',
                      NEW f \in Fields \ DOMAIN wire'[j].data
               PROVE  states2[i][f] = states2[j][f]
    BY DEF Chained, AgreeBeside
  <2>0. i \in 1..n - 1 /\ j \in 1..n - 1
    BY <1>1
  <2>1. Follows(j + 1, i + 1)
    <3>1. i + 1 < j + 1 /\ wire[i + 1].stream = wire[j + 1].stream
      BY <1>1, <2>0 DEF Follows
    <3>2. ASSUME NEW k \in (i + 1) + 1..(j + 1) - 1 PROVE wire[k].stream # wire[j + 1].stream
      <4>1. k - 1 \in i + 1..j - 1 /\ k - 1 \in 1..n - 1 /\ (k - 1) + 1 = k
        BY <1>1, <2>0
      <4> QED
        BY <1>1, <2>0, <4>1 DEF Follows
    <3> QED
      BY <3>1, <3>2 DEF Follows
  <2>2. AgreeBeside(j + 1, states[i + 1], states[j + 1])
    BY <1>7, <2>0, <2>1 DEF Story, Chained, n
  <2> QED
    BY <1>1, <1>2, <2>0, <2>2 DEF AgreeBeside
<1>10. Based(states2)'
  <2> SUFFICES ASSUME NEW i \in 1..n - 1, First(i)', ~Whole(i)'
               PROVE  \E x \in State : (EntryIs(wire[i].stream, x) /\ AgreeBeside(i, x, states2[i]))'
    BY <1>1 DEF Based
  <2>0. PICK t : t = wire[i + 1].stream
    OBVIOUS
  <2>1. wire'[i].stream = t /\ t \in Streams /\ ~Whole(i + 1)
    BY <1>1, <1>5, <1>7, <2>0 DEF Whole
  <2>2. ASSUME NEW k \in 2..i PROVE wire[k].stream # t
    <3>1. k - 1 \in 1..i - 1 /\ k - 1 \in 1..n - 1 /\ (k - 1) + 1 = k
      BY <1>1
    <3> QED
      BY <1>1, <2>1, <3>1 DEF First
  <2>3. CASE t = s
    <3>1. Follows(i + 1, 1)
      BY <1>0, <2>0, <2>2, <2>3 DEF Follows
    <3>2. AgreeBeside(i + 1, states[1], states[i + 1])
      BY <1>6, <1>7, <3>1 DEF Story, Chained, n
    <3>3. AgreeBeside(i, states[1], states2[i])'
      BY <1>1, <1>2, <3>2 DEF AgreeBeside
    <3> QED
      BY <1>3, <1>6, <2>1, <2>3, <3>3
  <2>4. CASE t # s
    <3>1. First(i + 1)
      BY <1>0, <2>0, <2>2, <2>4 DEF First
    <3>2. PICK x \in State : EntryIs(t, x) /\ AgreeBeside(i + 1, x, states[i + 1])
      BY <1>7, <2>0, <2>1, <3>1 DEF Story, Based, n
    <3>3. AgreeBeside(i, x, states2[i])'
      BY <1>1, <1>2, <3>2 DEF AgreeBeside
    <3>4. EntryIs(t, x)'
      BY <1>4, <2>1, <2>4, <3>2
    <3> QED
      BY <2>1, <3>3, <3>4
  <2> QED
    BY <2>3, <2>4
<1>11. UpToDate(states2)'
  <2> SUFFICES ASSUME NEW t \in streaming
               PROVE  /\ \A i \in 1..n - 1 : wire'[i].stream = t /\ Final(i)'
                                               => states2[i] = exchange[t]
                      /\ (\A i \in 1..n - 1 : wire'[i].stream # t) => EntryIs(t, exchange[t])'
    BY <1>1, <1>3 DEF UpToDate, market
  <2>1. t \in Streams
    BY DEF FeedType
  <2>2. ASSUME NEW i \in 1..n - 1, wire'[i].stream = t, Final(i)' PROVE states2[i] = exchange[t]
    <3>1. ASSUME NEW k \in (i + 1) + 1..n PROVE wire[k].stream # t
      <4>1. k - 1 \in i + 1..n - 1 /\ k - 1 \in 1..n - 1 /\ (k - 1) + 1 = k
        BY <1>1
      <4> QED
        BY <1>1, <2>2, <4>1 DEF Final
    <3>2. Final(i + 1) /\ wire[i + 1].stream = t
      BY <1>1, <2>2, <3>1 DEF Final, n
    <3> QED
      BY <1>2, <1>7, <3>2 DEF Story, UpToDate, n
  <2>3. ASSUME \A i \in 1..n - 1 : wire'[i].stream # t PROVE EntryIs(t, exchange[t])'
    <3>1. ASSUME NEW k \in 2..n PROVE wire[k].stream # t
      <4>1. k - 1 \in 1..n - 1 /\ (k - 1) + 1 = k
        BY <1>1
      <4> QED
        BY <1>1, <2>3, <4>1
    <3>2. CASE t = s
      <4>1. Final(1)
        BY <1>0, <3>1, <3>2 DEF Final, n
      <4>2. states[1] = exchange[t]
        BY <1>0, <1>6, <3>2, <4>1 DEF Story, UpToDate, n
      <4> QED
        BY <1>3, <3>2, <4>2 DEF EntryIs, market
    <3>3. CASE t # s
      <4>1. \A i \in 1..n : wire[i].stream # t
        BY <1>0, <1>1, <3>1, <3>3
      <4>2. EntryIs(t, exchange[t])
        BY <4>1 DEF Story, UpToDate, n
      <4> QED
        BY <1>3, <1>4, <2>1, <3>3, <4>2 DEF EntryIs, market
    <3> QED
      BY <3>2, <3>3
  <2> QED
    BY <2>2, <2>3
<1> QED
  BY <1>1, <1>2, <1>8, <1>9, <1>10, <1>11 DEF Story

(* After every step there is a story again. *)
LEMMA StoryStep == FeedType /\ FeedType' /\ StoryInv /\ [Next]_vars => StoryInv'
<1> SUFFICES ASSUME FeedType, FeedType', StoryInv, [Next]_vars PROVE StoryInv'
  OBVIOUS
<1>1. PICK states \in Seq(State) : Story(states)
  BY DEF StoryInv
<1>2. \A i \in 1..Len(wire) : wire[i].stream \in Streams
  BY WireFacts
<1>3. \A s \in Streams : exchange'[s] \in State /\ exchange'[s] \in past'[s]
  BY DEF FeedType, State
<1>4. ASSUME UNCHANGED <<cache, damaged>>, \A s \in Streams : past[s] \subseteq past'[s]
      PROVE  ReadConsistent'
  BY <1>4 DEF StoryInv, ReadConsistent, FeedType
<1>5. ASSUME NEW states2, Story(states2)' PROVE \E x \in Seq(State) : Story(x)'
  <2>1. states2 \in Seq(State)
    BY <1>5 DEF Story
  <2> QED
    BY <1>5, <2>1
<1>6. CASE Quiet \/ Lost
  <2>1. /\ UNCHANGED <<market, wire, cache, damaged>> /\ streaming' \subseteq streaming
    BY <1>6 DEF Quiet, Lost
  <2>2. Story(states)'
    BY <1>1, <1>2, <2>1, SilenceKeepsStory DEF market
  <2> QED
    BY <1>4, <1>5, <2>1, <2>2 DEF StoryInv, market
<1>7. CASE Cut
  BY <1>4, <1>5, <1>7, EndKeepsStory DEF Cut, StoryInv, market
<1>8. ASSUME NEW s \in Streams, accept(s) PROVE StoryInv'
  <2> DEFINE e == [stream |-> s, data |-> exchange[s]]
  <2>1. /\ e \in Event /\ wire' = Append(wire, e) /\ DOMAIN e.data = Fields
        /\ streaming' = streaming \union {s} /\ UNCHANGED <<market, cache, damaged>>
    BY <1>8, AcceptFacts
  <2>2. e.stream = s /\ \A f \in DOMAIN e.data : e.data[f] = exchange'[s][f]
    BY <2>1 DEF market
  <2> HIDE DEF e
  <2>3. PICK states2 : states2 = Append(states, exchange'[s])
    OBVIOUS
  <2>4. Story(states2)'
    BY <1>1, <2>1, <2>2, <2>3, SendKeepsStory DEF market
  <2> QED
    BY <1>4, <1>5, <2>1, <2>4 DEF StoryInv, market
<1>9. ASSUME NEW s \in Streams, NEW f \in Fields, change(s, f) PROVE StoryInv'
  <2>1. /\ \A t \in Streams, g \in Fields : t # s \/ g # f => exchange'[t][g] = exchange[t][g]
        /\ \A t \in Streams : t # s => exchange'[t] = exchange[t]
        /\ \A t \in Streams : past[t] \subseteq past'[t]
        /\ Sent(s, f) \in Event
        /\ wire' = IF s \in streaming THEN Append(wire, Sent(s, f)) ELSE wire
        /\ UNCHANGED <<cache, damaged, streaming>>
    BY <1>9, ChangeFacts
  <2>2. CASE s \in streaming
    <3> DEFINE e == Sent(s, f)
    <3>1. /\ e.stream = s /\ DOMAIN e.data = IF s \in Tickers THEN {f} ELSE Fields
          /\ \A g \in DOMAIN e.data : e.data[g] = exchange'[s][g]
      BY <1>3 DEF Sent, State
    <3>2. e \in Event /\ wire' = Append(wire, e)
      BY <2>1, <2>2
    <3> HIDE DEF e
    <3>3. \/ DOMAIN e.data = Fields
          \/ s \in streaming /\ \A g \in Fields \ DOMAIN e.data : exchange[s][g] = exchange'[s][g]
      BY <2>1, <2>2, <3>1
    <3>4. PICK states2 : states2 = Append(states, exchange'[s])
      OBVIOUS
    <3>5. Story(states2)'
      BY <1>1, <2>1, <3>1, <3>2, <3>3, <3>4, SendKeepsStory
    <3> QED
      BY <1>4, <1>5, <2>1, <3>5 DEF StoryInv
  <2>3. CASE s \notin streaming
    <3>1. \A t \in streaming' : exchange'[t] = exchange[t]
      BY <2>1, <2>3 DEF FeedType
    <3>2. Story(states)'
      BY <1>1, <1>2, <2>1, <2>3, <3>1, SilenceKeepsStory
    <3> QED
      BY <1>4, <1>5, <2>1, <3>2 DEF StoryInv
  <2> QED
    BY <2>2, <2>3
<1>10. CASE callbackEnds \/ callbackFails
  <2>0. PICK s : s = wire[1].stream
    OBVIOUS
  <2>1. /\ 1 \in 1..Len(wire) /\ Merged(wire[1]) /\ Taken /\ past' = past
    BY <1>10, CallbackFacts DEF market
  <2>2. /\ \A t \in Streams : t # s => (t \in damaged' <=> t \in damaged)
        /\ s \in DOMAIN cache' \ (damaged' \intersect Tickers) =>
             \/ cache'[s] = states[1]
             \/ s \in DOMAIN cache \ Tickers /\ cache'[s] = cache[s]
    BY <1>1, <1>10, <2>0, CallbackTells
  <2>3. ReadConsistent'
    <3> SUFFICES ASSUME NEW t \in DOMAIN cache' \ (damaged' \intersect Tickers)
                 PROVE  cache'[t] \in past[t]
      BY <2>1 DEF ReadConsistent
    <3>1. CASE t = s
      BY <1>1, <2>0, <2>1, <2>2, <3>1 DEF StoryInv, ReadConsistent, Story, MadeFrom
    <3>2. CASE t # s
      BY <2>0, <2>1, <2>2, <3>2 DEF StoryInv, ReadConsistent, Merged, FeedType
    <3> QED
      BY <3>1, <3>2
  <2>4. CASE wire' = Tail(wire) /\ UNCHANGED streaming
    <3>1. PICK states2 : states2 = Tail(states)
      OBVIOUS
    <3>2. Story(states2)'
      BY <1>1, <1>10, <2>4, <3>1, ReceiveKeepsStory
    <3> QED
      BY <1>5, <2>3, <3>2 DEF StoryInv
  <2>5. CASE wire' = <<>> /\ streaming' = {}
    BY <1>5, <2>3, <2>5, EndKeepsStory DEF StoryInv
  <2> QED
    BY <2>1, <2>4, <2>5 DEF Taken
<1> QED
  BY <1>6, <1>7, <1>8, <1>9, <1>10, StepKinds

(* What is read is what the exchange had at one moment, through deltas that   *)
(* are missed between two connections and events that cannot be parsed.       *)
THEOREM ReadsAlwaysConsistent == Spec => []ReadConsistent
<1>1. Init => FeedType /\ StoryInv
  <2> SUFFICES ASSUME Init PROVE StoryInv
    BY FeedTypeInit
  <2>1. ReadConsistent
    BY DEF Init, ReadConsistent
  <2>2. wire = <<>> /\ streaming = {}
    BY DEF Init, Ledger!Init
  <2>3. <<>> \in Seq(State) /\ Len(<<>>) = 0
    OBVIOUS
  <2>4. Story(<<>>)
    BY <2>2, <2>3 DEF Story, MadeFrom, Chained, Based, UpToDate
  <2> QED
    BY <2>1, <2>3, <2>4 DEF StoryInv
<1>2. FeedType /\ StoryInv /\ [Next]_vars => (FeedType /\ StoryInv)'
  BY FeedTypeStep, StoryStep
<1>3. StoryInv => ReadConsistent
  BY DEF StoryInv
<1> QED
  BY <1>1, <1>2, <1>3, PTL DEF Spec

-------------------------------------------------------------------------------
(* The manager and its client. *)

(* What is known of a session goes with it, and the manager names a stream     *)
(* whenever it subscribes.                                                     *)
UsageInv ==
  /\ ~session => asked = {} /\ claimed = {} /\ streaming = {}
  /\ user = "subscribe" => stream \in Streams
  /\ handling => session

(* At first there is no session and nothing known of one. *)
LEMMA UsageInit == Init => UsageInv
  BY DEF Init, UsageInv, Ledger!Init

(* What ClientSession is shown to implement is all the manager uses of it. *)
Contract == INSTANCE ClientLedger WITH Filters <- Streams, HandlersThrow <- ~HasLogger

(* Every step of the manager is a step of ClientLedger or a stutter. *)
LEMMA ContractStep ==
  ASSUME UsageInv, [Next]_vars
  PROVE  UsageInv' /\ (Contract!Next \/ UNCHANGED Contract!vars)
<1> DEFINE Mapped == UsageInv' /\ (Contract!Next \/ UNCHANGED Contract!vars)
<1> USE DEF UsageInv, ledger, client, caches, Contract!vars, Ledger!vars,
            Contract!Ledger!vars, Contract!Client!vars
<1>1. ASSUME NEW s \in Streams, check(s) \/ read(s) \/ refuse(s) PROVE Mapped
  BY <1>1 DEF check, read, refuse
<1>2. ASSUME NEW s \in Streams, sessionClaims(s) \/ sessionGivesUp(s) \/ accept(s) PROVE Mapped
  <2>1. /\ session /\ UNCHANGED <<client, user, stream, handling>>
        /\ \/ ioThread = "run" /\ Contract!Ledger!Claim(s)
           \/ ioThread = "run" /\ Contract!Ledger!GiveUp(s)
           \/ Contract!Ledger!Accept(s)
    BY <1>2 DEF sessionClaims, sessionGivesUp, accept, Client!Serving, Ledger!Claim,
         Ledger!GiveUp, Ledger!Accept, Contract!Ledger!Claim, Contract!Ledger!GiveUp,
         Contract!Ledger!Accept
  <2> QED
    BY <2>1 DEF Contract!Next, Contract!sessionStep
<1>3. CASE subscribeAnew
  <2>1. Contract!subscribeAnew(stream)
    BY <1>3 DEF subscribeAnew, Client!subscribeAnew, Contract!subscribeAnew,
         Contract!Client!subscribeAnew
  <2> QED
    BY <1>3, <2>1 DEF subscribeAnew, Client!subscribeAnew, Contract!Next
<1>4. CASE subscribeQueue
  <2>1. Contract!subscribeQueue(stream)
    BY <1>4 DEF subscribeQueue, Client!subscribeQueue, Ledger!Ask, Contract!subscribeQueue,
         Contract!Client!subscribeQueue, Contract!Ledger!Ask
  <2> QED
    BY <1>4, <2>1 DEF subscribeQueue, Client!subscribeQueue, Ledger!Ask, Contract!Next
<1>5. CASE subscribeLock \/ run \/ runStarts \/ destroy \/ destroyJoin \/ threadStep
  <2>1. Contract!clientStep
    BY <1>5 DEF subscribeLock, run, runStarts, destroy, destroyJoin, threadStep,
         Contract!clientStep, Client!subscribeLock, Contract!Client!subscribeLock,
         Client!runCheck, Contract!Client!runCheck,
         Client!InRun, Client!runSet, Client!runJoin, Client!runSpawn,
         Contract!Client!InRun, Contract!Client!runSet, Contract!Client!runJoin,
         Contract!Client!runSpawn, Client!destroy, Contract!Client!destroy,
         Client!destroyJoin, Contract!Client!destroyJoin,
         Client!IoThread, Client!ioBegin, Client!ioRestart, Client!runReturns,
         Client!ioClear, Client!ioClearAgain,
         Contract!Client!IoThread, Contract!Client!ioBegin, Contract!Client!ioRestart,
         Contract!Client!runReturns, Contract!Client!ioClear, Contract!Client!ioClearAgain
  <2>2. /\ UNCHANGED <<session, asked, claimed, streaming, handling>>
        /\ user' = "subscribe" => user = "subscribe" /\ stream' = stream
    BY <1>5 DEF subscribeLock, run, runStarts, destroy, destroyJoin, threadStep,
         Client!subscribeLock, Client!runCheck, Client!InRun, Client!runSet, Client!runJoin,
         Client!runSpawn, Client!destroy, Client!destroyJoin, Client!IoThread,
         Client!ioBegin, Client!ioRestart, Client!runReturns, Client!ioClear,
         Client!ioClearAgain
  <2> QED
    BY <2>1, <2>2 DEF Contract!Next
<1>6. CASE sessionEnds
  <2>1. Contract!sessionEnds
    BY <1>6 DEF sessionEnds, Forget, Client!sessionEnds, Contract!sessionEnds,
         Contract!Forget, Contract!Client!sessionEnds
  <2> QED
    BY <1>6, <2>1 DEF sessionEnds, Forget, Contract!Next
<1>7. ASSUME Throw PROVE Contract!handlerThrows /\ session
                          /\ (~session' => asked' = {} /\ claimed' = {} /\ streaming' = {})
  BY <1>7 DEF Throw, Forget, Client!handlerThrows, Ledger!Disconnect,
       Contract!handlerThrows, Contract!Forget, Contract!Client!handlerThrows,
       Contract!Ledger!Disconnect
<1>8. CASE sessionThrows
  BY <1>7, <1>8 DEF sessionThrows, Contract!Next
<1>9. CASE callbackBegins \/ callbackEnds
  BY <1>9 DEF callbackBegins, callbackEnds
<1>10. CASE callbackFails
  <2>1. (UNCHANGED <<client, ledger>> \/ Throw) /\ handling' = FALSE
        /\ UNCHANGED <<user, stream>>
    BY <1>10, Zenon DEF callbackFails
  <2> QED
    BY <1>7, <2>1 DEF Contract!Next
<1>11. CASE connectionLost
  <2>1. session /\ Contract!Ledger!Disconnect /\ UNCHANGED <<client, user, stream, handling>>
    BY <1>11 DEF connectionLost, Ledger!Disconnect, Contract!Ledger!Disconnect
  <2> QED
    BY <2>1 DEF Contract!Next, Contract!sessionStep, Contract!Ledger!Disconnect
<1>12. ASSUME NEW s \in Streams, NEW f \in Fields, change(s, f) PROVE Mapped
  BY <1>12 DEF change
<1>13. ASSUME NEW n \in Timeouts, setTimeout(n) PROVE Mapped
  BY <1>13 DEF setTimeout
<1>14. CASE zeroTimeout \/ freeMembers \/ look \/ UNCHANGED vars
  BY <1>14 DEF zeroTimeout, freeMembers, look, vars
<1> QED
  BY <1>1, <1>2, <1>3, <1>4, <1>5, <1>6, <1>8, <1>9, <1>10, <1>11, <1>12, <1>13, <1>14
     DEF Next, Subscribing, Destroying, Callback

(* Its client steps are steps of WebSocketClient, so what is proved of that    *)
(* holds of the manager's client.                                              *)
ClientTheorems == INSTANCE WebSocketClientProofs WITH HandlersThrow <- ~HasLogger

(* By way of ClientLedger, whose steps are WebSocketClient's or leave it alone. *)
LEMMA ManagerUsesClient == Spec => ClientTheorems!Spec
<1>1. Init => ClientTheorems!Init
  BY DEF Init, Client!Init, ClientTheorems!Init
<1>2. ASSUME Contract!Next \/ UNCHANGED Contract!vars
      PROVE  ClientTheorems!Next \/ UNCHANGED ClientTheorems!vars
  <2> USE DEF ClientTheorems!Next, ClientTheorems!Caller, ClientTheorems!InSubscribe,
              Contract!Client!vars, ClientTheorems!vars
  <2>1. ASSUME NEW f \in Streams, Contract!subscribeAnew(f) \/ Contract!subscribeQueue(f)
        PROVE  ClientTheorems!InSubscribe
    BY <2>1 DEF Contract!subscribeAnew, Contract!subscribeQueue,
         Contract!Client!subscribeAnew, ClientTheorems!subscribeAnew,
         Contract!Client!subscribeQueue, ClientTheorems!subscribeQueue
  <2>2. CASE Contract!clientStep
    BY <2>2 DEF Contract!clientStep,
         Contract!Client!subscribeLock, ClientTheorems!subscribeLock,
         Contract!Client!runCheck, ClientTheorems!runCheck,
         Contract!Client!InRun, ClientTheorems!InRun,
         Contract!Client!runSet, ClientTheorems!runSet,
         Contract!Client!runJoin, ClientTheorems!runJoin,
         Contract!Client!runSpawn, ClientTheorems!runSpawn,
         Contract!Client!destroy, ClientTheorems!destroy,
         Contract!Client!destroyJoin, ClientTheorems!destroyJoin,
         Contract!Client!IoThread, ClientTheorems!IoThread,
         Contract!Client!ioBegin, ClientTheorems!ioBegin,
         Contract!Client!ioRestart, ClientTheorems!ioRestart,
         Contract!Client!runReturns, ClientTheorems!runReturns,
         Contract!Client!ioClear, ClientTheorems!ioClear,
         Contract!Client!ioClearAgain, ClientTheorems!ioClearAgain
  <2>3. CASE Contract!sessionEnds \/ Contract!handlerThrows
    BY <2>3 DEF Contract!sessionEnds, Contract!handlerThrows,
         Contract!Client!sessionEnds, ClientTheorems!sessionEnds,
         Contract!Client!handlerThrows, ClientTheorems!handlerThrows
  <2>4. CASE Contract!sessionStep \/ UNCHANGED Contract!vars
    BY <2>4 DEF Contract!sessionStep, Contract!vars
  <2> QED
    BY <1>2, <2>1, <2>2, <2>3, <2>4 DEF Contract!Next
<1>3. UsageInv /\ [Next]_vars => UsageInv' /\ [ClientTheorems!Next]_(ClientTheorems!vars)
  BY <1>2, ContractStep
<1> QED
  BY <1>1, <1>3, UsageInit, PTL DEF Spec, ClientTheorems!Spec

(* Whatever the manager's caller, its destructor and the callback's exceptions *)
(* do in between, a subscription's run() can start the io thread again, and    *)
(* the thread is over when the destructor has reset the client.                *)
THEOREM ManagersClientSound == Spec => [](NeverStuck /\ Client!GoneMeansOver)
<1>1. (~HasLogger) \in BOOLEAN
  OBVIOUS
<1>2. ClientTheorems!Spec => [](ClientTheorems!NeverStuck /\ ClientTheorems!GoneMeansOver)
  BY <1>1, ClientTheorems!ClientNeverStuck, ClientTheorems!ThreadOverWhenGone, PTL
<1>3. ClientTheorems!NeverStuck /\ ClientTheorems!GoneMeansOver
        => Client!NeverStuck /\ Client!GoneMeansOver
  BY DEF ClientTheorems!NeverStuck, ClientTheorems!GoneMeansOver,
         ClientTheorems!ThreadLives, Client!NeverStuck, Client!GoneMeansOver,
         Client!ThreadLives
<1> QED
  BY <1>2, <1>3, ManagerUsesClient, PTL DEF NeverStuck
===============================================================================
