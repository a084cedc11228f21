------------------------ MODULE WebSocketSessionProofs ------------------------
(***************************************************************************)
(* Theorems about WebSocketSession, and about a client with one session    *)
(* after the other (ClientSession), for every set of filters, every bound  *)
(* and with or without a logger (ReadChainAlive needs one).                *)
(***************************************************************************)
EXTENDS ClientSession, TLAPS

(* Names for single expressions, expanded everywhere. *)
USE DEF RequestWaiting, erase, AfterMalformed, AfterDrain, Empty, Blank, FirstQueue

(* What the handlers before the WebSocket handshake find. *)
Early == {"run", "resolve", "connect", "ssl", "handshake"}

(* Where the stream's status stands when an operation is outstanding. *)
StatusInv ==
  /\ pending \intersect Early # {}
       => status = "init" /\ pingTimer = "idle" /\ "ping" \notin pending
  /\ "run" \in pending => \A f \in Filters : subscriptions[f] = 0
  /\ "close" \in pending => status \in {"closing", "closed"}
  /\ ioStep # "idle" => status = "open"
  /\ status = "closing" /\ "read" \in pending
       => \A f \in Filters : subscriptions[f] = 0

(* The inductive invariant. *)
SessionInv == /\ TypeOK
              /\ SingleChain
              /\ AnswersAccounted
              /\ StatusInv

(* What readSubscription leaves is of the right type, and the request it takes *)
(* is a filter.                                                               *)
ReadTypes == /\ subscriptions' \in [Filters -> Nat]
             /\ subscriptionRequests' \in Seq(Filters)
             /\ subscriptionRequests # <<>> => Head(subscriptionRequests) \in Filters

(* The request that is taken was a filter. *)
LEMMA ReadSubscriptionTypes == TypeOK /\ readSubscription => ReadTypes
  BY DEF TypeOK, readSubscription, ReadTypes

(* Every handler keeps the types. *)
LEMMA TypeStep == TypeOK /\ [Next]_vars => TypeOK'
<1> SUFFICES ASSUME TypeOK, [Next]_vars PROVE TypeOK'
  OBVIOUS
<1> USE DEF TypeOK, ChainOps, LooseOps, sessionVars, streamVars, networkVars,
            historyVars, Swap
<1>1. CASE Caller
  <2> SUFFICES ASSUME NEW f \in Filters, run(f) \/ subscribe(f) PROVE TypeOK'
    BY <1>1 DEF Caller
  <2>1. subscriptionRequests' \in Seq(Filters) /\ asked' \subseteq Filters
    <3>1. Append(subscriptionRequests, f) \in Seq(Filters)
      OBVIOUS
    <3> QED
      BY <3>1 DEF run, subscribe, writeSubscription
  <2>2. CASE run(f)
    BY <2>1, <2>2 DEF run, writeSubscription
  <2>3. CASE subscribe(f)
    BY <2>1, <2>3 DEF subscribe, writeSubscription
  <2> QED
    BY <2>2, <2>3
<1>2. CASE onResolve \/ onConnect \/ onSSLHandshake
  <2> SUFFICES ASSUME NEW done \in Early, NEW next \in ChainOps, Connecting(done, next)
               PROVE  TypeOK'
    BY <1>2 DEF onResolve, onConnect, onSSLHandshake, Early
  <2>1. pending' \subseteq ChainOps \union LooseOps
    BY DEF Connecting
  <2> QED
    BY <2>1 DEF Connecting
<1>3. CASE onHandshake
  <2>1. readSubscription => ReadTypes
    BY ReadSubscriptionTypes
  <2>2. readSubscription => Framed(TRUE) \in [Filters -> Nat]
    BY <2>1 DEF Framed, ReadTypes
  <2>3. pending' \subseteq ChainOps \union LooseOps
    BY <1>3 DEF onHandshake
  <2> QED
    BY <1>3, <2>1, <2>2, <2>3 DEF onHandshake, ReadTypes
<1>4. CASE onWrite
  <2>1. pending' \subseteq ChainOps \union LooseOps /\ status' \in {status, "closed"}
    BY <1>4 DEF onWrite
  <2> QED
    BY <1>4, <2>1 DEF onWrite
<1>5. CASE onReadError
  BY <1>5 DEF onReadError, CancelTimer
<1>6. CASE onReadNotice
  BY <1>6 DEF onReadNotice, Reading, AfterLog
<1>7. CASE onReadMalformed
  BY <1>7 DEF onReadMalformed, Reading, AfterLog
<1>8. ASSUME NEW f \in Filters, onReadRefusal(f) PROVE TypeOK'
  <2>1. refusals[f] \in Nat /\ subscriptions[f] \in Nat
    OBVIOUS
  <2>2. refusals' \in [Filters -> Nat]
    BY <1>8, <2>1 DEF onReadRefusal
  <2>3. subscriptions' \in [Filters -> Nat]
    BY <1>8, <2>1 DEF onReadRefusal
  <2>4. pending' \subseteq ChainOps \union LooseOps /\ ioStep' \in {"drain", "idle"}
    BY <1>8 DEF onReadRefusal, AfterLog
  <2>5. refused' \subseteq Filters
    BY <1>8 DEF onReadRefusal
  <2> QED
    BY <1>8, <2>2, <2>3, <2>4, <2>5, Zenon DEF onReadRefusal
<1>9. CASE drainRequests
  <2>1. ReadTypes
    BY <1>9, ReadSubscriptionTypes DEF drainRequests
  <2>2. Framed(connected) \in [Filters -> Nat]
    BY <2>1 DEF Framed, ReadTypes
  <2>3. requested' \in [Filters -> Nat] /\ notices' \in Nat
    BY <1>9, <2>2 DEF drainRequests
  <2> QED
    BY <1>9, <2>1, <2>3 DEF drainRequests, ReadTypes
<1>10. CASE quitOrReadOn
  BY <1>10 DEF quitOrReadOn, AfterLog
<1>11. CASE onClose
  BY <1>11 DEF onClose, CancelTimer
<1>12. CASE timerExpires \/ onPingTimer \/ onPing
  BY <1>12 DEF timerExpires, onPingTimer, AfterLog, onPing
<1>13. CASE connectionLost
  BY <1>13 DEF connectionLost
<1>14. ASSUME NEW f \in Filters, serverAccept(f) \/ serverRefuse(f) PROVE TypeOK'
  <2>1. requested[f] > 0 => requested[f] - 1 \in Nat
    OBVIOUS
  <2>2. CASE serverAccept(f)
    BY <2>1, <2>2 DEF serverAccept
  <2>3. CASE serverRefuse(f)
    BY <2>1, <2>3 DEF serverRefuse
  <2> QED
    BY <1>14, <2>2, <2>3
<1>15. CASE serverPublish
  BY <1>15 DEF serverPublish
<1>16. CASE UNCHANGED vars
  BY <1>16 DEF vars
<1> QED
  BY <1>1, <1>2, <1>3, <1>4, <1>5, <1>6, <1>7, <1>8, <1>9, <1>10, <1>11, <1>12,
     <1>13, <1>14, <1>15, <1>16 DEF Next, onRead, InRead, Answer

(* At most one operation of the chain, and the status that goes with it. *)
LEMMA ChainStep ==
  SessionInv /\ [Next]_vars => SingleChain' /\ StatusInv'
<1> SUFFICES ASSUME SessionInv, [Next]_vars PROVE SingleChain' /\ StatusInv'
  OBVIOUS
<1> USE DEF SessionInv, SingleChain, StatusInv, TypeOK, ChainOps, LooseOps, Early,
            sessionVars, streamVars, networkVars, historyVars, Swap
<1>1. ASSUME NEW f \in Filters, run(f) \/ subscribe(f)
      PROVE  SingleChain' /\ StatusInv'
  BY <1>1 DEF run, subscribe, writeSubscription
<1>2. CASE onResolve \/ onConnect \/ onSSLHandshake
  BY <1>2 DEF onResolve, onConnect, onSSLHandshake, Connecting
<1>3. CASE onHandshake
  BY <1>3 DEF onHandshake
<1>4. CASE onWrite
  BY <1>4 DEF onWrite
<1>5. CASE onReadError
  BY <1>5 DEF onReadError
<1>6. CASE onReadNotice
  BY <1>6 DEF onReadNotice, Reading, AfterLog, AnswersAccounted, Outstanding
<1>7. CASE onReadMalformed
  BY <1>7 DEF onReadMalformed, Reading, AfterLog
<1>8. ASSUME NEW f \in Filters, onReadRefusal(f)
      PROVE  SingleChain' /\ StatusInv'
  BY <1>8 DEF onReadRefusal, Reading, AfterLog, AnswersAccounted, Outstanding
<1>9. CASE drainRequests
  BY <1>9 DEF drainRequests
<1>10. CASE quitOrReadOn
  BY <1>10 DEF quitOrReadOn, AfterLog, isSubscribed
<1>11. CASE onClose
  BY <1>11 DEF onClose
<1>12. CASE timerExpires \/ onPingTimer
  BY <1>12 DEF timerExpires, onPingTimer
<1>13. CASE onPing
  BY <1>13 DEF onPing
<1>14. CASE connectionLost \/ serverPublish
  BY <1>14 DEF connectionLost, serverPublish
<1>15. ASSUME NEW f \in Filters, serverAccept(f) \/ serverRefuse(f)
       PROVE  SingleChain' /\ StatusInv'
  BY <1>15 DEF serverAccept, serverRefuse
<1>16. CASE UNCHANGED vars
  BY <1>16 DEF vars
<1> QED
  BY <1>1, <1>2, <1>3, <1>4, <1>5, <1>6, <1>7, <1>8, <1>9, <1>10, <1>11, <1>12,
     <1>13, <1>14, <1>15, <1>16 DEF Next, Caller, onRead, InRead, Answer

(* Whatever leaves the three counters and the streams alone, or only takes a  *)
(* message away, keeps the account.                                           *)
LEMMA AccountKept ==
  ASSUME AnswersAccounted, UNCHANGED <<subscriptions, requested, refusals, streams>>,
         notices' > 0 => notices > 0
  PROVE  AnswersAccounted'
BY DEF AnswersAccounted, Outstanding

(* A connection that ends has nothing more to answer. *)
LEMMA AccountDropped ==
  ASSUME TypeOK, AnswersAccounted, requested' = [f \in Filters |-> 0], streams' = {},
         UNCHANGED <<subscriptions, refusals, notices>>
  PROVE  AnswersAccounted'
BY DEF TypeOK, AnswersAccounted, Outstanding

(* A request that is taken is recorded whether or not it becomes a frame. *)
LEMMA AccountTaken ==
  ASSUME TypeOK, AnswersAccounted, readSubscription, UNCHANGED <<refusals, streams>>,
         \/ UNCHANGED <<requested, notices>>
         \/ requested' = Framed(TRUE) /\ UNCHANGED notices
         \/ subscriptionRequests # <<>> /\ UNCHANGED requested
  PROVE  AnswersAccounted'
<1> USE DEF TypeOK, AnswersAccounted, Outstanding
<1>1. CASE subscriptionRequests = <<>>
  BY <1>1 DEF readSubscription, Framed
<1>2. CASE subscriptionRequests # <<>>
  <2> DEFINE f == Head(subscriptionRequests)
  <2>1. f \in Filters
    BY <1>2
  <2> HIDE DEF f
  <2>2. subscriptions' = [subscriptions EXCEPT ![f] = @ + 1]
    BY <1>2 DEF readSubscription, f
  <2>3. CASE UNCHANGED requested
    BY <2>1, <2>2, <2>3
  <2>4. CASE requested' = [requested EXCEPT ![f] = @ + 1] /\ UNCHANGED notices
    BY <2>1, <2>2, <2>4
  <2> QED
    BY <1>2, <2>3, <2>4 DEF Framed, f
<1> QED
  BY <1>1, <1>2

(* Requests, answers and recorded filters stay accounted for. *)
LEMMA AccountStep ==
  SessionInv /\ [Next]_vars => AnswersAccounted'
<1> SUFFICES ASSUME SessionInv, [Next]_vars PROVE AnswersAccounted'
  OBVIOUS
<1> USE DEF SessionInv, sessionVars, streamVars, networkVars, historyVars
<1>1. ASSUME NEW f \in Filters, run(f) \/ subscribe(f) PROVE AnswersAccounted'
  BY <1>1, AccountKept DEF run, subscribe, writeSubscription
<1>2. CASE onResolve \/ onConnect \/ onSSLHandshake
  BY <1>2, AccountKept DEF onResolve, onConnect, onSSLHandshake, Connecting
<1>3. CASE onHandshake
  BY <1>3, AccountKept, AccountTaken DEF onHandshake
<1>4. CASE onWrite \/ onReadError \/ timerExpires \/ onPingTimer \/ onPing \/ quitOrReadOn
  BY <1>4, AccountKept DEF onWrite, onReadError, timerExpires, onPingTimer, onPing, quitOrReadOn
<1>5. CASE onReadNotice \/ onReadMalformed
  BY <1>5, AccountKept DEF onReadNotice, onReadMalformed
<1>6. ASSUME NEW f \in Filters, onReadRefusal(f) PROVE AnswersAccounted'
  <2>1. subscriptions[f] > 0 /\ refusals[f] > 0
    BY <1>6 DEF onReadRefusal, AnswersAccounted, Outstanding, TypeOK
  <2>2. /\ refusals' = [refusals EXCEPT ![f] = @ - 1]
        /\ subscriptions' = [subscriptions EXCEPT ![f] = @ - 1]
        /\ UNCHANGED <<requested, notices, streams>>
    BY <1>6, <2>1 DEF onReadRefusal
  <2>3. \A g \in Filters : subscriptions'[g] - Outstanding(g)' = subscriptions[g] - Outstanding(g)
    BY <2>2 DEF Outstanding, TypeOK
  <2> QED
    BY <2>2, <2>3 DEF AnswersAccounted, Outstanding, TypeOK
<1>7. CASE drainRequests
  BY <1>7, AccountTaken DEF drainRequests, Framed
<1>8. CASE onClose \/ connectionLost
  BY <1>8, AccountDropped DEF onClose, connectionLost
<1>9. ASSUME NEW f \in Filters, serverAccept(f) \/ serverRefuse(f) PROVE AnswersAccounted'
  <2> USE DEF AnswersAccounted, Outstanding, TypeOK
  <2>1. /\ requested[f] > 0
        /\ requested' = [requested EXCEPT ![f] = @ - 1]
        /\ UNCHANGED subscriptions
    BY <1>9 DEF serverAccept, serverRefuse
  <2>2. CASE refusals' = refusals
    <3>1. Outstanding(f)' < subscriptions'[f]
      BY <2>1, <2>2
    <3>2. \A g \in Filters : Outstanding(g)' <= Outstanding(g)
      BY <2>1, <2>2
    <3>3. streams' \subseteq streams \union {f}
      BY <1>9 DEF serverAccept, serverRefuse
    <3>4. \A g \in Filters : Outstanding(g)' \in Nat /\ Outstanding(g) \in Nat
      BY <2>1, <2>2
    <3> HIDE DEF Outstanding
    <3>5. \A g \in Filters : Outstanding(g)' <= subscriptions'[g]
      BY <2>1, <3>2, <3>4
    <3>6. \A g \in streams' : Outstanding(g)' < subscriptions'[g]
      BY <2>1, <3>1, <3>2, <3>3, <3>4
    <3> QED
      BY <3>1, <3>5, <3>6
  <2>3. CASE refusals' = [refusals EXCEPT ![f] = @ + 1] /\ UNCHANGED <<notices, streams>>
    <3>1. \A g \in Filters : Outstanding(g)' = Outstanding(g)
      BY <2>1, <2>3
    <3> QED
      BY <2>1, <2>3, <3>1
  <2> QED
    BY <1>9, <2>2, <2>3 DEF serverAccept, serverRefuse
<1>10. CASE serverPublish
  BY <1>10 DEF serverPublish, AnswersAccounted, Outstanding, TypeOK
<1>11. CASE UNCHANGED vars
  BY <1>11, AccountKept DEF vars
<1> QED
  BY <1>1, <1>2, <1>3, <1>4, <1>5, <1>6, <1>7, <1>8, <1>9, <1>10, <1>11
     DEF Next, Caller, onRead, InRead, Answer

(* Every step of a session keeps the invariant. *)
LEMMA SessionStep == SessionInv /\ [Next]_vars => SessionInv'
  BY TypeStep, ChainStep, AccountStep DEF SessionInv

(* The inductive invariant holds in every reachable state. *)
THEOREM SessionInvariant == Spec => []SessionInv
<1>1. Init => SessionInv
  <2> SUFFICES ASSUME Init PROVE SessionInv
    OBVIOUS
  <2>1. TypeOK
    <3>1. [f \in Filters |-> 0] \in [Filters -> Nat] /\ <<>> \in Seq(Filters)
      OBVIOUS
    <3> QED
      BY <3>1 DEF Init, TypeOK, ChainOps, LooseOps
  <2>2. SingleChain /\ StatusInv
    BY DEF Init, SingleChain, StatusInv, Early, ChainOps
  <2>3. AnswersAccounted
    BY DEF Init, AnswersAccounted, Outstanding
  <2> QED
    BY <2>1, <2>2, <2>3 DEF SessionInv
<1> QED
  BY <1>1, SessionStep, PTL DEF Spec

(* Every variable of a session keeps its type. *)
THEOREM TypesAlwaysOK == Spec => []TypeOK
  BY SessionInvariant, PTL DEF SessionInv

(* Beast is never asked for two reads, two writes, or a read beside a write. *)
THEOREM SingleChainAlways == Spec => []SingleChain
  BY SessionInvariant, PTL DEF SessionInv

(* Every outstanding answer has an entry of subscriptions of its own. *)
THEOREM AnswersAlwaysAccounted == Spec => []AnswersAccounted
  BY SessionInvariant, PTL DEF SessionInv

(* isSubscribed answers true for every stream the exchange publishes here. *)
THEOREM StreamsAlwaysRecorded == Spec => []StreamsRecorded
<1>1. SessionInv => StreamsRecorded
  <2> SUFFICES ASSUME SessionInv, NEW f \in streams PROVE subscriptions[f] > 0
    BY DEF StreamsRecorded, isSubscribed
  <2>1. /\ f \in Filters /\ Outstanding(f) < subscriptions[f]
        /\ requested[f] \in Nat /\ refusals[f] \in Nat /\ subscriptions[f] \in Nat
    BY DEF SessionInv, TypeOK, AnswersAccounted
  <2> QED
    BY <2>1 DEF Outstanding
<1> QED
  BY <1>1, SessionInvariant, PTL

(* onRead never starts a close beside another one or on a stream not open. *)
THEOREM NeverASecondClose == Spec => []NoSecondClose
<1>1. SessionInv => NoSecondClose
  BY DEF SessionInv, StatusInv, NoSecondClose
<1> QED
  BY <1>1, SessionInvariant, PTL

(* What a step does to the chain of reads and writes, with a logger. *)
LEMMA ListenStep ==
  ASSUME HasLogger, SessionInv, ReadChainAlive, [Next]_vars
  PROVE  ReadChainAlive'
<1> SUFFICES ASSUME status' = "open"
             PROVE  pending' \intersect {"write", "read"} # {} \/ ioStep' # "idle"
  BY DEF ReadChainAlive
<1> USE HasLogger DEF ReadChainAlive, Swap, AfterLog,
        sessionVars, streamVars, networkVars, historyVars
<1>1. CASE Caller
  BY <1>1 DEF Caller, run, subscribe, writeSubscription, SessionInv, StatusInv, Early
<1>2. CASE onResolve \/ onConnect \/ onSSLHandshake
  BY <1>2 DEF onResolve, onConnect, onSSLHandshake, Connecting, SessionInv, StatusInv, Early
<1>3. CASE onHandshake
  BY <1>3 DEF onHandshake, SessionInv, StatusInv, Early
<1>4. CASE onWrite \/ onClose \/ timerExpires \/ onPingTimer \/ onPing
  BY <1>4 DEF onWrite, onClose, timerExpires, onPingTimer, onPing
<1>5. CASE onRead
  BY <1>5 DEF onRead, onReadError, onReadNotice, onReadMalformed, onReadRefusal
<1>6. CASE InRead
  BY <1>6 DEF InRead, drainRequests, quitOrReadOn
<1>7. CASE connectionLost \/ Answer \/ serverPublish
  BY <1>7 DEF connectionLost, Answer, serverAccept, serverRefuse, serverPublish
<1>8. CASE UNCHANGED vars
  BY <1>8 DEF vars
<1> QED
  BY <1>1, <1>2, <1>3, <1>4, <1>5, <1>6, <1>7, <1>8 DEF Next

(* With a logger, an open stream always has its read or its write under way. *)
THEOREM ListensWhileOpen ==
  ASSUME HasLogger PROVE Spec => []ReadChainAlive
<1>1. Init => ReadChainAlive
  BY DEF Init, ReadChainAlive
<1>2. SessionInv /\ ReadChainAlive /\ [Next]_vars => ReadChainAlive'
  BY HasLogger, ListenStep
<1> QED
  BY <1>1, <1>2, SessionInvariant, PTL DEF Spec

(* The queue is not touched before the handshake, but by subscribe. *)
LEMMA FirstFrameStep ==
  SessionInv /\ FirstFrameNotEmpty /\ [Next]_vars => FirstFrameNotEmpty'
<1> SUFFICES ASSUME SessionInv, FirstFrameNotEmpty, [Next]_vars
             PROVE  FirstFrameNotEmpty'
  OBVIOUS
<1> USE DEF FirstFrameNotEmpty, SessionInv, SingleChain, StatusInv, TypeOK, Early,
            ChainOps, LooseOps, Swap, sessionVars, streamVars, networkVars, historyVars
<1>1. ASSUME NEW f \in Filters, run(f) \/ subscribe(f) PROVE FirstFrameNotEmpty'
  BY <1>1 DEF run, subscribe, writeSubscription, isSubscribed
<1>2. CASE onResolve \/ onConnect \/ onSSLHandshake
  BY <1>2 DEF onResolve, onConnect, onSSLHandshake, Connecting
<1>3. CASE onHandshake
  BY <1>3 DEF onHandshake
<1>4. CASE onWrite \/ onClose \/ timerExpires \/ onPingTimer \/ onPing
  BY <1>4 DEF onWrite, onClose, timerExpires, onPingTimer, onPing
<1>5. CASE onRead
  BY <1>5 DEF onRead, onReadError, onReadNotice, onReadMalformed, onReadRefusal,
              Reading, AfterLog
<1>6. CASE InRead
  BY <1>6 DEF InRead, drainRequests, quitOrReadOn, AfterLog
<1>7. CASE connectionLost \/ Answer \/ serverPublish
  BY <1>7 DEF connectionLost, Answer, serverAccept, serverRefuse, serverPublish
<1>8. CASE UNCHANGED vars
  BY <1>8 DEF vars
<1> QED
  BY <1>1, <1>2, <1>3, <1>4, <1>5, <1>6, <1>7, <1>8 DEF Next, Caller

(* The request run() queued is still queued when onHandshake writes. *)
THEOREM FirstFrameNeverEmpty == Spec => []FirstFrameNotEmpty
<1>1. Init => FirstFrameNotEmpty
  BY DEF Init, FirstFrameNotEmpty
<1> QED
  BY <1>1, FirstFrameStep, SessionInvariant, PTL DEF Spec

(* What a step does to the requests. *)
LEMMA RequestStep ==
  SessionInv /\ NoRequestLost /\ [Next]_vars => NoRequestLost'
<1> SUFFICES ASSUME SessionInv, NoRequestLost, [Next]_vars, NEW f \in asked'
             PROVE  Queued(f)' \/ subscriptions'[f] > 0 \/ f \in refused'
  BY DEF NoRequestLost, isSubscribed
<1> USE DEF NoRequestLost, isSubscribed, SessionInv, TypeOK,
            sessionVars, streamVars, networkVars, historyVars
<1>1. ASSUME NEW g \in Filters, writeSubscription(g)
      PROVE  Queued(f)' \/ subscriptions'[f] > 0 \/ f \in refused'
  <2>1. f \in asked \/ f = g
    BY <1>1 DEF writeSubscription
  <2>2. CASE isSubscribed(g)
    BY <1>1, <2>1, <2>2 DEF writeSubscription, Queued
  <2>3. CASE ~isSubscribed(g)
    <3>1. subscriptionRequests' = Append(subscriptionRequests, g)
      BY <1>1, <2>3 DEF writeSubscription
    <3>2. Queued(g)' /\ (Queued(f) => Queued(f)')
      <4>1. /\ Len(subscriptionRequests)' = Len(subscriptionRequests) + 1
            /\ Len(subscriptionRequests) \in Nat
            /\ subscriptionRequests'[Len(subscriptionRequests) + 1] = g
            /\ \A i \in 1..Len(subscriptionRequests) :
                 subscriptionRequests'[i] = subscriptionRequests[i]
        BY <3>1
      <4> QED
        BY <4>1 DEF Queued
    <3> QED
      BY <1>1, <2>1, <3>2 DEF writeSubscription
  <2> QED
    BY <2>2, <2>3
<1>2. ASSUME readSubscription, UNCHANGED <<asked, refused>>
      PROVE  Queued(f)' \/ subscriptions'[f] > 0 \/ f \in refused'
  <2>1. CASE subscriptionRequests = <<>>
    BY <1>2, <2>1 DEF readSubscription, Queued
  <2>2. CASE subscriptionRequests # <<>>
    <3> DEFINE q == subscriptionRequests
    <3>1. /\ Head(q) \in Filters /\ Len(q) > 0 /\ q[1] = Head(q)
          /\ Tail(q) \in Seq(Filters) /\ Len(Tail(q)) = Len(q) - 1
          /\ \A i \in 1..Len(Tail(q)) : Tail(q)[i] = q[i + 1]
      BY <2>2
    <3>2. subscriptions' = [subscriptions EXCEPT ![Head(q)] = @ + 1] /\ q' = Tail(q)
      BY <1>2, <2>2 DEF readSubscription
    <3>3. CASE f = Head(q)
      BY <3>1, <3>2, <3>3
    <3>4. CASE Queued(f) /\ f # Head(q)
      <4>1. PICK i \in 1..Len(q) : q[i] = f
        BY <3>4 DEF Queued
      <4>2. i - 1 \in 1..Len(Tail(q)) /\ Tail(q)[i - 1] = f
        BY <3>1, <3>4, <4>1
      <4> QED
        BY <3>2, <4>2 DEF Queued
    <3>5. CASE ~Queued(f)
      BY <1>2, <3>1, <3>2, <3>5
    <3> QED
      BY <3>3, <3>4, <3>5
  <2> QED
    BY <2>1, <2>2
<1>3. ASSUME UNCHANGED <<subscriptions, subscriptionRequests, asked, refused>>
      PROVE  Queued(f)' \/ subscriptions'[f] > 0 \/ f \in refused'
  BY <1>3 DEF Queued
<1>4. CASE Caller
  BY <1>1, <1>4 DEF Caller, run, subscribe
<1>5. CASE onHandshake
  BY <1>2, <1>3, <1>5 DEF onHandshake
<1>6. ASSUME NEW g \in Filters, onReadRefusal(g)
      PROVE  Queued(f)' \/ subscriptions'[f] > 0 \/ f \in refused'
  <2>1. f = g \/ subscriptions'[f] = subscriptions[f]
    BY <1>6 DEF onReadRefusal
  <2>2. UNCHANGED <<subscriptionRequests, asked>> /\ refused' = refused \union {g}
    BY <1>6 DEF onReadRefusal
  <2> QED
    BY <2>1, <2>2 DEF Queued
<1>7. CASE drainRequests
  BY <1>2, <1>7 DEF drainRequests
<1>8. CASE \/ onResolve \/ onConnect \/ onSSLHandshake \/ onWrite \/ onClose
           \/ timerExpires \/ onPingTimer \/ onPing \/ quitOrReadOn
  BY <1>3, <1>8 DEF onResolve, onConnect, onSSLHandshake, Connecting, onWrite, onClose,
                    timerExpires, onPingTimer, onPing, quitOrReadOn
<1>9. CASE onReadError \/ onReadNotice \/ onReadMalformed
  BY <1>3, <1>9 DEF onReadError, onReadNotice, onReadMalformed
<1>10. CASE connectionLost \/ Answer \/ serverPublish \/ UNCHANGED vars
  BY <1>3, <1>10 DEF connectionLost, Answer, serverAccept, serverRefuse, serverPublish, vars
<1> QED
  BY <1>4, <1>5, <1>6, <1>7, <1>8, <1>9, <1>10 DEF Next, onRead, InRead

(* Copies of a filter in subscriptions only go down with its refusal, and     *)
(* requests leave the queue only into subscriptions.                          *)
THEOREM NoRequestEverLost == Spec => []NoRequestLost
<1>1. Init => NoRequestLost
  BY DEF Init, NoRequestLost
<1> QED
  BY <1>1, RequestStep, SessionInvariant, PTL DEF Spec

(* Only filters somebody asked for are queued. *)
QueuedWereAsked ==
  \A i \in 1..Len(subscriptionRequests) : subscriptionRequests[i] \in asked

(* Only run() and subscribe() queue, and both ask. *)
LEMMA QueuedStep ==
  TypeOK /\ QueuedWereAsked /\ [Next]_vars => QueuedWereAsked'
<1> SUFFICES ASSUME TypeOK, QueuedWereAsked, [Next]_vars PROVE QueuedWereAsked'
  OBVIOUS
<1> USE DEF QueuedWereAsked, TypeOK, sessionVars, streamVars, networkVars, historyVars
<1>1. ASSUME NEW f \in Filters, writeSubscription(f) PROVE QueuedWereAsked'
  BY <1>1 DEF writeSubscription
<1>2. ASSUME readSubscription, UNCHANGED asked PROVE QueuedWereAsked'
  BY <1>2 DEF readSubscription
<1>3. CASE Caller
  BY <1>1, <1>3 DEF Caller, run, subscribe
<1>4. CASE onHandshake
  BY <1>2, <1>4 DEF onHandshake
<1>5. CASE onRead
  BY <1>5 DEF onRead, onReadError, onReadNotice, onReadMalformed, onReadRefusal
<1>6. CASE InRead
  BY <1>2, <1>6 DEF InRead, drainRequests, quitOrReadOn
<1>7. CASE \/ onResolve \/ onConnect \/ onSSLHandshake \/ onWrite \/ onClose
           \/ timerExpires \/ onPingTimer \/ onPing
  BY <1>7 DEF onResolve, onConnect, onSSLHandshake, Connecting, onWrite, onClose,
              timerExpires, onPingTimer, onPing
<1>8. CASE connectionLost \/ Answer \/ serverPublish \/ UNCHANGED vars
  BY <1>8 DEF connectionLost, Answer, serverAccept, serverRefuse, serverPublish, vars
<1> QED
  BY <1>3, <1>4, <1>5, <1>6, <1>7, <1>8 DEF Next

(* No request appears in the queue that nobody made. *)
LEMMA QueuedAlwaysAsked == Spec => []QueuedWereAsked
<1>1. Init => QueuedWereAsked
  BY DEF Init, QueuedWereAsked
<1> QED
  BY <1>1, QueuedStep, SessionInvariant, PTL DEF Spec, SessionInv

(* What a step does to the ledger. *)
LedgerStep ==
  Ledger!Next \/ UNCHANGED <<asked, {f \in Filters : isSubscribed(f)}, streams>>

(* Every handler, call and message is a step of StreamLedger, or none of it. *)
LEMMA StepKeepsLedger ==
  SessionInv /\ QueuedWereAsked /\ [Next]_vars => LedgerStep
<1> DEFINE claimed == {f \in Filters : isSubscribed(f)}
<1> SUFFICES ASSUME SessionInv, QueuedWereAsked, [Next]_vars PROVE LedgerStep
  OBVIOUS
<1> USE DEF LedgerStep, SessionInv, TypeOK, isSubscribed, sessionVars, streamVars,
            networkVars, historyVars
<1>1. ASSUME NEW f \in Filters, run(f) \/ subscribe(f) PROVE Ledger!Ask(f)
  BY <1>1 DEF run, subscribe, writeSubscription, Ledger!Ask
<1>2. ASSUME readSubscription, UNCHANGED <<asked, streams>>
      PROVE  LedgerStep
  <2>1. CASE subscriptionRequests = <<>>
    BY <1>2, <2>1 DEF readSubscription
  <2>2. CASE subscriptionRequests # <<>>
    <3> DEFINE f == Head(subscriptionRequests)
    <3>1. f \in asked /\ f \in Filters
      BY <2>2 DEF QueuedWereAsked
    <3>2. subscriptions' = [subscriptions EXCEPT ![f] = @ + 1]
      BY <1>2, <2>2 DEF readSubscription
    <3> HIDE DEF f
    <3>3. claimed' = claimed \union {f}
      BY <3>1, <3>2
    <3> QED
      BY <1>2, <3>1, <3>3 DEF Ledger!Next, Ledger!Claim
  <2> QED
    BY <2>1, <2>2
<1>3. ASSUME UNCHANGED <<asked, subscriptions>>, streams' \in {{}, streams}
      PROVE  LedgerStep
  BY <1>3 DEF Ledger!Next, Ledger!Disconnect
<1>4. ASSUME NEW f \in Filters, onReadRefusal(f) PROVE LedgerStep
  <2>1. /\ subscriptions' = [subscriptions EXCEPT ![f] = IF @ > 0 THEN @ - 1 ELSE @]
        /\ refusals[f] > 0 /\ UNCHANGED <<asked, streams>>
    BY <1>4 DEF onReadRefusal
  <2>2. f \in streams => subscriptions[f] > 1
    BY <2>1 DEF AnswersAccounted, Outstanding
  <2>3. claimed' = IF subscriptions[f] > 1 THEN claimed ELSE claimed \ {f}
    BY <2>1
  <2>4. CASE subscriptions[f] > 1 \/ f \notin claimed
    BY <2>1, <2>3, <2>4
  <2>5. CASE ~(subscriptions[f] > 1) /\ f \in claimed
    BY <2>1, <2>2, <2>3, <2>5 DEF Ledger!Next, Ledger!GiveUp
  <2> QED
    BY <2>4, <2>5
<1>5. ASSUME NEW f \in Filters, serverAccept(f) PROVE Ledger!Accept(f)
  <2>1. f \in claimed
    BY <1>5 DEF serverAccept, AnswersAccounted, Outstanding
  <2> QED
    BY <1>5, <2>1 DEF serverAccept, Ledger!Accept
<1>6. CASE Caller
  BY <1>1, <1>6 DEF Caller, Ledger!Next
<1>7. CASE onHandshake \/ drainRequests
  BY <1>2, <1>3, <1>7 DEF onHandshake, drainRequests
<1>8. CASE \/ onResolve \/ onConnect \/ onSSLHandshake \/ onWrite \/ onClose
           \/ timerExpires \/ onPingTimer \/ onPing \/ quitOrReadOn
  BY <1>3, <1>8 DEF onResolve, onConnect, onSSLHandshake, Connecting, onWrite, onClose,
                    timerExpires, onPingTimer, onPing, quitOrReadOn
<1>9. CASE onReadError \/ onReadNotice \/ onReadMalformed
  BY <1>3, <1>9 DEF onReadError, onReadNotice, onReadMalformed
<1>10. CASE connectionLost \/ serverPublish \/ UNCHANGED vars
  BY <1>3, <1>10 DEF connectionLost, serverPublish, vars
<1>11. ASSUME NEW f \in Filters, serverAccept(f) \/ serverRefuse(f) PROVE LedgerStep
  BY <1>3, <1>5, <1>11 DEF serverRefuse, Ledger!Next
<1> QED
  BY <1>4, <1>6, <1>7, <1>8, <1>9, <1>10, <1>11 DEF Next, onRead, InRead, Answer

(* Every step of the session is a step of StreamLedger or leaves it alone. *)
THEOREM SessionImplementsLedger == Spec => ImplementsLedger
<1>1. Init => Ledger!Init
  BY DEF Init, Ledger!Init, isSubscribed
<1> QED
  BY <1>1, StepKeepsLedger, SessionInvariant, QueuedAlwaysAsked, PTL
  DEF Spec, LedgerStep, ImplementsLedger, Ledger!Spec, Ledger!vars

-------------------------------------------------------------------------------
(* One session after the other: module ClientSession. *)

(* The sessions' part of a step: a new one, or a step of the one there is.    *)
Handled == handle \/ handleOn

(* What a step of the composition is to the session there is. *)
LEMMA SystemStepKinds ==
  ASSUME SystemNext
  PROVE  \/ \E f \in Filters : NewSession(f)
         \/ Next
         \/ UNCHANGED vars
<1>1. CASE handle \/ handleOn \/ outside
  BY <1>1 DEF handle, Serving, Handler, Chain, handleOn, outside, Next
<1>2. ASSUME NEW f \in Filters, subscribeAnew(f) \/ subscribeQueue(f)
      PROVE  NewSession(f) \/ Next \/ UNCHANGED vars
  BY <1>2 DEF subscribeAnew, subscribeQueue, Next, Caller
<1>3. CASE subscribeLock \/ callerStep \/ threadStep
  BY <1>3 DEF subscribeLock, callerStep, threadStep
<1> QED
  BY <1>1, <1>2, <1>3 DEF SystemNext

(* A session begins with the invariant, whatever the one before has left. *)
LEMMA NewSessionInv ==
  ASSUME NEW f \in Filters, NewSession(f)
  PROVE  SessionInv' /\ QueuedWereAsked'
<1>1. /\ subscriptions' \in [Filters -> Nat] /\ requested' \in [Filters -> Nat]
      /\ refusals' \in [Filters -> Nat] /\ subscriptionRequests' \in Seq(Filters)
  BY DEF NewSession
<1>2. TypeOK'
  BY <1>1 DEF NewSession, TypeOK, ChainOps, LooseOps
<1>3. SingleChain' /\ StatusInv'
  BY DEF NewSession, SingleChain, StatusInv, Early, ChainOps
<1>4. AnswersAccounted'
  BY DEF NewSession, AnswersAccounted, Outstanding
<1>5. QueuedWereAsked'
  BY DEF NewSession, QueuedWereAsked
<1> QED
  BY <1>2, <1>3, <1>4, <1>5 DEF SessionInv

(* Each session in turn keeps the invariant. *)
THEOREM EverySessionInvariant == System => [](SessionInv /\ QueuedWereAsked)
<1>1. SystemInit => SessionInv /\ QueuedWereAsked
  <2> SUFFICES ASSUME SystemInit PROVE SessionInv /\ QueuedWereAsked
    OBVIOUS
  <2>1. /\ subscriptions \in [Filters -> Nat] /\ requested \in [Filters -> Nat]
        /\ refusals \in [Filters -> Nat] /\ subscriptionRequests \in Seq(Filters)
    BY DEF SystemInit
  <2>2. TypeOK
    BY <2>1 DEF SystemInit, TypeOK
  <2>3. SingleChain /\ StatusInv
    BY DEF SystemInit, SingleChain, StatusInv
  <2>4. AnswersAccounted /\ QueuedWereAsked
    BY DEF SystemInit, AnswersAccounted, Outstanding, QueuedWereAsked
  <2> QED
    BY <2>2, <2>3, <2>4 DEF SessionInv
<1>2. SessionInv /\ QueuedWereAsked /\ [SystemNext]_systemVars
        => SessionInv' /\ QueuedWereAsked'
  <2>1. ASSUME SessionInv, QueuedWereAsked, [Next]_vars PROVE SessionInv' /\ QueuedWereAsked'
    BY <2>1, SessionStep, QueuedStep DEF SessionInv
  <2> QED
    BY <2>1, SystemStepKinds, NewSessionInv DEF systemVars
<1> QED
  BY <1>1, <1>2, PTL DEF System

(* In each session in turn the first frame is never empty and no request is    *)
(* lost, the chain is single and no close doubled, and answers are accounted.  *)
THEOREM EverySessionSafe ==
  System => [](/\ TypeOK /\ SingleChain /\ AnswersAccounted /\ NoSecondClose
               /\ FirstFrameNotEmpty /\ NoRequestLost)
<1>1. SystemInit => FirstFrameNotEmpty /\ NoRequestLost
  BY DEF SystemInit, FirstFrameNotEmpty, NoRequestLost
<1>2. SessionInv /\ FirstFrameNotEmpty /\ NoRequestLost /\ [SystemNext]_systemVars
        => FirstFrameNotEmpty' /\ NoRequestLost'
  <2>1. ASSUME NEW f \in Filters, NewSession(f) PROVE FirstFrameNotEmpty' /\ NoRequestLost'
    <3>1. Len(<<f>>) = 1 /\ <<f>>[1] = f /\ <<f>> # <<>>
      OBVIOUS
    <3> QED
      BY <2>1, <3>1 DEF NewSession, FirstFrameNotEmpty, NoRequestLost, Queued
  <2>2. ASSUME SessionInv, FirstFrameNotEmpty, NoRequestLost, [Next]_vars
        PROVE  FirstFrameNotEmpty' /\ NoRequestLost'
    BY <2>2, FirstFrameStep, RequestStep
  <2> QED
    BY <2>1, <2>2, SystemStepKinds DEF systemVars
<1>3. SessionInv => TypeOK /\ SingleChain /\ AnswersAccounted /\ NoSecondClose
  BY DEF SessionInv, StatusInv, NoSecondClose
<1> QED
  BY <1>1, <1>2, <1>3, EverySessionInvariant, PTL DEF System

(* With a logger, no session ever stops reading a connection it keeps.         *)
THEOREM EverySessionListens ==
  ASSUME HasLogger PROVE System => []ReadChainAlive
<1>1. SystemInit => ReadChainAlive
  BY DEF SystemInit, ReadChainAlive
<1>2. SessionInv /\ ReadChainAlive /\ [SystemNext]_systemVars => ReadChainAlive'
  <2>1. ASSUME NEW f \in Filters, NewSession(f) PROVE ReadChainAlive'
    BY <2>1 DEF NewSession, ReadChainAlive
  <2>2. ASSUME SessionInv, ReadChainAlive, [Next]_vars PROVE ReadChainAlive'
    BY <2>2, HasLogger, ListenStep
  <2> QED
    BY <2>1, <2>2, SystemStepKinds DEF systemVars
<1> QED
  BY <1>1, <1>2, EverySessionInvariant, PTL DEF System

(* What the exchange and the timer do ends no session and touches no list,    *)
(* and only callers ask.                                                      *)
LEMMA OutsideFacts ==
  ASSUME outside
  PROVE  Alive' /\ UNCHANGED <<asked, subscriptions, clientVars>>
  BY DEF outside, Unserved, timerExpires, connectionLost, Answer, serverAccept, serverRefuse,
         serverPublish, Alive, sessionVars, streamVars, historyVars

(* Handlers need the io thread and a session, and ask for nothing. *)
LEMMA HandledFacts ==
  ASSUME Handled
  PROVE  /\ ioThread = "run" /\ Alive
         /\ UNCHANGED <<asked, clientVars>>
<1>1. ASSUME Handler PROVE UNCHANGED asked
  BY <1>1 DEF Handler, Chain, onResolve, onConnect, onSSLHandshake, Connecting, onHandshake,
       onWrite, onRead, onReadError, onReadNotice, onReadMalformed, onReadRefusal,
       onClose, onPingTimer, onPing, historyVars
<1>2. ASSUME InRead PROVE UNCHANGED asked /\ Alive
  BY <1>2 DEF InRead, drainRequests, quitOrReadOn, historyVars, Alive
<1> QED
  BY <1>1, <1>2 DEF Handled, handle, handleOn, Serving, Client!Serving

(* Every step of client and sessions is a step of ClientLedger or a stutter. *)
LEMMA SystemContractStep ==
  ASSUME SessionInv, QueuedWereAsked, [SystemNext]_systemVars
  PROVE  Contract!Next \/ UNCHANGED Contract!vars
<1> DEFINE claimed == {f \in Filters : isSubscribed(f)}
           Mapped == Contract!Next \/ UNCHANGED Contract!vars
<1> USE DEF Contract!vars, Contract!Client!vars, Contract!Ledger!vars
<1>1. ASSUME UNCHANGED vars
      PROVE  UNCHANGED <<Alive, Known(asked), Known(claimed), Known(streams)>>
  BY <1>1 DEF vars, sessionVars, streamVars, networkVars, historyVars, Alive, Known, isSubscribed
<1>2. ASSUME NEW f \in Filters, subscribeAnew(f) PROVE Contract!subscribeAnew(f)
  <2>1. Alive' /\ ~Alive /\ asked' = {f} /\ claimed' = {} /\ streams' = {}
    BY <1>2 DEF subscribeAnew, NewSession, Alive, ChainOps, isSubscribed
  <2> QED
    BY <1>2, <2>1 DEF subscribeAnew, Client!subscribeAnew, Contract!subscribeAnew,
         Contract!Client!subscribeAnew, Known
<1>3. ASSUME NEW f \in Filters, subscribeQueue(f) PROVE Contract!subscribeQueue(f)
  <2>1. CASE Alive
    <3>1. /\ Alive' /\ asked' = asked \union {f} /\ claimed' = claimed
          /\ streams' = streams
      BY <1>3, <2>1 DEF subscribeQueue, subscribe, writeSubscription, Alive, streamVars,
           networkVars, isSubscribed
    <3> QED
      BY <1>3, <2>1, <3>1 DEF subscribeQueue, Client!subscribeQueue,
           Contract!subscribeQueue, Contract!Client!subscribeQueue, Contract!Ledger!Ask,
           Known
  <2>2. CASE ~Alive
    BY <1>1, <1>3, <2>2 DEF subscribeQueue, Client!subscribeQueue,
         Contract!subscribeQueue, Contract!Client!subscribeQueue
  <2> QED
    BY <2>1, <2>2
<1>4. CASE subscribeLock \/ callerStep \/ threadStep
  <2>1. UNCHANGED vars
    BY <1>4 DEF subscribeLock, callerStep, threadStep
  <2>2. \/ Client!subscribeLock \/ Client!runCheck \/ Client!InRun
        \/ Client!destroy \/ Client!destroyJoin \/ Client!IoThread
    BY <1>4 DEF subscribeLock, callerStep, threadStep
  <2>3. Contract!clientStep
    BY <1>1, <2>1, <2>2 DEF Contract!clientStep,
         Client!subscribeLock, Contract!Client!subscribeLock,
         Client!runCheck, Contract!Client!runCheck,
         Client!InRun, Client!runSet, Client!runJoin, Client!runSpawn,
         Contract!Client!InRun, Contract!Client!runSet, Contract!Client!runJoin,
         Contract!Client!runSpawn, Client!destroy, Contract!Client!destroy,
         Client!destroyJoin, Contract!Client!destroyJoin,
         Client!IoThread, Client!ioBegin, Client!ioRestart, Client!runReturns,
         Client!ioClear, Client!ioClearAgain,
         Contract!Client!IoThread, Contract!Client!ioBegin, Contract!Client!ioRestart,
         Contract!Client!runReturns, Contract!Client!ioClear, Contract!Client!ioClearAgain
  <2> QED
    BY <2>3 DEF Contract!Next
<1>5. ASSUME Handled \/ outside, ~Alive' PROVE Contract!sessionEnds
  BY <1>5, OutsideFacts, HandledFacts DEF Contract!sessionEnds, Contract!Forget,
       Contract!Client!sessionEnds, Known, clientVars
<1>6. ASSUME Handled \/ outside, Alive' PROVE Mapped
  <2>1. Alive /\ UNCHANGED <<asked, clientVars>>
    BY <1>6, OutsideFacts, HandledFacts DEF outside, Unserved
  <2>2. claimed' = claimed \/ ioThread = "run"
    BY <1>6, OutsideFacts, HandledFacts DEF isSubscribed
  <2>3. LedgerStep
    BY <1>6, StepKeepsLedger DEF Handled, handle, Handler, Chain, handleOn, outside, Next
  <2>4. CASE UNCHANGED <<asked, claimed, streams>>
    BY <1>6, <2>1, <2>4 DEF Known, clientVars
  <2>5. ASSUME NEW f \in Filters, Ledger!Ask(f) PROVE UNCHANGED <<asked, claimed, streams>>
    BY <2>1, <2>5 DEF Ledger!Ask
  <2>6. ASSUME NEW f \in Filters, Ledger!Claim(f) \/ Ledger!GiveUp(f), ioThread = "run"
        PROVE  Mapped
    BY <1>6, <2>1, <2>6 DEF Ledger!Claim, Ledger!GiveUp, Contract!Ledger!Claim,
         Contract!Ledger!GiveUp, Known, clientVars, Contract!sessionStep, Contract!Next
  <2>7. ASSUME NEW f \in Filters, Ledger!Claim(f) \/ Ledger!GiveUp(f), claimed' = claimed
        PROVE  UNCHANGED <<asked, claimed, streams>>
    BY <2>7 DEF Ledger!Claim, Ledger!GiveUp
  <2>8. ASSUME NEW f \in Filters, Ledger!Accept(f) PROVE Mapped
    BY <1>6, <2>1, <2>8 DEF Ledger!Accept, Contract!Ledger!Accept, Known, clientVars,
         Contract!sessionStep, Contract!Next
  <2>9. CASE Ledger!Disconnect
    BY <1>6, <2>1, <2>9 DEF Ledger!Disconnect, Contract!Ledger!Disconnect, Known,
         clientVars, Contract!sessionStep, Contract!Next
  <2> QED
    BY <2>2, <2>3, <2>4, <2>5, <2>6, <2>7, <2>8, <2>9 DEF LedgerStep, Ledger!Next
<1>7. CASE UNCHANGED systemVars
  BY <1>1, <1>7 DEF systemVars, clientVars
<1> QED
  BY <1>2, <1>3, <1>4, <1>5, <1>6, <1>7 DEF SystemNext, Handled, Contract!Next

(* A client and its sessions, one after the other, are what ClientLedger says: *)
(* for any filters, whatever the threads, the network and the exchange do.     *)
THEOREM SystemImplementsContract == System => ImplementsContract
<1>1. SystemInit => Contract!Init
  BY DEF SystemInit, Client!Init, Contract!Init, Contract!Client!Init,
       Contract!Ledger!Init, Known
<1>2. SessionInv /\ QueuedWereAsked /\ [SystemNext]_systemVars
        => [Contract!Next]_(Contract!vars)
  BY SystemContractStep
<1> QED
  BY <1>1, <1>2, EverySessionInvariant, PTL
  DEF System, ImplementsContract, Contract!Spec

-------------------------------------------------------------------------------
(* The client of this system is WebSocketClient, and what is proved of that    *)
(* one holds of it.                                                            *)
ClientTheorems == INSTANCE WebSocketClientProofs
                    WITH session <- Alive, HandlersThrow <- ~HasLogger

(* By way of ClientLedger, whose steps are WebSocketClient's or leave it alone. *)
LEMMA SystemUsesClient == System => ClientTheorems!Spec
<1>1. SystemInit => ClientTheorems!Init
  BY DEF SystemInit, Client!Init, ClientTheorems!Init, Alive
<1>2. ASSUME Contract!Next \/ UNCHANGED Contract!vars
      PROVE  ClientTheorems!Next \/ UNCHANGED ClientTheorems!vars
  <2> USE DEF ClientTheorems!Next, ClientTheorems!Caller, ClientTheorems!InSubscribe,
              Contract!Client!vars, ClientTheorems!vars
  <2>1. ASSUME NEW f \in Filters, Contract!subscribeAnew(f) \/ Contract!subscribeQueue(f)
        PROVE  ClientTheorems!InSubscribe
    BY <2>1 DEF Contract!subscribeAnew, Contract!subscribeQueue,
         Contract!Client!subscribeAnew, ClientTheorems!subscribeAnew,
         Contract!Client!subscribeQueue, ClientTheorems!subscribeQueue
  <2>2. CASE Contract!clientStep
    BY <2>2 DEF Contract!clientStep,
         Contract!Client!subscribeLock, ClientTheorems!subscribeLock,
         Contract!Client!runCheck, ClientTheorems!runCheck,
         Contract!Client!InRun, ClientTheorems!InRun,
         Contract!Client!runSet, ClientTheorems!runSet,
         Contract!Client!runJoin, ClientTheorems!runJoin,
         Contract!Client!runSpawn, ClientTheorems!runSpawn,
         Contract!Client!destroy, ClientTheorems!destroy,
         Contract!Client!destroyJoin, ClientTheorems!destroyJoin,
         Contract!Client!IoThread, ClientTheorems!IoThread,
         Contract!Client!ioBegin, ClientTheorems!ioBegin,
         Contract!Client!ioRestart, ClientTheorems!ioRestart,
         Contract!Client!runReturns, ClientTheorems!runReturns,
         Contract!Client!ioClear, ClientTheorems!ioClear,
         Contract!Client!ioClearAgain, ClientTheorems!ioClearAgain
  <2>3. CASE Contract!sessionEnds \/ Contract!handlerThrows
    BY <2>3 DEF Contract!sessionEnds, Contract!handlerThrows,
         Contract!Client!sessionEnds, ClientTheorems!sessionEnds,
         Contract!Client!handlerThrows, ClientTheorems!handlerThrows
  <2>4. CASE Contract!sessionStep \/ UNCHANGED Contract!vars
    BY <2>4 DEF Contract!sessionStep, Contract!vars
  <2> QED
    BY <1>2, <2>1, <2>2, <2>3, <2>4 DEF Contract!Next
<1>3. SessionInv /\ QueuedWereAsked /\ [SystemNext]_systemVars
        => [ClientTheorems!Next]_(ClientTheorems!vars)
  BY <1>2, SystemContractStep
<1> QED
  BY <1>1, <1>3, EverySessionInvariant, PTL DEF System, ClientTheorems!Spec

(* Whatever its sessions do, the io thread can be started again, and it is     *)
(* over when the destructor has returned.                                      *)
THEOREM SystemsClientSound == System => [](Client!NeverStuck /\ Client!GoneMeansOver)
<1>1. (~HasLogger) \in BOOLEAN
  OBVIOUS
<1>2. ClientTheorems!Spec => [](ClientTheorems!NeverStuck /\ ClientTheorems!GoneMeansOver)
  BY <1>1, ClientTheorems!ClientNeverStuck, ClientTheorems!ThreadOverWhenGone, PTL
<1>3. ClientTheorems!NeverStuck /\ ClientTheorems!GoneMeansOver
        => Client!NeverStuck /\ Client!GoneMeansOver
  BY DEF ClientTheorems!NeverStuck, ClientTheorems!GoneMeansOver,
         ClientTheorems!ThreadLives, Client!NeverStuck, Client!GoneMeansOver,
         Client!ThreadLives
<1> QED
  BY <1>2, <1>3, SystemUsesClient, PTL

(* A handler between two critical sections has the io thread, and run() only   *)
(* starts a thread that it has joined.                                         *)
HandlerInv == /\ ioStep # "idle" => ioThread = "run"
              /\ caller = "spawn" => ioThread = "none"

(* No step of the caller takes the io thread from under a handler. *)
LEMMA HandlerStep == HandlerInv /\ [SystemNext]_systemVars => HandlerInv'
<1> SUFFICES ASSUME HandlerInv, [SystemNext]_systemVars PROVE HandlerInv'
  OBVIOUS
<1> USE DEF HandlerInv
<1>1. ASSUME NEW f \in Filters, subscribeAnew(f) PROVE HandlerInv'
  BY <1>1 DEF subscribeAnew, NewSession, Client!subscribeAnew
<1>2. ASSUME NEW f \in Filters, subscribeQueue(f) PROVE HandlerInv'
  <2>1. UNCHANGED ioStep
    BY <1>2 DEF subscribeQueue, subscribe, vars
  <2> QED
    BY <1>2, <2>1 DEF subscribeQueue, Client!subscribeQueue
<1>3. CASE subscribeLock
  BY <1>3 DEF subscribeLock, Client!subscribeLock, vars
<1>4. CASE callerStep
  <2>1. UNCHANGED ioStep
    BY <1>4 DEF callerStep, vars
  <2>2. CASE Client!runCheck \/ Client!destroy
    BY <2>1, <2>2 DEF Client!runCheck, Client!destroy
  <2>3. CASE Client!InRun
    BY <2>1, <2>3 DEF Client!InRun, Client!runSet, Client!runJoin, Client!runSpawn
  <2>4. CASE Client!destroyJoin
    BY <2>1, <2>4 DEF Client!destroyJoin
  <2> QED
    BY <1>4, <2>2, <2>3, <2>4 DEF callerStep
<1>5. CASE threadStep
  BY <1>5 DEF threadStep, vars, Client!IoThread, Client!ioBegin, Client!ioRestart,
       Client!runReturns, Client!ioClear, Client!ioClearAgain
<1>6. CASE Handled
  BY <1>6, HandledFacts DEF clientVars
<1>7. CASE outside
  <2>1. UNCHANGED ioStep
    BY <1>7 DEF outside, timerExpires, connectionLost, Answer, serverAccept, serverRefuse,
         serverPublish
  <2> QED
    BY <1>7, <2>1 DEF outside, Unserved, clientVars
<1>8. CASE UNCHANGED systemVars
  BY <1>8 DEF systemVars, vars, clientVars
<1> QED
  BY <1>1, <1>2, <1>3, <1>4, <1>5, <1>6, <1>7, <1>8 DEF SystemNext, Handled

(* The destructor returns when no handler is on its way, not even one that     *)
(* stop() found inside onRead: the client joins the thread that runs it.       *)
THEOREM HandlerAlwaysOverWhenGone == System => []HandlerOverWhenGone
<1>1. SystemInit => HandlerInv
  BY DEF SystemInit, Client!Init, HandlerInv
<1>2. HandlerInv /\ Client!GoneMeansOver => HandlerOverWhenGone
  BY DEF HandlerInv, Client!GoneMeansOver, Client!ThreadLives, HandlerOverWhenGone
<1> QED
  BY <1>1, <1>2, HandlerStep, SystemsClientSound, PTL DEF System
===============================================================================
