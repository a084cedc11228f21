------------------------- MODULE WebSocketClientProofs -------------------------
(***************************************************************************)
(* Theorems about WebSocketClient, whether or not handlers throw.          *)
(***************************************************************************)
EXTENDS WebSocketClient, TLAPS

(* The three facts hold together: none of them needs to be strengthened. *)
ClientInv == TypeOK /\ NeverStuck /\ GoneMeansOver

LEMMA ClientStep == ClientInv /\ [Next]_vars => ClientInv'
<1> SUFFICES ASSUME ClientInv, [Next]_vars PROVE ClientInv'
  OBVIOUS
<1> USE DEF ClientInv, TypeOK, NeverStuck, GoneMeansOver, ThreadLives
<1>1. CASE InSubscribe
  <2>1. caller' \in {"idle", "locked"} /\ UNCHANGED <<ioThread, isRunning, stopped>>
    BY <1>1 DEF InSubscribe, subscribeAnew, subscribeLock, subscribeQueue
  <2>2. caller \in {"idle", "locked"}
    BY <1>1 DEF InSubscribe, subscribeAnew, subscribeLock, subscribeQueue
  <2>3. session' \in BOOLEAN /\ started' \in BOOLEAN
    BY <1>1 DEF InSubscribe, subscribeAnew, subscribeLock, subscribeQueue
  <2> QED
    BY <2>1, <2>2, <2>3
<1>2. CASE runCheck
  BY <1>2 DEF runCheck
<1>3. CASE InRun
  BY <1>3 DEF InRun, runSet, runJoin, runSpawn
<1>4. CASE destroy
  BY <1>4 DEF destroy
<1>5. CASE destroyJoin
  BY <1>5 DEF destroyJoin
<1>6. CASE IoThread
  BY <1>6 DEF IoThread, ioBegin, ioRestart, runReturns, ioClear, ioClearAgain
<1>7. CASE sessionEnds
  BY <1>7 DEF sessionEnds
<1>8. CASE handlerThrows
  BY <1>8 DEF handlerThrows
<1>9. CASE UNCHANGED vars
  BY <1>9 DEF vars
<1> QED
  BY <1>1, <1>2, <1>3, <1>4, <1>5, <1>6, <1>7, <1>8, <1>9 DEF Next, Caller

LEMMA ClientInvariant == Spec => []ClientInv
<1>1. Init => ClientInv
  BY DEF Init, ClientInv, TypeOK, NeverStuck, GoneMeansOver, ThreadLives
<1> QED
  BY <1>1, ClientStep, PTL DEF Spec

(* Whatever order the two threads write isRunning in, a later run() can start *)
(* the io thread again.                                                       *)
THEOREM ClientNeverStuck == Spec => []NeverStuck
  BY ClientInvariant, PTL DEF ClientInv

(* No io thread outlives its client. *)
THEOREM ThreadOverWhenGone == Spec => []GoneMeansOver
  BY ClientInvariant, PTL DEF ClientInv
===============================================================================
