------------------------------ MODULE RateLimiter ------------------------------
(***************************************************************************)
(* RateLimiter (src/src/bybit_rest_client.cpp:31) and the requests of the  *)
(* threads that share one RESTClient: each request calls wait(), sends,    *)
(* and passes the response's headers to update().  Both lock the mutex,    *)
(* and wait() sleeps with it locked.  Time is in ticks; the system clock   *)
(* is taken not to jump back.                                              *)
(***************************************************************************)
EXTENDS Integers, Sequences, FiniteSets

CONSTANTS
  Threads,       \* the caller's threads
  localLimit,    \* requests per window in local mode (10)
  windowSizeMs,  \* length of the window (1000 ms)
  Buffer,        \* added to every sleep (10 ms local, 50 ms server)
  PrivateCalls,  \* does the caller use endpoints that answer with headers?
  ResetDelays,   \* how far ahead the exchange's reset times lie
  MaxRequests,   \* bound: requests made
  MaxClock       \* bound: where the clock stops when nobody sleeps

ASSUME ConstantsAssumption ==
  /\ Threads # {}
  /\ localLimit \in Nat \ {0} /\ windowSizeMs \in Nat \ {0} /\ Buffer \in Nat \ {0}
  /\ PrivateCalls \in BOOLEAN
  /\ ResetDelays \subseteq Nat
  /\ MaxRequests \in Nat /\ MaxClock \in Nat

VARIABLES
  pc,                  \* per thread: idle, wait, sleep, send
  kind,                \* per thread: is its request to a public endpoint?
  now,                 \* per thread: the clock as wait() read it before it sleeps
  wakeAt,              \* per thread: when its sleep ends
  clock,
  requestTimes,        \* deque of the times of the last local requests
  serverHeadersFound,
  remaining,           \* 2 stands for every value the code takes as used up
  resetTime,
  released,            \* history: when wait() let each public request go
  requests             \* requests made so far (bound)

threadVars  == <<pc, kind, now, wakeAt>>
serverVars  == <<serverHeadersFound, remaining, resetTime>>
vars == <<threadVars, clock, requestTimes, serverVars, released, requests>>

Init == /\ pc = [t \in Threads |-> "idle"]
        /\ kind = [t \in Threads |-> "public"]
        /\ now = [t \in Threads |-> 0]
        /\ wakeAt = [t \in Threads |-> 0]
        /\ clock = 0
        /\ requestTimes = <<>>
        /\ serverHeadersFound = FALSE
        /\ remaining = 50 /\ resetTime = 0
        /\ released = <<>> /\ requests = 0

(* Mutated: wait() unlocks while it sleeps. *)
NeverLocked == FALSE

(* Mutated: the lock is kept until the request has been sent. *)
LockedWhileSending == \E t \in Threads : pc[t] \in {"sleep", "send"}

(* The mutex is free between two steps unless its owner sleeps. *)
Locked == \E t \in Threads : pc[t] = "sleep"

(* Mutated: an entry goes a tick early. *)
ExpiredEarly(q, at, i) == at - q[i] >= windowSizeMs

Expired(q, at, i) == at - q[i] > windowSizeMs

(* The loop of pop_front: the longest prefix of expired times goes. *)
PopExpired(q, at) ==
  LET gone == {i \in 1..Len(q) : \A j \in 1..i : Expired(q, at, j)}
  IN  SubSeq(q, Cardinality(gone) + 1, Len(q))

(* wait() returns, and its local variables are gone. *)
Release(t) == /\ pc' = [pc EXCEPT ![t] = "send"]
              /\ now' = [now EXCEPT ![t] = 0] /\ wakeAt' = [wakeAt EXCEPT ![t] = 0]
              /\ released' = IF kind[t] = "public" THEN Append(released, clock)
                             ELSE released

(* Mutated: sleeps for the time it should sleep until. *)
SleepFor(t, until) == /\ pc' = [pc EXCEPT ![t] = "sleep"]
                      /\ now' = [now EXCEPT ![t] = clock]
                      /\ wakeAt' = [wakeAt EXCEPT ![t] = clock + until]
                      /\ UNCHANGED released

Sleep(t, until) == /\ pc' = [pc EXCEPT ![t] = "sleep"]
                   /\ now' = [now EXCEPT ![t] = clock] /\ wakeAt' = [wakeAt EXCEPT ![t] = until]
                   /\ UNCHANGED released

-------------------------------------------------------------------------------
(* A call of RESTClient that makes a request, and starts with wait(). *)
Call(t, k) ==
  /\ pc[t] = "idle" /\ requests < MaxRequests
  /\ pc' = [pc EXCEPT ![t] = "wait"]
  /\ kind' = [kind EXCEPT ![t] = k]
  /\ requests' = requests + 1
  /\ UNCHANGED <<now, wakeAt, clock, requestTimes, serverVars, released>>

(* Candles, funding rates, instruments: the exchange sends no headers. *)
publicRequest(t) == Call(t, "public")

(* Orders, positions and the wallet: it does. *)
privateRequest(t) == PrivateCalls /\ Call(t, "private")

request(t) == publicRequest(t) \/ privateRequest(t)

waitLocal(t) ==
  /\ pc[t] = "wait" /\ ~Locked /\ ~serverHeadersFound
  /\ LET left == PopExpired(requestTimes, clock) IN
       IF Len(left) >= localLimit
         THEN /\ Sleep(t, left[1] + windowSizeMs + Buffer)
              /\ requestTimes' = left
         ELSE /\ Release(t)
              /\ requestTimes' = Append(left, clock)
  /\ UNCHANGED <<kind, clock, serverVars, requests>>

(* The time recorded is the one read before the sleep. *)
wakeLocal(t) ==
  /\ pc[t] = "sleep" /\ clock >= wakeAt[t] /\ ~serverHeadersFound
  /\ requestTimes' = Append(PopExpired(requestTimes, clock), now[t])
  /\ Release(t)
  /\ UNCHANGED <<kind, clock, serverVars, requests>>

waitServer(t) ==
  /\ pc[t] = "wait" /\ ~Locked /\ serverHeadersFound
  /\ IF remaining <= 2 /\ resetTime > clock
       THEN Sleep(t, resetTime + Buffer)
       ELSE Release(t)
  /\ UNCHANGED <<kind, clock, requestTimes, serverVars, requests>>

wakeServer(t) ==
  /\ pc[t] = "sleep" /\ clock >= wakeAt[t] /\ serverHeadersFound
  /\ Release(t)
  /\ UNCHANGED <<kind, clock, requestTimes, serverVars, requests>>

Done(t) == /\ pc[t] = "send"
           /\ pc' = [pc EXCEPT ![t] = "idle"]
           /\ UNCHANGED <<kind, now, wakeAt, clock, requestTimes, released, requests>>

(* No response: the request throws before update(). *)
requestThrows(t) == Done(t) /\ UNCHANGED serverVars

(* A response without the headers: update() locks the mutex and finds nothing. *)
respondBare(t) == Done(t) /\ ~Locked /\ UNCHANGED serverVars

(* update() of a response with headers.  A reset time that does not parse     *)
(* leaves the new remaining beside the old reset time.                        *)
update(t) ==
  /\ Done(t) /\ kind[t] = "private" /\ ~Locked
  /\ remaining' \in {2, 50}
  /\ \/ /\ resetTime' \in {clock + d : d \in ResetDelays}
        /\ serverHeadersFound' = TRUE
     \/ UNCHANGED <<resetTime, serverHeadersFound>>

Sleeping(t) == pc[t] = "sleep" /\ clock < wakeAt[t]

tick == /\ clock < MaxClock \/ \E t \in Threads : Sleeping(t)
        /\ clock' = clock + 1
        /\ UNCHANGED <<threadVars, requestTimes, serverVars, released, requests>>

-------------------------------------------------------------------------------
wait(t) == waitLocal(t) \/ waitServer(t)

wake(t) == wakeLocal(t) \/ wakeServer(t)

Next == \/ \E t \in Threads : \/ request(t) \/ wait(t) \/ wake(t)
                              \/ requestThrows(t) \/ respondBare(t) \/ update(t)
        \/ tick

Spec == Init /\ [][Next]_vars

(* Time passes, sleepers wake, the exchange responds, and a thread that keeps *)
(* finding the mutex free gets it.                                            *)
Fairness ==
  /\ WF_vars(tick)
  /\ \A t \in Threads : /\ SF_vars(wait(t)) /\ WF_vars(wake(t))
                        /\ SF_vars(respondBare(t) \/ update(t))

LiveSpec == Spec /\ Fairness

-------------------------------------------------------------------------------
(* Properties. *)

TypeOK ==
  /\ pc \in [Threads -> {"idle", "wait", "sleep", "send"}]
  /\ kind \in [Threads -> {"public", "private"}]
  /\ now \in [Threads -> Nat] /\ wakeAt \in [Threads -> Nat]
  /\ clock \in Nat
  /\ requestTimes \in Seq(Nat)
  /\ serverHeadersFound \in BOOLEAN
  /\ remaining \in Nat /\ resetTime \in Nat
  /\ released \in Seq(Nat) /\ requests \in Nat

(* The deque never outgrows the limit: whoever finds it full sleeps until its *)
(* own pop makes room, and nobody else can add to it meanwhile.               *)
DequeBounded == Len(requestTimes) <= localLimit

(* Of localLimit + 2 public requests in a row the last comes more than a      *)
(* window after the first.                                                    *)
Spaced ==
  \A i \in 1..Len(released) - localLimit - 1 :
    released[i + localLimit + 1] - released[i] > windowSizeMs

(* Without server headers, whatever the threads do, a window sees at most one *)
(* public request more than the limit.                                        *)
AtMostOneTooMany == ~serverHeadersFound => Spaced

(* A request is let go under the newest rate limit any response has brought:  *)
(* with the quota used up, not before the reset time.                         *)
NewestResetRespected ==
  [][\A t \in Threads :
       ((wait(t) /\ pc'[t] = "send") \/ wake(t))
         => ~(serverHeadersFound /\ remaining <= 2 /\ clock < resetTime)]_vars

(* A sleeper, for whom everybody waits, sleeps no longer than a window, or     *)
(* than the reset lay ahead when the exchange sent it, and the buffer: no      *)
(* recorded time and no reset time asks for more, whoever recorded it when.    *)
SleepBounded ==
  \A t \in Threads : pc[t] = "sleep" =>
    IF serverHeadersFound THEN \E d \in ResetDelays : wakeAt[t] <= now[t] + d + Buffer
                          ELSE wakeAt[t] <= now[t] + windowSizeMs + Buffer

(* Every request is let go and answered, though sleepers hold the mutex. *)
EveryRequestEnds == \A t \in Threads : (pc[t] # "idle") ~> (pc[t] = "idle")
===============================================================================
