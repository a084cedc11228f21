---------------------------- MODULE WebSocketClient ----------------------------
(***************************************************************************)
(* WebSocketClient (src/src/bybit_ws_client.cpp): one caller thread that   *)
(* subscribes, calls run() and finally destroys the client, and the io     *)
(* thread run() starts.  They share the atomic isRunning, the io_context's *)
(* stopped flag and the weak pointer to the session; each access of one of *)
(* them is a step.  The session itself is module WebSocketSession: here it *)
(* is there or not, and while it is there the io_context has work.         *)
(***************************************************************************)
EXTENDS Naturals

CONSTANT HandlersThrow   \* can a handler throw (no logger, a throwing callback)?

VARIABLES
  caller,      \* where the caller is: idle, or inside run(), or the destructor
  ioThread,    \* where the io thread is: none (never started or joined), the
               \* lines of its loop, or over (finished, still joinable)
  isRunning,   \* the atomic flag
  stopped,     \* ioContext.stopped()
  session,     \* has the session outstanding handlers, so that the weak
               \* pointer can be locked and the io_context has work?
  started      \* history: was run() called since that session was made?

vars == <<caller, ioThread, isRunning, stopped, session, started>>

Init == /\ caller = "idle" /\ ioThread = "none"
        /\ isRunning = FALSE /\ stopped = FALSE
        /\ session = FALSE /\ started = FALSE

-------------------------------------------------------------------------------
(* The caller. *)

(* No session can be locked: a new one starts by giving the io_context its    *)
(* resolve to do.                                                             *)
subscribeAnew ==
  /\ caller = "idle" /\ ~session
  /\ session' = TRUE /\ started' = FALSE
  /\ UNCHANGED <<caller, ioThread, isRunning, stopped>>

(* The caller has locked the session and is about to queue its request there; *)
(* the session's last handler may return before it does.                      *)
subscribeLock ==
  /\ caller = "idle" /\ session
  /\ caller' = "locked"
  /\ UNCHANGED <<ioThread, isRunning, stopped, session, started>>

subscribeQueue ==
  /\ caller = "locked"
  /\ caller' = "idle"
  /\ UNCHANGED <<ioThread, isRunning, stopped, session, started>>

runCheck ==
  /\ caller = "idle"
  /\ caller' = IF isRunning THEN "idle" ELSE "set"
  /\ started' = session
  /\ UNCHANGED <<ioThread, isRunning, stopped, session>>

runSet ==
  /\ caller = "set"
  /\ caller' = "join" /\ isRunning' = TRUE
  /\ UNCHANGED <<ioThread, stopped, session, started>>

(* Joins the previous thread, if there is one, which may have long to go. *)
runJoin ==
  /\ caller = "join" /\ ioThread \in {"none", "over"}
  /\ caller' = "spawn" /\ ioThread' = "none"
  /\ UNCHANGED <<isRunning, stopped, session, started>>

runSpawn ==
  /\ caller = "spawn"
  /\ caller' = "idle" /\ ioThread' = "begin"
  /\ UNCHANGED <<isRunning, stopped, session, started>>

destroy ==
  /\ caller = "idle"
  /\ caller' = "destroy" /\ stopped' = TRUE
  /\ UNCHANGED <<ioThread, isRunning, session, started>>

(* Mutated: the thread is detached instead of joined. *)
destroyDetach ==
  /\ caller = "destroy" /\ caller' = "gone"
  /\ UNCHANGED <<ioThread, isRunning, stopped, session, started>>

destroyJoin ==
  /\ caller = "destroy" /\ ioThread \in {"none", "over"}
  /\ caller' = "gone" /\ ioThread' = "none"
  /\ UNCHANGED <<isRunning, stopped, session, started>>

-------------------------------------------------------------------------------
(* The io thread. *)

ioBegin ==
  /\ ioThread = "begin"
  /\ ioThread' = "restart" /\ isRunning' = TRUE
  /\ UNCHANGED <<caller, stopped, session, started>>

(* Mutated: runs without restart(). *)
ioNoRestart ==
  /\ ioThread = "restart" /\ ioThread' = "run"
  /\ UNCHANGED <<caller, isRunning, stopped, session, started>>

(* restart() clears the flag whoever set it, the destructor's stop() included. *)
ioRestart ==
  /\ ioThread = "restart"
  /\ ioThread' = "run" /\ stopped' = FALSE
  /\ UNCHANGED <<caller, isRunning, session, started>>

(* The session's last handler returns. *)
sessionEnds ==
  /\ ioThread = "run" /\ session
  /\ session' = FALSE
  /\ UNCHANGED <<caller, ioThread, isRunning, stopped, started>>

(* An exception leaves run(); the handler's session may have gone with it. *)
handlerThrows ==
  /\ HandlersThrow
  /\ ioThread = "run" /\ session
  /\ ioThread' = "begin"
  /\ session' \in BOOLEAN
  /\ UNCHANGED <<caller, isRunning, stopped, started>>

(* Mutated: the thread returns from inside its loop. *)
runLeavesThread ==
  /\ ioThread = "run" /\ (stopped \/ ~session)
  /\ ioThread' = "over" /\ stopped' = TRUE
  /\ UNCHANGED <<caller, isRunning, session, started>>

(* Mutated: a stop does not reach a run() that has work. *)
runOutOfWork ==
  /\ ioThread = "run" /\ ~session
  /\ ioThread' = "clear" /\ stopped' = TRUE
  /\ UNCHANGED <<caller, isRunning, session, started>>

(* io_context::run returns when it is stopped, and stops when out of work. *)
runReturns ==
  /\ ioThread = "run" /\ (stopped \/ ~session)
  /\ ioThread' = "clear" /\ stopped' = TRUE
  /\ UNCHANGED <<caller, isRunning, session, started>>

ioClear ==
  /\ ioThread = "clear"
  /\ ioThread' = "clearAgain" /\ isRunning' = FALSE
  /\ UNCHANGED <<caller, stopped, session, started>>

ioClearAgain ==
  /\ ioThread = "clearAgain"
  /\ ioThread' = "over" /\ isRunning' = FALSE
  /\ UNCHANGED <<caller, stopped, session, started>>

-------------------------------------------------------------------------------
InSubscribe == subscribeAnew \/ subscribeLock \/ subscribeQueue

InRun == runSet \/ runJoin \/ runSpawn

Caller == InSubscribe \/ runCheck \/ InRun \/ destroy \/ destroyJoin

IoThread == ioBegin \/ ioRestart \/ runReturns \/ ioClear \/ ioClearAgain

Next == Caller \/ IoThread \/ sessionEnds \/ handlerThrows

Spec == Init /\ [][Next]_vars

(* Both threads are scheduled; a session need not end, a handler need not     *)
(* throw, and the caller need not subscribe, run or destroy.                  *)
Fairness == /\ WF_vars(InRun) /\ WF_vars(destroyJoin) /\ WF_vars(subscribeQueue)
            /\ WF_vars(IoThread)

LiveSpec == Spec /\ Fairness

-------------------------------------------------------------------------------
(* Properties. *)

TypeOK ==
  /\ caller \in {"idle", "locked", "set", "join", "spawn", "destroy", "gone"}
  /\ ioThread \in {"none", "begin", "restart", "run", "clear", "clearAgain", "over"}
  /\ isRunning \in BOOLEAN /\ stopped \in BOOLEAN
  /\ session \in BOOLEAN /\ started \in BOOLEAN

ThreadLives == ioThread \notin {"none", "over"}

(* isRunning is written by both threads, in any order, yet it is never left   *)
(* set without a thread once run() has returned: the next run() would return  *)
(* at its check for ever after.                                               *)
NeverStuck == caller \in {"idle", "locked"} /\ isRunning => ThreadLives

(* The io thread's lambda refers to the client; it is over before the client  *)
(* is gone.                                                                   *)
GoneMeansOver == caller = "gone" => ~ThreadLives

Serving == ioThread = "run" /\ ~stopped

(* run() is to "Run the client IO Context asynchronously": after it, the       *)
(* session there is gets served, unless it ends first or the client is being  *)
(* destroyed.                                                                 *)
SessionReached ==
  (session /\ started) ~> (Serving \/ ~session \/ caller \in {"destroy", "gone"})

(* A stop() that finds the io thread serving ends it, and the destructor      *)
(* returns, unless a handler throws first and the thread goes round its loop. *)
StopEndsServing ==
  (caller = "destroy" /\ stopped /\ ioThread = "run")
    ~> (caller = "gone" \/ ioThread = "begin")
===============================================================================
