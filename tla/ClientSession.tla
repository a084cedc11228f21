----------------------------- MODULE ClientSession -----------------------------
(***************************************************************************)
(* WebSocketClient and the sessions it makes, one after the other: the     *)
(* caller and the io thread of module WebSocketClient, whose session is    *)
(* now module WebSocketSession.  A session's handlers run on the io        *)
(* thread, so only while it is in io_context::run and not stopped; what    *)
(* the exchange, the network and the timer do happens without it.          *)
(*                                                                         *)
(* With a logger (HasLogger): without one a handler may throw out of       *)
(* io_context::run, which WSStreamManager has.                             *)
(***************************************************************************)
EXTENDS WebSocketSession

VARIABLES caller, ioThread, isRunning, stopped, started   \* WebSocketClient

clientVars == <<caller, ioThread, isRunning, stopped, started>>
systemVars == <<vars, clientVars>>

Client == INSTANCE WebSocketClient WITH session <- Alive, HandlersThrow <- ~HasLogger

(* No session yet. *)
SystemInit == Blank /\ pending = {} /\ Client!Init

-------------------------------------------------------------------------------
(* The caller. *)

(* Mutated: what is asked for before the stream is open is not queued. *)
NoQueue(f) == <<>>

(* The queue of a session that run() has given its first request. *)
FirstQueue(f) == <<f>>

(* Mutated: the session is started anew, its list is not. *)
NewConnection(f) ==
  /\ subscriptionRequests' = <<f>> /\ asked' = {f}
  /\ pending' = {"resolve"} /\ status' = "init" /\ calls' = 0
  /\ connected' = FALSE /\ streams' = {}
  /\ requested' = Empty /\ refusals' = Empty /\ notices' = 0
  /\ UNCHANGED <<subscriptions, pingTimer, ioStep, refused>>

(* A session of its own, with its first request and its first operation.      *)
NewSession(f) ==
  /\ subscriptions' = Empty /\ subscriptionRequests' = FirstQueue(f)
  /\ pending' = {"resolve"} /\ pingTimer' = "idle" /\ status' = "init" /\ ioStep' = "idle"
  /\ connected' = FALSE /\ streams' = {}
  /\ requested' = Empty /\ refusals' = Empty /\ notices' = 0
  /\ asked' = {f} /\ refused' = {} /\ calls' = 0

subscribeAnew(f) == ~Alive /\ NewSession(f) /\ Client!subscribeAnew

subscribeLock == calls < MaxCalls /\ UNCHANGED vars /\ Client!subscribeLock

(* A session whose last handler has run since it was locked goes when the     *)
(* caller lets go of it, and the request with it.                             *)
subscribeQueue(f) ==
  /\ IF Alive THEN subscribe(f) ELSE UNCHANGED vars
  /\ Client!subscribeQueue

callerStep == /\ UNCHANGED vars
              /\ Client!runCheck \/ Client!InRun \/ Client!destroy \/ Client!destroyJoin

-------------------------------------------------------------------------------
(* The io thread. *)

(* io_context::run returns between handlers, not inside one. *)
threadStep == ioStep = "idle" /\ UNCHANGED vars /\ Client!IoThread

(* The handlers of the connection's single chain, and the others. *)
Chain == \/ onResolve \/ onConnect \/ onSSLHandshake \/ onHandshake
         \/ onWrite \/ onRead
Handler == Chain \/ onClose \/ onPingTimer \/ onPing

Serving == Client!Serving /\ Alive /\ UNCHANGED clientVars

handle == Serving /\ Handler

(* The rest of onRead, whether or not stop() has been called meanwhile. *)
handleOn == ioThread = "run" /\ InRead /\ UNCHANGED clientVars

-------------------------------------------------------------------------------
(* The exchange, the network and the timer (external); they go with the       *)
(* session's socket and its timer.                                            *)
Unserved == Alive /\ UNCHANGED clientVars

outside == Unserved /\ (timerExpires \/ connectionLost \/ Answer \/ serverPublish)

-------------------------------------------------------------------------------
SystemNext == \/ \E f \in Filters : subscribeAnew(f) \/ subscribeQueue(f)
              \/ subscribeLock \/ callerStep
              \/ threadStep \/ handle \/ handleOn \/ outside

System == SystemInit /\ [][SystemNext]_systemVars

(* Both threads are scheduled; the io thread gets to a chain's ready handler,  *)
(* whatever the ping timer does, and an exchange that is reached answers and   *)
(* keeps publishing.  The caller need not subscribe, run or destroy.           *)
LiveSystem ==
  /\ System
  /\ WF_systemVars(callerStep /\ (Client!InRun \/ Client!destroyJoin))
  /\ WF_systemVars(\E f \in Filters : subscribeQueue(f))
  /\ WF_systemVars(threadStep) /\ WF_systemVars(Serving /\ Chain)
  /\ WF_systemVars(handleOn)
  /\ WF_systemVars(Unserved /\ Answer) /\ WF_systemVars(Unserved /\ serverPublish)

-------------------------------------------------------------------------------
(* Properties. *)

(* Client and session are together what ClientLedger says, which is all that  *)
(* WSStreamManager relies on: claims are those of the session that is alive,  *)
(* none survives it, and the list is touched by the io thread only.           *)
Known(S) == IF Alive THEN S ELSE {}
Contract == INSTANCE ClientLedger
              WITH session <- Alive, HandlersThrow <- ~HasLogger, asked <- Known(asked),
                   claimed <- Known({f \in Filters : isSubscribed(f)}),
                   streaming <- Known(streams)
ImplementsContract == Contract!Spec

(* The destructor frees the client when no handler is on its way: not even    *)
(* one that stop() found between two critical sections of onRead.             *)
HandlerOverWhenGone == caller = "gone" => ~Client!ThreadLives /\ ioStep = "idle"

(* A run() that found isRunning clear gets the first request of the session   *)
(* sent, though it still has to join a thread that may be anywhere in its last *)
(* lines, and that thread may clear isRunning after it; unless connecting     *)
(* fails or the client is being destroyed.                                    *)
Leaving == caller \in {"destroy", "gone"}
Starting == caller \in {"set", "join", "spawn"}
FirstRequestSent ==
  (Alive /\ Starting /\ status = "init") ~> (status # "init" \/ ~Alive \/ Leaving)

(* While some stream flows, every queued request is sent sooner or later,     *)
(* unless the connection ends first or the client is being destroyed.         *)
Flowing == status = "open" /\ streams # {}
RequestsSent ==
  \A f \in Filters : (Queued(f) /\ Flowing) ~> (~Queued(f) \/ ~Flowing \/ Leaving)
===============================================================================
