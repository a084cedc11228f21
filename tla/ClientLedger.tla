----------------------------- MODULE ClientLedger -----------------------------
(***************************************************************************)
(* What a WebSocketClient promises who subscribes through it: the caller   *)
(* and the io thread as in WebSocketClient, and of each session what       *)
(* StreamLedger says.  A session starts with the one stream it was made    *)
(* for, streams are claimed and given up by the io thread only, and all of *)
(* them are forgotten when the session ends: no claim outlives it.         *)
(***************************************************************************)
CONSTANTS Filters, HandlersThrow

VARIABLES caller, ioThread, isRunning, stopped, session, started,
          asked, claimed, streaming

Client == INSTANCE WebSocketClient
Ledger == INSTANCE StreamLedger

vars == <<caller, ioThread, isRunning, stopped, session, started, asked, claimed, streaming>>

Init == Client!Init /\ Ledger!Init

Forget == asked' = {} /\ claimed' = {} /\ streaming' = {}

subscribeAnew(f) == /\ Client!subscribeAnew
                    /\ asked' = {f} /\ claimed' = {} /\ streaming' = {}

(* A request that is queued on a session without handlers goes with it. *)
subscribeQueue(f) == /\ Client!subscribeQueue
                     /\ IF session THEN Ledger!Ask(f) ELSE UNCHANGED Ledger!vars

(* Neither the rest of the client's calls nor the thread touch the streams. *)
clientStep == /\ \/ Client!subscribeLock \/ Client!runCheck \/ Client!InRun
                 \/ Client!destroy \/ Client!destroyJoin \/ Client!IoThread
              /\ UNCHANGED Ledger!vars

sessionEnds == Client!sessionEnds /\ Forget

handlerThrows == /\ Client!handlerThrows
                 /\ IF session' THEN Ledger!Disconnect ELSE Forget

(* The session's handlers, the exchange and the network. *)
sessionStep == /\ session
               /\ \/ \E f \in Filters : \/ ioThread = "run" /\ Ledger!Claim(f)
                                        \/ ioThread = "run" /\ Ledger!GiveUp(f)
                                        \/ Ledger!Accept(f)
                  \/ Ledger!Disconnect
               /\ UNCHANGED Client!vars

Next == \/ \E f \in Filters : subscribeAnew(f) \/ subscribeQueue(f)
        \/ clientStep \/ sessionEnds \/ handlerThrows \/ sessionStep

Spec == Init /\ [][Next]_vars
===============================================================================
