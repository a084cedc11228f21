----------------------------- MODULE StreamLedger -----------------------------
(***************************************************************************)
(* What one WebSocket session promises its caller about streams, without   *)
(* queues, frames or handlers.  A stream is asked for, then claimed        *)
(* (isSubscribed answers true, which may be before the exchange agrees),   *)
(* then either streaming or refused.  Only what was asked for is claimed,  *)
(* only what is claimed streams, and a claim is given up only for a stream *)
(* that is not streaming.                                                  *)
(***************************************************************************)
CONSTANT Filters          \* subscription filters, "tickers.BTCUSDT" and so on

VARIABLES asked,          \* filters some caller has subscribed to
          claimed,        \* filters isSubscribed answers true for
          streaming       \* filters the exchange is publishing to this session

vars == <<asked, claimed, streaming>>

Init == asked = {} /\ claimed = {} /\ streaming = {}

Ask(f) == asked' = asked \union {f} /\ UNCHANGED <<claimed, streaming>>

Claim(f) == /\ f \in asked
            /\ claimed' = claimed \union {f}
            /\ UNCHANGED <<asked, streaming>>

Accept(f) == /\ f \in claimed
             /\ streaming' = streaming \union {f}
             /\ UNCHANGED <<asked, claimed>>

GiveUp(f) == /\ f \in claimed \ streaming
             /\ claimed' = claimed \ {f}
             /\ UNCHANGED <<asked, streaming>>

Disconnect == streaming' = {} /\ UNCHANGED <<asked, claimed>>

Next == \/ \E f \in Filters : Ask(f) \/ Claim(f) \/ Accept(f) \/ GiveUp(f)
        \/ Disconnect

Spec == Init /\ [][Next]_vars
===============================================================================
