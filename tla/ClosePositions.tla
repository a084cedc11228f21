---------------------------- MODULE ClosePositions ----------------------------
(***************************************************************************)
(* RESTClient::closeAllPositions (src/src/bybit_rest_client.cpp:496): one  *)
(* request for the positions, which may not bring all of them, then one    *)
(* market order for each of those it brings that is not zero.  Any request *)
(* may fail, an answer may be lost, orders are executed some time after    *)
(* they were accepted (bybit_rest_client.h:128), others trade on the       *)
(* account, and the cache an order's step comes from is shared             *)
(* (Instruments).  The account is in one-way mode: a position is a signed  *)
(* number of the steps its instrument is traded in.                        *)
(***************************************************************************)
EXTENDS Integers

CONSTANTS
  Linear, Inverse,  \* the symbols of the two categories
  Sizes,            \* sizes positions may have
  DefaultStep,      \* 0.01, in steps of the instrument
  MaxDisturbances   \* bound: trades of others, and calls while orders are in flight

ASSUME ConstantsAssumption ==
  /\ Linear \intersect Inverse = {}
  /\ Sizes \subseteq Nat /\ DefaultStep \in Nat \ {0} /\ MaxDisturbances \in Nat

Symbols == Linear \union Inverse

(* Long and short ones. *)
Positions == Sizes \union {-n : n \in Sizes}

VARIABLES
  held,       \* the exchange: the account's positions
  inFlight,   \* the exchange: what accepted orders will still add to them
  cache,      \* the instruments: none, Linear's, or others
  pc,         \* idle, positions (request under way), loop, order (request under way)
  category,   \* argument of the call
  snapshot,   \* the positions as getPositionInfo read them
  todo,       \* symbols of the list not yet looked at
  order,      \* symbol and signed quantity of the order under way
  outcome,    \* of the last call: none, returned, or why it threw
  listed,     \* history: the symbols of that request's answer
  touched,    \* history: positions that others, or earlier orders, changed since the snapshot
  coarse,     \* history: positions ordered with the default step since
  disturbances  \* bound: so far

call    == <<category, snapshot, todo, order>>
history == <<listed, touched, coarse, disturbances>>
vars == <<held, inFlight, cache, pc, call, outcome, history>>

NoOrder == <<>>

(* closeAllPositions leaves the category of its orders, and with it that of    *)
(* the instruments placeOrder looks up, at the default.                        *)
OrderCategory == Linear

Init == /\ held \in [Symbols -> Positions]
        /\ inFlight = [s \in Symbols |-> 0]
        /\ cache = "empty"
        /\ pc = "idle" /\ outcome = "none"
        /\ category = Linear /\ todo = {} /\ order = NoOrder
        /\ snapshot = held
        /\ listed = {} /\ touched = {} /\ coarse = {} /\ disturbances = 0

Abs(n) == IF n < 0 THEN -n ELSE n

(* The call ends, by return or by an exception. *)
Leave(how) == /\ pc' = "idle" /\ outcome' = how
              /\ todo' = {} /\ order' = NoOrder
              /\ UNCHANGED <<category, snapshot>>

Disturb == disturbances < MaxDisturbances /\ disturbances' = disturbances + 1

-------------------------------------------------------------------------------
closeAllPositions(c) ==
  /\ pc = "idle"
  /\ IF \A s \in Symbols : inFlight[s] = 0 THEN UNCHANGED disturbances ELSE Disturb
  /\ pc' = "positions" /\ category' = c /\ outcome' = "none" /\ listed' = {}
  /\ UNCHANGED <<held, inFlight, cache, snapshot, todo, order, touched, coarse>>

(* Mutated: rows of size zero are not skipped. *)
AllRows(rows) == rows

(* The rows closeAllPositions orders for: those that are not zeroSize. *)
OpenRows(rows) == {s \in rows : held[s] # 0}

(* What the exchange may answer: one page, of any length, with at least one of *)
(* the positions that are open (external).                                     *)
Pages == {rows \in SUBSET category : OpenRows(category) = {} \/ OpenRows(rows) # {}}

(* One request, without a cursor: one page is all that is read.                *)
getPositionInfo ==
  /\ pc = "positions"
  /\ pc' = "loop" /\ snapshot' = held
  /\ listed' \in Pages /\ todo' = OpenRows(listed')
  /\ touched' = {s \in Symbols : inFlight[s] # 0} /\ coarse' = {}
  /\ UNCHANGED <<held, inFlight, cache, category, order, outcome, disturbances>>

getPositionInfoFails ==
  /\ pc = "positions"
  /\ Leave("failed")
  /\ UNCHANGED <<held, inFlight, cache, history>>

(* A long position is sold, a short one bought. *)
Opposite(n, q) == IF n > 0 THEN -q ELSE q

(* Order::toJson rounds the size to the decimals of the step.  The own step is *)
(* one of the units used here; the default step may leave two nearest values.  *)
Rounded(size, step) ==
  {q \in 0..size + step : q % step = 0 /\ 2 * Abs(q - size) <= step}

(* Mutated: the row is not done with. *)
KeepRow(s) == todo

Rest(s) == todo \ {s}

(* findPricePrecisionsForInstrument finds the symbol in the list it was given. *)
Found(list, s) == list = "linear" /\ s \in OrderCategory

(* placeOrder up to its request: an empty cache is filled, and the step stays  *)
(* at 0.01 if the symbol is not in it.                                         *)
prepareOrder(s) ==
  /\ pc = "loop" /\ s \in todo
  /\ cache' = IF cache = "empty" THEN "linear" ELSE cache
  /\ \E q \in Rounded(Abs(snapshot[s]), IF Found(cache', s) THEN 1 ELSE DefaultStep) :
       order' = <<s, Opposite(snapshot[s], q)>>
  /\ coarse' = IF Found(cache', s) THEN coarse ELSE coarse \union {s}
  /\ todo' = Rest(s) /\ pc' = "order"
  /\ UNCHANGED <<held, inFlight, category, snapshot, outcome, listed, touched, disturbances>>

instrumentsFail ==
  /\ pc = "loop" /\ todo # {} /\ cache = "empty"
  /\ Leave("failed")
  /\ UNCHANGED <<held, inFlight, cache, history>>

(* What the exchange accepts: some quantity of a symbol of the order's         *)
(* category (external).                                                        *)
Valid(o) == o[1] \in OrderCategory /\ o[2] # 0

Accept == inFlight' = [inFlight EXCEPT ![order[1]] = @ + order[2]]

orderAccepted ==
  /\ pc = "order" /\ Valid(order)
  /\ Accept
  /\ pc' = "loop" /\ order' = NoOrder
  /\ UNCHANGED <<held, cache, category, snapshot, todo, outcome, history>>

(* The order is accepted and the answer lost: the caller sees a failure.       *)
answerLost ==
  /\ pc = "order" /\ Valid(order)
  /\ Accept /\ Leave("failed")
  /\ UNCHANGED <<held, cache, history>>

(* Mutated: an order that fails is skipped. *)
orderSkipped ==
  /\ pc = "order"
  /\ pc' = "loop" /\ order' = NoOrder
  /\ UNCHANGED <<held, inFlight, cache, category, snapshot, todo, outcome, history>>

(* No connection, no margin, a limit of the exchange.                          *)
orderFails ==
  /\ pc = "order"
  /\ Leave("failed")
  /\ UNCHANGED <<held, inFlight, cache, history>>

orderRejected ==
  /\ pc = "order" /\ ~Valid(order)
  /\ Leave("rejected")
  /\ UNCHANGED <<held, inFlight, cache, history>>

return ==
  /\ pc = "loop" /\ todo = {}
  /\ Leave("returned")
  /\ UNCHANGED <<held, inFlight, cache, history>>

-------------------------------------------------------------------------------
(* The exchange executes what it has accepted. *)
execute(s) ==
  /\ inFlight[s] # 0
  /\ held' = [held EXCEPT ![s] = @ + inFlight[s]]
  /\ inFlight' = [inFlight EXCEPT ![s] = 0]
  /\ UNCHANGED <<cache, pc, call, outcome, history>>

(* Somebody else trades on the account, or a stop order is hit.                *)
trade(s) ==
  /\ Disturb
  /\ \E n \in Positions \ {held[s]} : held' = [held EXCEPT ![s] = n]
  /\ touched' = touched \union {s}
  /\ UNCHANGED <<inFlight, cache, pc, call, outcome, listed, coarse>>

(* Another user of the client reloads or replaces the cache: see Instruments.  *)
reload ==
  /\ cache' \in {"empty", "linear", "other"} \ {cache}
  /\ UNCHANGED <<held, inFlight, pc, call, outcome, history>>

-------------------------------------------------------------------------------
loop == return \/ \E s \in Symbols : prepareOrder(s)

placeOrder == orderAccepted \/ answerLost \/ orderFails \/ orderRejected

Next == \/ \E c \in {Linear, Inverse} : closeAllPositions(c)
        \/ getPositionInfo \/ getPositionInfoFails
        \/ loop \/ instrumentsFail \/ placeOrder
        \/ \E s \in Symbols : execute(s) \/ trade(s)
        \/ reload

Spec == Init /\ [][Next]_vars

(* The caller calls again and again, a call goes on, the exchange executes     *)
(* what it accepts, and neither the list of positions nor the order for a      *)
(* symbol fails for ever.                                                      *)
Fairness ==
  /\ SF_vars(closeAllPositions(Linear))
  /\ WF_vars(getPositionInfo) /\ SF_vars(category = Linear /\ getPositionInfo)
  /\ WF_vars(loop) /\ WF_vars(placeOrder)
  /\ \A s \in Linear : /\ SF_vars(order # NoOrder /\ order[1] = s /\ orderAccepted)
                       /\ WF_vars(execute(s))

LiveSpec == Spec /\ Fairness

-------------------------------------------------------------------------------
(* Properties. *)

TypeOK ==
  /\ held \in [Symbols -> Int] /\ inFlight \in [Symbols -> Int]
  /\ cache \in {"empty", "linear", "other"}
  /\ pc \in {"idle", "positions", "loop", "order"}
  /\ category \in {Linear, Inverse}
  /\ snapshot \in [Symbols -> Int]
  /\ todo \subseteq category
  /\ order \in {NoOrder} \union (Symbols \X Int)
  /\ outcome \in {"none", "returned", "failed", "rejected"}
  /\ listed \subseteq Symbols /\ touched \subseteq Symbols /\ coarse \subseteq Symbols
  /\ disturbances \in Nat

(* Closed, up to what rounding with the default step leaves.                   *)
Closed(s, n) == n = 0 \/ (s \in coarse /\ 2 * Abs(n) <= DefaultStep)

(* Where a position will be once the exchange has executed everything.         *)
Settled(s) == held[s] + inFlight[s]

(* Whichever request fails and whoever lost an answer, no position is closed   *)
(* twice or half: each is left as it was or is going to be closed.             *)
ClosedOrUntouched ==
  \A s \in Symbols \ touched : Settled(s) = snapshot[s] \/ Closed(s, Settled(s))

(* A call that returns has left none of the positions it was told of open,     *)
(* unless somebody else opened it meanwhile.                                   *)
ReturnMeansClosed ==
  outcome = "returned" => \A s \in listed \ touched : Closed(s, Settled(s))

(* The exchange rejects an order for a linear position only if it is no bigger *)
(* than half the default step and its instrument was not in the cache: neither *)
(* a position that is closed nor one of a whole step ends a call.              *)
RejectedOnlyTooSmall ==
  outcome = "rejected" /\ category = Linear
    => \E s \in coarse : snapshot[s] # 0 /\ 2 * Abs(snapshot[s]) <= DefaultStep

(* A caller that goes on calling, but not before its orders are executed,      *)
(* closes every position once nobody else trades, page after page, as long as  *)
(* the cache is that of the linear category.                                   *)
EventuallyClosed ==
  (<>[](touched = {}) /\ <>[](cache = "linear"))
    => <>[](\A s \in Linear : held[s] = 0)

(* Positions of any category can be closed: if no request fails, a call does   *)
(* not throw (bybit_rest_client.h:171).                                        *)
ClosesAnyCategory == outcome # "rejected"
===============================================================================
