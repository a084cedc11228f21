------------------------- MODULE ClosePositionsProofs -------------------------
(***************************************************************************)
(* For any symbols, positions and default step, and any number of          *)
(* disturbances: closeAllPositions closes no position twice or half, and   *)
(* leaves none of those it was told of open when it returns.               *)
(***************************************************************************)
EXTENDS ClosePositions, TLAPS

(* Where the call is, and what it has in hand. *)
CallInv ==
  /\ pc = "order" <=> order # NoOrder
  /\ pc \in {"idle", "positions"} => todo = {}
  /\ order # NoOrder => order[1] \in category \ todo
  /\ pc # "idle" => outcome = "none"

(* The call is done with the row of s. *)
Over(s) == /\ s \in listed
           /\ \/ outcome = "returned"
              \/ pc \in {"loop", "order"} /\ s \notin todo
           /\ order # NoOrder => order[1] # s

PositionInv ==
  \A s \in Symbols \ touched :
    /\ Settled(s) = snapshot[s] \/ Closed(s, Settled(s))
    /\ s \in todo => Settled(s) = snapshot[s] /\ snapshot[s] # 0
    /\ order # NoOrder /\ order[1] = s
         => Settled(s) = snapshot[s] /\ Closed(s, snapshot[s] + order[2])
    /\ Over(s) => Closed(s, Settled(s))

ClosingInv == TypeOK /\ CallInv /\ PositionInv

-------------------------------------------------------------------------------
(* What Order::toJson makes of a size is within half a step of it, so that    *)
(* the order leaves at most that much; with the own step it leaves nothing.   *)
LEMMA RoundedCloses ==
  ASSUME NEW n \in Int, n # 0, NEW step \in Nat \ {0}, NEW q \in Rounded(Abs(n), step)
  PROVE  /\ Opposite(n, q) \in Int
         /\ 2 * Abs(n + Opposite(n, q)) <= step
         /\ step = 1 => n + Opposite(n, q) = 0
  <1>1. q \in Int /\ 2 * Abs(q - Abs(n)) <= step
    BY DEF Rounded, Abs
  <1>2. CASE n > 0
    BY <1>1, <1>2 DEF Abs, Opposite
  <1>3. CASE n < 0
    BY <1>1, <1>3 DEF Abs, Opposite
  <1> QED BY <1>2, <1>3

(* An order prepared for a position is one that closes it. *)
LEMMA OrderCloses ==
  ASSUME TypeOK, NEW s \in Symbols, prepareOrder(s)
  PROVE  \E q \in Int : /\ order' = <<s, q>>
                        /\ snapshot[s] # 0 => \/ snapshot[s] + q = 0
                                              \/ s \in coarse' /\ 2 * Abs(snapshot[s] + q) <= DefaultStep
  <1> USE ConstantsAssumption
  <1> DEFINE known == Found(cache', s)
             step == IF known THEN 1 ELSE DefaultStep
  <1>1. PICK q \in Rounded(Abs(snapshot[s]), step) : order' = <<s, Opposite(snapshot[s], q)>>
    BY DEF prepareOrder
  <1>2. snapshot[s] \in Int /\ snapshot' = snapshot
    BY DEF TypeOK, prepareOrder
  <1>3. ~known => s \in coarse'
    BY DEF prepareOrder
  <1>4. step \in Nat \ {0}
    OBVIOUS
  <1>5. q \in Int
    BY <1>1, <1>2, <1>4 DEF Rounded, Abs
  <1>6. Opposite(snapshot[s], q) \in Int
    BY <1>2, <1>5 DEF Opposite
  <1>7. ASSUME snapshot[s] # 0
        PROVE  /\ 2 * Abs(snapshot[s] + Opposite(snapshot[s], q)) <= step
               /\ step = 1 => snapshot[s] + Opposite(snapshot[s], q) = 0
    <2> HIDE DEF step, known
    <2> QED BY <1>1, <1>2, <1>4, <1>7, RoundedCloses
  <1>8. known => step = 1
    OBVIOUS
  <1>9. ~known => step = DefaultStep
    OBVIOUS
  <1> HIDE DEF known, step
  <1> QED BY <1>1, <1>3, <1>6, <1>7, <1>8, <1>9

(* A position is its size, or the size negated. *)
LEMMA PositionsAreInts == Positions \subseteq Int
  <1> SUFFICES ASSUME NEW p \in Positions PROVE p \in Int
    OBVIOUS
  <1>1. CASE p \in Sizes
    BY <1>1, ConstantsAssumption
  <1>2. CASE p \in {-n : n \in Sizes}
    <2>1. PICK n \in Sizes : p = -n
      BY <1>2
    <2>2. n \in Nat
      BY ConstantsAssumption
    <2> QED BY <2>1, <2>2
  <1> QED BY <1>1, <1>2 DEF Positions

(* The initial states satisfy the invariant. *)
LEMMA ClosingInit == Init => ClosingInv
  <1> SUFFICES ASSUME Init PROVE ClosingInv
    OBVIOUS
  <1> USE ConstantsAssumption
  <1>1. TypeOK
    <2>1. held \in [Symbols -> Int]
      <3>1. held \in [Symbols -> Positions]
        BY DEF Init
      <3> QED BY <3>1, PositionsAreInts
    <2>2. inFlight \in [Symbols -> Int]
      BY DEF Init
    <2>3. order \in {NoOrder} /\ touched \subseteq Symbols /\ coarse \subseteq Symbols
      BY DEF Init
    <2> QED BY <2>1, <2>2, <2>3 DEF Init, TypeOK
  <1>2. CallInv
    BY DEF Init, CallInv, NoOrder
  <1>3. PositionInv
    BY <1>1 DEF Init, PositionInv, Settled, Over, NoOrder, TypeOK
  <1> QED BY <1>1, <1>2, <1>3 DEF ClosingInv

(* Every step keeps the types. *)
LEMMA TypeStep == TypeOK /\ CallInv /\ [Next]_vars => TypeOK'
  <1> SUFFICES ASSUME TypeOK, CallInv, [Next]_vars PROVE TypeOK'
    OBVIOUS
  <1> USE ConstantsAssumption DEF TypeOK, history, call
  <1>1. ASSUME NEW c \in {Linear, Inverse}, closeAllPositions(c) PROVE TypeOK'
    BY <1>1 DEF closeAllPositions, Disturb, CallInv
  <1>2. ASSUME getPositionInfo PROVE TypeOK'
    <2>1. listed' \subseteq category /\ category \subseteq Symbols
      BY <1>2 DEF getPositionInfo, Pages, Symbols
    <2>2. todo' \subseteq category
      BY <1>2, <2>1 DEF getPositionInfo, OpenRows
    <2> QED BY <1>2, <2>1, <2>2 DEF getPositionInfo
  <1>3. ASSUME getPositionInfoFails \/ instrumentsFail \/ orderFails \/ orderRejected \/ return
        PROVE  TypeOK'
    BY <1>3 DEF getPositionInfoFails, instrumentsFail, orderFails, orderRejected, return,
                Leave, NoOrder
  <1>4. ASSUME NEW s \in Symbols, prepareOrder(s) PROVE TypeOK'
    <2>1. PICK q \in Int : order' = <<s, q>>
      BY <1>4, OrderCloses DEF CallInv
    <2>2. cache' \in {"empty", "linear", "other"} /\ coarse' \subseteq Symbols
      BY <1>4 DEF prepareOrder
    <2>3. pc' = "order" /\ todo' = todo \ {s}
      BY <1>4 DEF prepareOrder, Rest
    <2> QED BY <1>4, <2>1, <2>2, <2>3 DEF prepareOrder
  <1>5. ASSUME orderAccepted \/ answerLost PROVE TypeOK'
    <2>1. order \in Symbols \X Int
      BY <1>5 DEF orderAccepted, answerLost, CallInv
    <2>2. inFlight' \in [Symbols -> Int]
      BY <1>5, <2>1 DEF orderAccepted, answerLost, Accept
    <2> QED BY <1>5, <2>2 DEF orderAccepted, answerLost, Leave, NoOrder
  <1>6. ASSUME NEW s \in Symbols, execute(s) PROVE TypeOK'
    BY <1>6 DEF execute
  <1>7. ASSUME NEW s \in Symbols, trade(s) PROVE TypeOK'
    BY <1>7, PositionsAreInts DEF trade, Disturb
  <1>8. ASSUME reload PROVE TypeOK'
    BY <1>8 DEF reload
  <1>9. ASSUME UNCHANGED vars PROVE TypeOK'
    BY <1>9 DEF vars
  <1> QED BY <1>1, <1>2, <1>3, <1>4, <1>5, <1>6, <1>7, <1>8, <1>9 DEF Next, loop, placeOrder

(* Every step keeps the order of a call's steps. *)
LEMMA CallStep == TypeOK /\ CallInv /\ [Next]_vars => CallInv'
  <1> SUFFICES ASSUME TypeOK, CallInv, [Next]_vars PROVE CallInv'
    OBVIOUS
  <1> USE DEF CallInv, call, history, NoOrder
  <1>1. ASSUME NEW c \in {Linear, Inverse}, closeAllPositions(c) PROVE CallInv'
    BY <1>1 DEF closeAllPositions
  <1>2. ASSUME getPositionInfo PROVE CallInv'
    BY <1>2 DEF getPositionInfo
  <1>3. ASSUME getPositionInfoFails \/ instrumentsFail \/ orderFails \/ orderRejected
                 \/ return \/ answerLost
        PROVE  CallInv'
    BY <1>3 DEF getPositionInfoFails, instrumentsFail, orderFails, orderRejected, return,
                answerLost, Leave
  <1>4. ASSUME NEW s \in Symbols, prepareOrder(s) PROVE CallInv'
    <2>1. PICK q : order' = <<s, q>>
      BY <1>4 DEF prepareOrder
    <2> QED BY <1>4, <2>1 DEF prepareOrder, Rest, TypeOK
  <1>5. ASSUME orderAccepted PROVE CallInv'
    BY <1>5 DEF orderAccepted
  <1>6. ASSUME NEW s \in Symbols, execute(s) \/ trade(s) PROVE CallInv'
    BY <1>6 DEF execute, trade
  <1>7. ASSUME reload \/ UNCHANGED vars PROVE CallInv'
    BY <1>7 DEF reload, vars
  <1> QED BY <1>1, <1>2, <1>3, <1>4, <1>5, <1>6, <1>7 DEF Next, loop, placeOrder

(* A step that leaves the positions, the orders and the call alone.            *)
LEMMA NothingDone ==
  ASSUME PositionInv,
         UNCHANGED <<held, inFlight, pc, category, snapshot, todo, order, outcome,
                     listed, touched, coarse>>
  PROVE  PositionInv'
  BY DEF PositionInv, Settled, Closed, Over, Abs

(* A call that ends as it does without changing the positions.                 *)
LEMMA CallOver ==
  ASSUME TypeOK, CallInv, PositionInv, pc # "idle",
         NEW how, Leave(how), how # "returned" \/ (pc = "loop" /\ todo = {}),
         UNCHANGED <<held, inFlight, listed, touched, coarse>>
  PROVE  PositionInv'
  <1> SUFFICES ASSUME NEW s \in Symbols \ touched
               PROVE  /\ Settled(s) = snapshot[s] \/ Closed(s, Settled(s))
                      /\ Over(s)' => Closed(s, Settled(s))
    BY DEF PositionInv, Settled, Closed, Leave, NoOrder, Abs
  <1>1. Settled(s) = snapshot[s] \/ Closed(s, Settled(s))
    BY DEF PositionInv
  <1>2. ASSUME Over(s)' PROVE Closed(s, Settled(s))
    <2>1. s \in listed /\ how = "returned"
      BY <1>2 DEF Over, Leave
    <2>2. Over(s)
      BY <2>1 DEF Over, CallInv
    <2> QED BY <2>2 DEF PositionInv
  <1> QED BY <1>1, <1>2

(* The snapshot of undisturbed positions is what the exchange has.             *)
LEMMA SnapshotTaken ==
  ASSUME TypeOK, CallInv, PositionInv, getPositionInfo
  PROVE  PositionInv'
  <1> SUFFICES ASSUME NEW s \in Symbols \ touched'
               PROVE  /\ Settled(s)' = snapshot'[s]
                      /\ s \in todo' => snapshot'[s] # 0
                      /\ Over(s)' => Closed(s, Settled(s))'
                      /\ order' = NoOrder
    BY DEF PositionInv
  <1>1. inFlight[s] = 0 /\ held' = held /\ snapshot' = held /\ inFlight' = inFlight
    BY DEF getPositionInfo
  <1>2. Settled(s)' = snapshot'[s]
    BY <1>1 DEF Settled, TypeOK
  <1>3. Over(s)' => snapshot'[s] = 0
    BY <1>1 DEF getPositionInfo, Over, CallInv, OpenRows
  <1> QED BY <1>1, <1>2, <1>3 DEF getPositionInfo, OpenRows, CallInv, Closed

(* Only the position it is for is concerned by an order that is prepared.      *)
LEMMA OrderPrepared ==
  ASSUME TypeOK, CallInv, PositionInv, NEW t \in Symbols, prepareOrder(t)
  PROVE  PositionInv'
  <1>1. PICK q \in Int : /\ order' = <<t, q>>
                         /\ snapshot[t] # 0 => \/ snapshot[t] + q = 0
                                               \/ /\ t \in coarse'
                                                  /\ 2 * Abs(snapshot[t] + q) <= DefaultStep
    BY OrderCloses
  <1>2. /\ pc = "loop" /\ t \in todo /\ todo' = todo \ {t} /\ coarse \subseteq coarse'
        /\ UNCHANGED <<held, inFlight, category, snapshot, outcome, listed, touched>>
    BY DEF prepareOrder, Rest
  <1>3. order = NoOrder /\ outcome = "none"
    BY <1>2 DEF CallInv
  <1> SUFFICES ASSUME NEW s \in Symbols \ touched
               PROVE  /\ Settled(s)' = snapshot[s] \/ Closed(s, Settled(s))'
                      /\ s \in todo' => Settled(s)' = snapshot[s] /\ snapshot[s] # 0
                      /\ s = t => Settled(s)' = snapshot[s] /\ Closed(s, snapshot[s] + q)'
                      /\ Over(s)' => Closed(s, Settled(s))'
    BY <1>1, <1>2 DEF PositionInv, Closed
  <1>4. Settled(s)' = Settled(s)
    BY <1>2 DEF Settled
  <1>5. Closed(s, Settled(s)) => Closed(s, Settled(s))'
    BY <1>2, <1>4 DEF Closed, Abs
  <1>6. Settled(s) = snapshot[s] \/ Closed(s, Settled(s))
    BY DEF PositionInv
  <1>7. s \in todo => Settled(s) = snapshot[s] /\ snapshot[s] # 0
    BY DEF PositionInv
  <1>8. s = t => Closed(s, snapshot[s] + q)'
    BY <1>1, <1>2, <1>7 DEF Closed, Abs
  <1>9. ASSUME Over(s)' PROVE Closed(s, Settled(s))
    <2>1. s # t /\ s \notin todo /\ s \in listed
      BY <1>1, <1>2, <1>3, <1>9 DEF Over, NoOrder
    <2>2. Over(s)
      BY <2>1, <1>2, <1>3 DEF Over
    <2> QED BY <2>2 DEF PositionInv
  <1> QED BY <1>2, <1>4, <1>5, <1>6, <1>7, <1>8, <1>9

(* An accepted order is going to close its position.                           *)
LEMMA OrderTaken ==
  ASSUME TypeOK, CallInv, PositionInv, orderAccepted \/ answerLost
  PROVE  PositionInv'
  <1>1. /\ pc = "order" /\ order # NoOrder /\ Accept /\ order' = NoOrder
        /\ todo' = todo \/ todo' = {}
        /\ UNCHANGED <<held, category, snapshot, listed, touched, coarse>>
        /\ outcome' # "returned"
        /\ pc' \in {"loop", "order"} => todo' = todo
    BY DEF orderAccepted, answerLost, CallInv, Leave, history
  <1>2. order \in Symbols \X Int
    BY <1>1 DEF TypeOK
  <1>3. order[1] \in category \ todo
    BY <1>1 DEF CallInv
  <1> SUFFICES ASSUME NEW s \in Symbols \ touched
               PROVE  /\ Settled(s)' = snapshot[s] \/ Closed(s, Settled(s)')
                      /\ s \in todo' => Settled(s)' = snapshot[s] /\ snapshot[s] # 0
                      /\ Over(s)' => Closed(s, Settled(s)')
    BY <1>1 DEF PositionInv, Closed, Abs
  <1>4. CASE s = order[1]
    <2>1. Settled(s)' = Settled(s) + order[2]
      BY <1>1, <1>2, <1>4 DEF Settled, Accept, TypeOK
    <2>2. Settled(s) = snapshot[s] /\ Closed(s, snapshot[s] + order[2])
      BY <1>1, <1>4 DEF PositionInv
    <2> QED BY <2>1, <2>2, <1>1, <1>3, <1>4
  <1>5. CASE s # order[1]
    <2>1. Settled(s)' = Settled(s)
      BY <1>1, <1>2, <1>5 DEF Settled, Accept, TypeOK
    <2>2. Over(s)' => Over(s)
      BY <1>1, <1>5 DEF Over, CallInv
    <2> QED BY <2>1, <2>2, <1>1 DEF PositionInv
  <1> QED BY <1>4, <1>5

(* Every step keeps the account of the positions. *)
LEMMA PositionStep == TypeOK /\ CallInv /\ PositionInv /\ [Next]_vars => PositionInv'
  <1> SUFFICES ASSUME TypeOK, CallInv, PositionInv, [Next]_vars PROVE PositionInv'
    OBVIOUS
  <1>1. ASSUME NEW c \in {Linear, Inverse}, closeAllPositions(c) PROVE PositionInv'
    BY <1>1 DEF closeAllPositions, PositionInv, Settled, Closed, Abs, Over, CallInv
  <1>2. ASSUME getPositionInfo PROVE PositionInv'
    BY <1>2, SnapshotTaken
  <1>3. ASSUME getPositionInfoFails \/ instrumentsFail \/ orderFails \/ orderRejected
        PROVE  PositionInv'
    <2>1. PICK how \in {"failed", "rejected"} :
            Leave(how) /\ pc # "idle" /\ UNCHANGED <<held, inFlight, listed, touched, coarse>>
      BY <1>3 DEF getPositionInfoFails, instrumentsFail, orderFails, orderRejected, history
    <2> QED BY <2>1, CallOver
  <1>4. ASSUME return PROVE PositionInv'
    BY <1>4, CallOver DEF return, history
  <1>5. ASSUME NEW s \in Symbols, prepareOrder(s) PROVE PositionInv'
    BY <1>5, OrderPrepared
  <1>6. ASSUME orderAccepted \/ answerLost PROVE PositionInv'
    BY <1>6, OrderTaken
  <1>7. ASSUME NEW t \in Symbols, execute(t) PROVE PositionInv'
    <2>1. \A s \in Symbols : Settled(s)' = Settled(s)
      BY <1>7 DEF execute, Settled, TypeOK
    <2>2. UNCHANGED <<pc, category, snapshot, todo, order, outcome, listed, touched, coarse>>
      BY <1>7 DEF execute, call, history
    <2> QED BY <2>1, <2>2 DEF PositionInv, Closed, Over, Abs
  <1>8. ASSUME NEW t \in Symbols, trade(t) PROVE PositionInv'
    <2>1. /\ touched' = touched \union {t}
          /\ UNCHANGED <<inFlight, pc, category, snapshot, todo, order, outcome, listed, coarse>>
      BY <1>8 DEF trade, call
    <2>2. \A s \in Symbols \ touched' : Settled(s)' = Settled(s)
      BY <1>8, <2>1 DEF trade, Settled, TypeOK
    <2> QED BY <2>1, <2>2 DEF PositionInv, Closed, Over, Abs
  <1>9. ASSUME reload \/ UNCHANGED vars PROVE PositionInv'
    BY <1>9, NothingDone DEF reload, vars, call, history
  <1> QED BY <1>1, <1>2, <1>3, <1>4, <1>5, <1>6, <1>7, <1>8, <1>9 DEF Next, loop, placeOrder

-------------------------------------------------------------------------------
(* The invariant holds in every behaviour: the call's steps come in order, and *)
(* each position no one else touched is as it was or going to be closed.       *)
THEOREM ClosingInvariant == Spec => []ClosingInv
  <1>1. ClosingInv /\ [Next]_vars => ClosingInv'
    BY TypeStep, CallStep, PositionStep DEF ClosingInv
  <1> QED BY ClosingInit, <1>1, PTL DEF Spec

(* The variables keep their types, whatever requests fail. *)
THEOREM TypesAlwaysOK == Spec => []TypeOK
  <1>1. ClosingInv => TypeOK
    BY DEF ClosingInv
  <1> QED BY ClosingInvariant, <1>1, PTL

(* No failed request, lost answer or stale step closes a position twice or     *)
(* half: closeAllPositions leaves each as it was or closes it.                 *)
THEOREM AlwaysClosedOrUntouched == Spec => []ClosedOrUntouched
  <1>1. ClosingInv => ClosedOrUntouched
    BY DEF ClosingInv, PositionInv, ClosedOrUntouched
  <1> QED BY ClosingInvariant, <1>1, PTL

(* When closeAllPositions returns, none of the positions it was told of is     *)
(* left open.                                                                  *)
THEOREM ReturnAlwaysMeansClosed == Spec => []ReturnMeansClosed
  <1>1. ClosingInv => ReturnMeansClosed
    <2> SUFFICES ASSUME ClosingInv, outcome = "returned", NEW s \in listed \ touched
                 PROVE  Closed(s, Settled(s))
      BY DEF ReturnMeansClosed
    <2>1. s \in Symbols /\ order = NoOrder
      BY DEF ClosingInv, TypeOK, CallInv, Symbols
    <2> QED BY <2>1 DEF ClosingInv, PositionInv, Over
  <1> QED BY ClosingInvariant, <1>1, PTL

-------------------------------------------------------------------------------
(* Rejected orders. *)

TooSmall(s) == s \in coarse /\ snapshot[s] # 0 /\ 2 * Abs(snapshot[s]) <= DefaultStep

(* Only open positions are to do, and an order for nothing is for one that is  *)
(* too small.                                                                  *)
SmallInv ==
  /\ \A s \in todo : snapshot[s] # 0
  /\ order # NoOrder /\ order[2] = 0 => TooSmall(order[1])
  /\ RejectedOnlyTooSmall

(* Every step keeps what is known of orders of quantity zero. *)
LEMMA SmallStep == ClosingInv /\ SmallInv /\ [Next]_vars => SmallInv'
  <1> SUFFICES ASSUME ClosingInv, SmallInv, [Next]_vars PROVE SmallInv'
    OBVIOUS
  <1> USE DEF ClosingInv, call, history
  <1>0. ASSUME UNCHANGED <<todo, order, outcome, category, snapshot, coarse>> PROVE SmallInv'
    BY <1>0 DEF SmallInv, RejectedOnlyTooSmall, TooSmall, Abs
  <1>1. ASSUME NEW how \in {"returned", "failed"}, Leave(how) PROVE SmallInv'
    BY <1>1 DEF Leave, NoOrder, SmallInv, RejectedOnlyTooSmall
  <1>2. ASSUME NEW c \in {Linear, Inverse}, closeAllPositions(c) PROVE SmallInv'
    BY <1>2 DEF closeAllPositions, CallInv, SmallInv, RejectedOnlyTooSmall
  <1>3. ASSUME getPositionInfo PROVE SmallInv'
    BY <1>3 DEF getPositionInfo, OpenRows, CallInv, SmallInv, RejectedOnlyTooSmall
  <1>4. ASSUME NEW s \in Symbols, prepareOrder(s) PROVE SmallInv'
    <2>1. PICK q \in Int : /\ order' = <<s, q>>
                           /\ snapshot[s] # 0 => \/ snapshot[s] + q = 0
                                                 \/ /\ s \in coarse'
                                                    /\ 2 * Abs(snapshot[s] + q) <= DefaultStep
      BY <1>4, OrderCloses
    <2>2. /\ snapshot[s] # 0 /\ snapshot' = snapshot /\ todo' \subseteq todo
          /\ outcome' = "none" /\ snapshot[s] \in Int
      BY <1>4 DEF prepareOrder, Rest, SmallInv, CallInv, TypeOK
    <2>3. q = 0 => s \in coarse' /\ 2 * Abs(snapshot[s]) <= DefaultStep
      BY <2>1, <2>2
    <2> QED
      BY <2>1, <2>2, <2>3 DEF SmallInv, TooSmall, RejectedOnlyTooSmall, Abs
  <1>5. ASSUME orderAccepted PROVE SmallInv'
    BY <1>5 DEF orderAccepted, CallInv, NoOrder, SmallInv, RejectedOnlyTooSmall
  <1>6. ASSUME orderRejected PROVE SmallInv'
    <2>1. /\ pc = "order" /\ ~Valid(order) /\ order # NoOrder /\ order[1] \in category
          /\ Leave("rejected") /\ coarse' = coarse
      BY <1>6 DEF orderRejected, CallInv
    <2>2. ASSUME category = Linear PROVE TooSmall(order[1])
      BY <2>1, <2>2 DEF Valid, OrderCategory, SmallInv
    <2>3. RejectedOnlyTooSmall'
      BY <2>1, <2>2 DEF Leave, RejectedOnlyTooSmall, TooSmall, Abs
    <2> QED
      BY <2>1, <2>3 DEF Leave, SmallInv
  <1>7. CASE getPositionInfoFails \/ instrumentsFail \/ orderFails \/ answerLost \/ return
    BY <1>1, <1>7 DEF getPositionInfoFails, instrumentsFail, orderFails, answerLost, return
  <1>8. CASE \/ \E s \in Symbols : execute(s) \/ trade(s)
             \/ reload \/ UNCHANGED vars
    BY <1>0, <1>8 DEF execute, trade, reload, vars
  <1> QED
    BY <1>2, <1>3, <1>4, <1>5, <1>6, <1>7, <1>8 DEF Next, loop, placeOrder

(* An order for a linear position is rejected only when the position is too    *)
(* small for the default step, for any sizes and step, whoever trades and      *)
(* whichever list is in the cache.                                             *)
THEOREM AlwaysRejectedOnlyTooSmall == Spec => []RejectedOnlyTooSmall
  <1>1. Init => SmallInv
    BY DEF Init, SmallInv, RejectedOnlyTooSmall
  <1>2. SmallInv => RejectedOnlyTooSmall
    BY DEF SmallInv
  <1> QED
    BY <1>1, <1>2, SmallStep, ClosingInvariant, PTL DEF Spec
===============================================================================
