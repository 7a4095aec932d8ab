-------------------------- MODULE RiskEngineProofs --------------------------
(* The exchange with its risk checks: the checks take nothing away from    *)
(* what the matching engine guarantees, the band follows the last trade,   *)
(* and what rests has passed the checks; for every limit, tick and band.   *)
EXTENDS RiskEngine, LifecycleProofs

-----------------------------------------------------------------------------
(* The engine behind the risk checks.                                      *)

(* A step of the exchange is a step of the engine, or a rejection by the   *)
(* risk checks, which leaves the engine alone.                             *)
LEMMA RiskStepIsEngineStep ==
    ASSUME [RiskNext]_<<vars, riskVars>>
    PROVE  [Next]_vars \/ UNCHANGED <<bookVars, lastAcceptedId, callVars, stpPolicy>>
<1>1. ASSUME NEW o \in Submits, RiskReject(o)
      PROVE  UNCHANGED <<bookVars, lastAcceptedId, callVars, stpPolicy>>
  BY ZenonT(60), <1>1 DEF RiskReject
<1>2. ASSUME NEW o \in Submits, Forward(o) PROVE Next
  BY ZenonT(60), <1>2 DEF Forward, Next
<1>3. CASE MatchUnderRisk
  BY Zenon, <1>3 DEF MatchUnderRisk, Next
<1>4. CASE ReturnThroughRisk
  BY Zenon, <1>4 DEF ReturnThroughRisk, Next
<1>5. ASSUME NEW id \in OrderIds, CancelThroughRisk(id) PROVE Next
  BY ZenonT(60), <1>5 DEF CancelThroughRisk, Next
<1>6. CASE UNCHANGED <<vars, riskVars>>
  BY ZenonT(60), <1>6
<1> QED BY ZenonT(60), <1>1, <1>2, <1>3, <1>4, <1>5, <1>6 DEF RiskNext

(* No step of the exchange breaks the engine's invariant.                  *)
LEMMA EngineKeptUnderRisk ==
    EngineInvariant /\ [RiskNext]_<<vars, riskVars>> => EngineInvariant'
BY ZenonT(60), RiskStepIsEngineStep, EngineSteps, CallIdles

(* The engine behind the risk checks keeps its book sound and its calls    *)
(* where the code expects them, whatever orders the checks let through.    *)
THEOREM EngineInvariantUnderRisk == RiskSpec => []EngineInvariant
<1>1. RiskInit => EngineInvariant
  BY EngineStarts DEF RiskInit
<1> QED BY <1>1, EngineKeptUnderRisk, PTL DEF RiskSpec

(* On the whole exchange, the id index never leads cancel to a free slot   *)
(* or to an order with another id, also when clients share ids.            *)
THEOREM IndexNeverDanglesUnderRisk == RiskSpec => []IndexNeverDangles
<1>1. EngineInvariant => IndexNeverDangles
  BY ZenonT(60) DEF EngineInvariant, SoundBook, IndexNeverDangles
<1> QED BY <1>1, EngineInvariantUnderRisk, PTL

(* On the whole exchange, an accepted limit order finds a slot when its    *)
(* remainder comes to rest.                                                *)
THEOREM RestFindsSlotUnderRisk == RiskSpec => []RestFindsSlot
<1>1. EngineInvariant => RestFindsSlot
  BY Zenon DEF EngineInvariant
<1> QED BY <1>1, EngineInvariantUnderRisk, PTL

-----------------------------------------------------------------------------
(* Ownership and the life of an order, behind the risk checks.             *)

(* A rejection by the risk checks leaves every order and every call alone. *)
LEMMA RejectionIsQuiet ==
    ASSUME UNCHANGED <<bookVars, lastAcceptedId, callVars, stpPolicy>>
    PROVE  /\ OwnIdsInvariant => OwnIdsInvariant'
           /\ CountsExact => CountsExact'
           /\ NoOwnInReach => NoOwnInReach'
           /\ RestingAlive => RestingAlive'
           /\ ~Traded
           /\ OpenShown /\ OpenShown' => UNCHANGED Lifecycle!lifecycleVars
<1>1. /\ book' = book /\ clientResting' = clientResting /\ lastAcceptedId' = lastAcceptedId
      /\ pc' = pc /\ incoming' = incoming /\ remaining' = remaining /\ trades' = trades
      /\ stpPolicy' = stpPolicy
  BY ZenonT(60) DEF bookVars, callVars
<1>2. OwnIdsInvariant => OwnIdsInvariant'
  BY ZenonT(60), <1>1
     DEF OwnIdsInvariant, RestingIdsAccepted, IncomingIdIsNew, OwnIdsDiffer
<1>3. CountsExact => CountsExact'
  BY ZenonT(60), <1>1 DEF CountsExact
<1>4. NoOwnInReach => NoOwnInReach'
  BY ZenonT(60), <1>1 DEF NoOwnInReach, RestingOn
<1>5. (RestingAlive => RestingAlive') /\ ~Traded
  BY ZenonT(60), <1>1 DEF RestingAlive, Traded
<1>6. OpenShown /\ OpenShown' => UNCHANGED Lifecycle!lifecycleVars
  BY ZenonT(60), <1>1, LifeIdles
<1> QED BY SMTT(60), <1>2, <1>3, <1>4, <1>5, <1>6

(* On the whole exchange a level's total is the sum of what its orders     *)
(* have left, and nothing rests with nothing left of it.                   *)
THEOREM LevelTotalsExactUnderRisk == RiskSpec => []LevelTotalsExact
<1>1. RiskInit => TotalsExact(book) /\ RestingAlive
  BY ZenonT(60), EmptyBookTotals, LifeStarts DEF RiskInit, Init
<1>2. EngineInvariant /\ RestingAlive /\ [RiskNext]_<<vars, riskVars>> => RestingAlive'
  BY ZenonT(60), RiskStepIsEngineStep, RestingAliveSteps, RejectionIsQuiet
<1>3. EngineInvariant /\ TotalsExact(book) /\ [RiskNext]_<<vars, riskVars>> => TotalsExact(book)'
  <2>1. UNCHANGED <<bookVars, lastAcceptedId, callVars, stpPolicy>> => book' = book
    BY DEF bookVars
  <2> QED BY ZenonT(60), <2>1, RiskStepIsEngineStep, TotalsSteps
<1> QED BY <1>1, <1>2, <1>3, TotalsShown, EngineInvariantUnderRisk, PTL DEF RiskSpec

(* On the whole exchange no client has two orders of one id in the book.   *)
THEOREM OwnIdsUnderRisk == RiskSpec => []OwnIdsInvariant
<1>1. RiskInit => OwnIdsInvariant
  BY OwnIdsStart DEF RiskInit
<1>2. EngineInvariant /\ OwnIdsInvariant /\ [RiskNext]_<<vars, riskVars>> => OwnIdsInvariant'
  BY ZenonT(60), RiskStepIsEngineStep, OwnIdsSteps, RejectionIsQuiet
<1> QED BY <1>1, <1>2, EngineInvariantUnderRisk, PTL DEF RiskSpec

(* On the whole exchange the self-trade index counts exactly what rests,   *)
(* so the answer of would_self_cross is right for every order the risk     *)
(* checks let through.                                                     *)
THEOREM SelfCrossExactUnderRisk == RiskSpec => []SelfCrossExact
<1>1. RiskInit => (StpEnabled => CountsExact)
  BY CountsStart DEF RiskInit
<1>2. EngineInvariant /\ (StpEnabled => CountsExact) /\ [RiskNext]_<<vars, riskVars>>
        => (StpEnabled => CountsExact)'
  BY ZenonT(60), RiskStepIsEngineStep, CountsSteps, RejectionIsQuiet
<1> QED BY <1>1, <1>2, CountsGiveSelfCross, EngineInvariantUnderRisk, PTL DEF RiskSpec

(* On the whole exchange nobody trades with itself, under either policy.   *)
THEOREM NoSelfTradeUnderRisk == RiskSpec => NoSelfTrade
<1>1. RiskInit => NoOwnInReach
  BY NoOwnInReachStarts DEF RiskInit
<1>2. EngineInvariant /\ SelfCrossExact /\ NoOwnInReach /\ [RiskNext]_<<vars, riskVars>>
        => NoOwnInReach'
  BY ZenonT(60), RiskStepIsEngineStep, NoOwnInReachSteps, RejectionIsQuiet
<1>3. EngineInvariant /\ NoOwnInReach /\ [RiskNext]_<<vars, riskVars>>
        => [StpEnabled /\ Traded => book.order[Front].owner # incoming.owner]_vars
  BY ZenonT(60), RiskStepIsEngineStep, FillPairsTwoClients, RejectionIsQuiet
<1> QED BY <1>1, <1>2, <1>3, SelfCrossExactUnderRisk, EngineInvariantUnderRisk, PTL
        DEF RiskSpec, NoSelfTrade

(* On the whole exchange every order has the life the engine promises.     *)
THEOREM ImplementsLifecycleUnderRisk == RiskSpec => ImplementsLifecycle
<1>1. RiskInit => RestingAlive /\ Lifecycle!LifecycleInit
  BY SMTT(60), LifeStarts DEF RiskInit
<1>2. EngineInvariant /\ RestingAlive /\ [RiskNext]_<<vars, riskVars>> => RestingAlive'
  BY ZenonT(60), RiskStepIsEngineStep, RestingAliveSteps, RejectionIsQuiet
<1>3. EngineInvariant /\ OwnIdsInvariant /\ RestingAlive /\ OpenShown /\ OpenShown'
      /\ [RiskNext]_<<vars, riskVars>>
        => [Lifecycle!LifecycleNext]_Lifecycle!lifecycleVars
  <2> SUFFICES ASSUME EngineInvariant, OwnIdsInvariant, RestingAlive, OpenShown, OpenShown',
                      [RiskNext]_<<vars, riskVars>>
               PROVE  [Lifecycle!LifecycleNext]_Lifecycle!lifecycleVars
    OBVIOUS
  <2>1. CASE [Next]_vars
    BY ZenonT(60), <2>1, LifeSteps
  <2>2. CASE UNCHANGED <<bookVars, lastAcceptedId, callVars, stpPolicy>>
    BY ZenonT(60), <2>2, RejectionIsQuiet
  <2> QED BY SMTT(60), <2>1, <2>2, RiskStepIsEngineStep
<1> QED BY <1>1, <1>2, <1>3, OpenIsShown, OwnIdsUnderRisk, EngineInvariantUnderRisk, PTL
        DEF RiskSpec, ImplementsLifecycle, Lifecycle!LifecycleSpec

-----------------------------------------------------------------------------
(* The band's reference price.                                             *)

(* During a call the reference is out of date by exactly the trades of the *)
(* call, which update_reference_from will catch up with.                   *)
ReferenceInvariant ==
    /\ pc = "idle" => trades = <<>>
    /\ lastTrade = UpdatedReference

(* A call that has traded ends with the price of its last trade.           *)
LEMMA LastOfAppended ==
    ASSUME NEW S, NEW q \in Seq(S), NEW x \in S
    PROVE  Append(q, x) # <<>> /\ Append(q, x)[Len(Append(q, x))] = x
BY SMTT(60)

(* The events of the matching loops that are not trades.                   *)
LEMMA OtherEvents ==
    ASSUME NEW o
    PROVE  NoEvent.kind # "trade" /\ Cancelled(o).kind # "trade"
BY SMTT(60) DEF NoEvent, Cancelled

(* A step that leaves the call and the reference alone, or starts a call.  *)
LEMMA ReferenceIdles ==
    ASSUME ReferenceInvariant, UNCHANGED <<trades, riskVars>>, pc' = "idle" => pc = "idle"
    PROVE  ReferenceInvariant'
<1>1. trades' = trades /\ reference' = reference /\ lastTrade' = lastTrade
  BY ZenonT(60) DEF riskVars
<1>2. (pc = "idle" => trades = <<>>)'
  BY ZenonT(60), <1>1 DEF ReferenceInvariant
<1>3. (lastTrade = UpdatedReference)'
  BY ZenonT(60), <1>1 DEF ReferenceInvariant, UpdatedReference
<1> QED BY SMTT(60), <1>2, <1>3 DEF ReferenceInvariant

(* A step of the matching loops.                                           *)
LEMMA ReferenceMatches ==
    ASSUME EngineInvariant, ReferenceInvariant, MatchUnderRisk
    PROVE  ReferenceInvariant'
<1>1. CASE Fill
  <2>1. /\ pc = "level" /\ event' = Trade /\ trades' = Append(trades, Trade)
        /\ pc' = "match" \/ pc' = pc
    BY ZenonT(60), <1>1 DEF Fill
  <2>2. trades \in Seq(TradeEvents) /\ Trade \in TradeEvents
    BY ZenonT(60), <2>1, TradeTyped DEF EngineInvariant, TypeOK
  <2>3. Trade.kind = "trade"
    BY DEF Trade
  <2>4. lastTrade' = Trade.price /\ reference' = reference
    BY ZenonT(60), <2>1, <2>3 DEF MatchUnderRisk
  <2>5. trades' # <<>> /\ trades'[Len(trades')] = Trade
    BY SMTT(60), <2>1, <2>2, LastOfAppended
  <2>6. (lastTrade = UpdatedReference)'
    BY ZenonT(60), <2>4, <2>5 DEF UpdatedReference
  <2> QED BY ZenonT(60), <2>1, <2>6 DEF ReferenceInvariant
<1>2. CASE CancelOwn \/ \E p \in Prices : FetchLevel(p)
  <2>1. trades' = trades /\ pc' # "idle" /\ event'.kind # "trade"
    BY ZenonT(60), <1>2, OtherEvents DEF CancelOwn, FetchLevel
  <2>2. UNCHANGED <<trades, riskVars>>
    BY ZenonT(60), <2>1 DEF MatchUnderRisk, riskVars
  <2> QED BY ZenonT(60), <2>1, <2>2, ReferenceIdles
<1> QED BY ZenonT(60), <1>1, <1>2 DEF MatchUnderRisk

(* No step of the exchange lets the reference drift from the trades.       *)
LEMMA ReferenceSteps ==
    EngineInvariant /\ ReferenceInvariant /\ [RiskNext]_<<vars, riskVars>>
      => ReferenceInvariant'
<1> SUFFICES ASSUME EngineInvariant, ReferenceInvariant, [RiskNext]_<<vars, riskVars>>
             PROVE  ReferenceInvariant'
  OBVIOUS
<1>1. ASSUME NEW o \in Submits, RiskReject(o) PROVE ReferenceInvariant'
  BY ZenonT(60), <1>1, ReferenceIdles DEF RiskReject, callVars
<1>2. ASSUME NEW o \in Submits, Forward(o) PROVE ReferenceInvariant'
  <2>1. UNCHANGED <<trades, riskVars>> /\ (pc' = "idle" => pc = "idle")
    BY ZenonT(60), <1>2 DEF Forward, SubmitRejected, SubmitAccepted, callVars
  <2> QED BY ZenonT(60), <2>1, ReferenceIdles
<1>3. CASE MatchUnderRisk
  BY SMTT(60), <1>3, ReferenceMatches
<1>4. CASE ReturnThroughRisk
  <2>1. trades' = <<>> /\ reference' = lastTrade /\ lastTrade' = lastTrade
    BY ZenonT(60), <1>4 DEF ReturnThroughRisk, Return, ReferenceInvariant
  <2> QED BY ZenonT(60), <2>1 DEF ReferenceInvariant, UpdatedReference
<1>5. ASSUME NEW id \in OrderIds, CancelThroughRisk(id) PROVE ReferenceInvariant'
  <2>1. UNCHANGED <<trades, riskVars>> /\ pc = "idle"
    BY ZenonT(60), <1>5 DEF CancelThroughRisk, CancelUnknown, CancelResting, callVars
  <2> QED BY ZenonT(60), <2>1, ReferenceIdles
<1>6. CASE UNCHANGED <<vars, riskVars>>
  BY ZenonT(60), <1>6, ReferenceIdles DEF vars, callVars
<1> QED BY ZenonT(60), <1>1, <1>2, <1>3, <1>4, <1>5, <1>6 DEF RiskNext

(* Between two calls the price band is centred on the exchange's latest    *)
(* trade, or on the configured price when there was none.                  *)
THEOREM ReferenceIsLastTradeHolds == RiskSpec => []ReferenceIsLastTrade
<1>1. RiskInit => ReferenceInvariant
  BY ZenonT(60) DEF RiskInit, Init, ReferenceInvariant, UpdatedReference
<1>2. ReferenceInvariant => ReferenceIsLastTrade
  BY ZenonT(60) DEF ReferenceInvariant, ReferenceIsLastTrade, UpdatedReference
<1> QED BY <1>1, <1>2, ReferenceSteps, EngineInvariantUnderRisk, PTL DEF RiskSpec

-----------------------------------------------------------------------------
(* The limits of what rests.                                               *)

OnTick(p) == TickSize > 0 => p % TickSize = 0

(* What rests is on a tick and within the ceiling.                         *)
BookWithinLimits ==
    \A s \in Resting(book) :
        OnTick(book.order[s].price) /\ book.order[s].quantity <= MaxOrderQty

TradesOnTick == lastTrade # InitialReference => OnTick(lastTrade)

(* The order being matched passed the checks, and less and less is left of *)
(* it.                                                                     *)
CallWithinLimits ==
    pc # "idle" => /\ remaining <= MaxOrderQty
                   /\ incoming.limit # NoLimit => OnTick(incoming.limit)

LimitsInvariant == BookWithinLimits /\ TradesOnTick /\ CallWithinLimits

(* r is b with orders filled and taken out, at unchanged prices.           *)
Drained(r, b) ==
    \A t \in Resting(r) : /\ t \in Resting(b)
                          /\ r.order[t].price = b.order[t].price
                          /\ r.order[t].quantity <= b.order[t].quantity

(* remove_order drains.                                                    *)
LEMMA RemoveOrderDrains ==
    ASSUME NEW b \in Books, NEW s \in Resting(b)
    PROVE  Drained(RemoveOrder(b, s), b)
<1> DEFINE r == RemoveOrder(b, s)
<1>1. Resting(r) = Resting(b) \ {s} /\ \A t \in Resting(b) \ {s} : r.order[t] = b.order[t]
  BY ZenonT(60), RemoveOrderResting
<1>2. \A t \in Resting(b) : b.order[t].quantity \in Nat
  BY ZenonT(60), RestingOrderIs DEF Orders
<1> HIDE DEF r
<1>3. \A t \in Resting(r) : /\ t \in Resting(b) /\ r.order[t] = b.order[t]
                            /\ b.order[t].quantity <= b.order[t].quantity
  BY SMTT(60), <1>1, <1>2
<1> QED BY ZenonT(60), <1>3 DEF Drained, r

(* A fill of a resting order drains.                                       *)
LEMMA ReduceOrderDrains ==
    ASSUME NEW b \in Books, NEW s \in Resting(b), NEW qty \in Nat,
           qty <= b.order[s].quantity
    PROVE  Drained(ReduceOrder(b, s, qty), b)
<1> DEFINE r == ReduceOrder(b, s, qty)
<1>1. Resting(r) = Resting(b) /\ \A t \in Resting(b) : r.order[t].price = b.order[t].price
  BY ZenonT(60), ReduceOrderOrders
<1>2. \A t \in Resting(b) : t \in Slots /\ b.order[t] \in Orders /\ b.order[t].quantity \in Nat
  BY ZenonT(60), RestingOrderIs DEF Orders, Resting
<1>3. DOMAIN b.order = Slots
  BY DEF Books
<1>4. \A t \in Resting(b) : r.order[t] = IF t = s THEN Reduced(b.order[s], qty) ELSE b.order[t]
  <2> DEFINE n == Reduced(b.order[s], qty)
  <2>1. r.order = [t \in DOMAIN b.order |-> IF t = s THEN n ELSE b.order[t]]
    BY SMTT(60), ReduceOrderOrder
  <2> HIDE DEF n, r
  <2>2. \A t \in Resting(b) : r.order[t] = IF t = s THEN n ELSE b.order[t]
    BY ZenonT(60), <1>2, <1>3, <2>1
  <2> QED BY ZenonT(60), <2>2 DEF n
<1>5. Reduced(b.order[s], qty).quantity = b.order[s].quantity - qty
  BY SMTT(60), <1>2 DEF Reduced, Orders
<1> HIDE DEF r
<1>6. ASSUME NEW t \in Resting(b) PROVE r.order[t].quantity <= b.order[t].quantity
  <2>1. CASE t = s
    BY SMTT(60), <1>2, <1>4, <1>5, <2>1
  <2>2. CASE t # s
    BY SMTT(60), <1>2, <1>4, <2>2
  <2> QED BY SMTT(60), <2>1, <2>2
<1> QED BY ZenonT(60), <1>1, <1>6 DEF Drained, r

(* A fill, with or without the removal of the consumed order, drains.      *)
LEMMA FilledBookDrains ==
    ASSUME EngineInvariant, pc = "level"
    PROVE  Drained(FilledBook, book) /\ FilledBook \in Books
<1> DEFINE b == ReduceOrder(book, Front, FillQty)
           r == RemoveOrder(b, Front)
<1>1. book \in Books /\ SoundBook(book) /\ Front \in Resting(book)
  BY SMTT(60), FrontIs DEF EngineInvariant, TypeOK
<1>2. FillQty \in Nat /\ FillQty <= book.order[Front].quantity
  BY FillQtyIs
<1>3. Drained(b, book)
  BY ZenonT(60), <1>1, <1>2, ReduceOrderDrains
<1>4. b \in Books /\ Front \in Resting(b)
  BY ZenonT(60), <1>1, <1>2, ReduceOrderSound DEF SoundBook
<1>5. FilledBook = IF FullyConsumed THEN r ELSE b
  BY ZenonT(60) DEF FilledBook
<1>6. FilledBook \in Books
  BY ZenonT(60), FilledBookSound DEF SoundBook
<1> HIDE DEF b
<1>7. Drained(r, b)
  BY ZenonT(60), <1>4, RemoveOrderDrains
<1> HIDE DEF r
<1>8. FullyConsumed => r \in Books
  BY ZenonT(60), <1>5, <1>6
<1>9. ASSUME FullyConsumed PROVE Drained(r, book)
  <2>1. ASSUME NEW t \in Resting(r)
        PROVE  /\ t \in Resting(book) /\ r.order[t].price = book.order[t].price
               /\ r.order[t].quantity <= book.order[t].quantity
    <3>1. /\ t \in Resting(b) /\ t \in Resting(book)
          /\ r.order[t].price = b.order[t].price /\ b.order[t].price = book.order[t].price
          /\ r.order[t].quantity <= b.order[t].quantity
          /\ b.order[t].quantity <= book.order[t].quantity
      BY ZenonT(60), <1>3, <1>7 DEF Drained
    <3>2. /\ r.order[t].quantity \in Nat /\ b.order[t].quantity \in Nat
          /\ book.order[t].quantity \in Nat
      BY ZenonT(60), <1>1, <1>4, <1>8, <1>9, <3>1, RestingOrderIs DEF Orders
    <3> DEFINE x == r.order[t].quantity
               y == b.order[t].quantity
               z == book.order[t].quantity
    <3> HIDE DEF x, y, z
    <3>3. x \in Nat /\ y \in Nat /\ z \in Nat /\ x <= y /\ y <= z
      BY SMTT(60), <3>1, <3>2 DEF x, y, z
    <3>4. x <= z
      BY SMTT(60), <3>3
    <3> QED BY ZenonT(60), <3>1, <3>4 DEF x, z
  <2> QED BY ZenonT(60), <2>1 DEF Drained
<1> QED BY ZenonT(60), <1>3, <1>5, <1>6, <1>9

(* What is left after draining is within the limits.                       *)
LEMMA DrainedWithinLimits ==
    ASSUME EngineInvariant, EngineInvariant', BookWithinLimits, Drained(book', book)
    PROVE  BookWithinLimits'
<1>1. ASSUME NEW t \in Resting(book')
      PROVE  OnTick(book'.order[t].price) /\ book'.order[t].quantity <= MaxOrderQty
  <2> DEFINE x == book'.order[t].quantity
             y == book.order[t].quantity
  <2>1. /\ t \in Resting(book) /\ book'.order[t].price = book.order[t].price /\ x <= y
    BY ZenonT(60) DEF Drained
  <2>2. OnTick(book.order[t].price) /\ y <= MaxOrderQty
    BY ZenonT(60), <2>1 DEF BookWithinLimits
  <2>3. book \in Books /\ book' \in Books
    BY ZenonT(60) DEF EngineInvariant, TypeOK
  <2>4. x \in Nat /\ y \in Nat /\ MaxOrderQty \in Nat
    BY ZenonT(60), <2>1, <2>3, RestingOrderIs, RiskConfigAssumption DEF Orders
  <2>5. OnTick(book'.order[t].price)
    BY ZenonT(60), <2>1, <2>2
  <2> HIDE DEF x, y
  <2>6. x <= MaxOrderQty
    BY SMTT(60), <2>1, <2>2, <2>4
  <2> QED BY ZenonT(60), <2>5, <2>6 DEF x
<1> QED BY ZenonT(60), <1>1 DEF BookWithinLimits

(* run_checks: what it accepts is within the limits.                       *)
LEMMA CheckedOrder ==
    ASSUME NEW o, RunChecks(o) = "Accepted"
    PROVE  o.quantity <= MaxOrderQty /\ (o.limit # NoLimit => OnTick(o.limit))
BY SMTT(60) DEF RunChecks, CheckFatFinger, CheckTickSize, OnTick

(* A step that leaves the book, the call and the last trade alone.         *)
LEMMA LimitsIdle ==
    ASSUME LimitsInvariant, UNCHANGED <<book, pc, incoming, remaining, lastTrade>>
    PROVE  LimitsInvariant'
<1>1. BookWithinLimits'
  BY ZenonT(60) DEF LimitsInvariant, BookWithinLimits, Resting
<1>2. TradesOnTick' /\ CallWithinLimits'
  BY ZenonT(60) DEF LimitsInvariant, TradesOnTick, CallWithinLimits
<1> QED BY SMTT(60), <1>1, <1>2 DEF LimitsInvariant

(* A fill: at the price of a resting order, of at most what was left.      *)
LEMMA FillLimits ==
    ASSUME EngineInvariant, EngineInvariant', LimitsInvariant, Fill, MatchUnderRisk
    PROVE  LimitsInvariant'
<1>1. /\ pc = "level" /\ event' = Trade /\ book' = FilledBook /\ remaining' = Left
      /\ incoming' = incoming
  BY ZenonT(60) DEF Fill
<1>2. BookWithinLimits'
  BY ZenonT(60), <1>1, FilledBookDrains, DrainedWithinLimits DEF LimitsInvariant
<1>3. Trade.kind = "trade" /\ Trade.price = book.order[Front].price
  BY DEF Trade
<1>4. lastTrade' = book.order[Front].price
  BY ZenonT(60), <1>1, <1>3 DEF MatchUnderRisk
<1>5. OnTick(lastTrade')
  BY ZenonT(60), <1>1, <1>4, FrontIs DEF LimitsInvariant, BookWithinLimits
<1>6. TradesOnTick'
  BY ZenonT(60), <1>5 DEF TradesOnTick, OnTick
<1>7. remaining' <= MaxOrderQty
  <2>1. FillQty \in Nat /\ FillQty <= remaining /\ remaining' = remaining - FillQty
    BY SMTT(60), <1>1, FillQtyIs DEF Left
  <2>2. remaining \in Nat /\ remaining <= MaxOrderQty /\ MaxOrderQty \in Nat
    BY ZenonT(60), <1>1, RiskConfigAssumption
    DEF EngineInvariant, TypeOK, LimitsInvariant, CallWithinLimits
  <2> QED BY SMTT(60), <2>1, <2>2
<1>8. CallWithinLimits'
  BY ZenonT(60), <1>1, <1>7 DEF LimitsInvariant, CallWithinLimits, OnTick
<1> QED BY ZenonT(60), <1>2, <1>6, <1>8 DEF LimitsInvariant

(* The other steps of the matching loops.                                  *)
LEMMA MatchLimits ==
    ASSUME EngineInvariant, EngineInvariant', LimitsInvariant, MatchUnderRisk
    PROVE  LimitsInvariant'
<1>1. CASE Fill
  BY ZenonT(60), <1>1, FillLimits
<1>2. CASE CancelOwn
  <2>1. /\ pc = "level" /\ book' = RemoveOrder(book, Front)
        /\ remaining' = remaining /\ incoming' = incoming /\ event'.kind # "trade"
    BY ZenonT(60), <1>2, OtherEvents DEF CancelOwn
  <2>2. lastTrade' = lastTrade
    BY ZenonT(60), <2>1 DEF MatchUnderRisk
  <2>3. book \in Books /\ Front \in Resting(book)
    BY SMTT(60), <2>1, FrontIs DEF EngineInvariant, TypeOK
  <2>4. BookWithinLimits'
    BY ZenonT(60), <2>1, <2>3, RemoveOrderDrains, DrainedWithinLimits
    DEF LimitsInvariant
  <2>5. TradesOnTick' /\ CallWithinLimits'
    BY ZenonT(60), <2>1, <2>2 DEF LimitsInvariant, TradesOnTick, CallWithinLimits, OnTick
  <2> QED BY ZenonT(60), <2>4, <2>5 DEF LimitsInvariant
<1>3. ASSUME NEW p \in Prices, FetchLevel(p) PROVE LimitsInvariant'
  <2>1. /\ pc = "match" /\ pc' = "level" /\ book' = book
        /\ remaining' = remaining /\ incoming' = incoming /\ event'.kind # "trade"
    BY ZenonT(60), <1>3, OtherEvents DEF FetchLevel, bookVars
  <2>2. lastTrade' = lastTrade
    BY ZenonT(60), <2>1 DEF MatchUnderRisk
  <2>3. BookWithinLimits'
    BY ZenonT(60), <2>1 DEF LimitsInvariant, BookWithinLimits, Resting
  <2>4. TradesOnTick' /\ CallWithinLimits'
    BY ZenonT(60), <2>1, <2>2 DEF LimitsInvariant, TradesOnTick, CallWithinLimits, OnTick
  <2> QED BY ZenonT(60), <2>3, <2>4 DEF LimitsInvariant
<1> QED BY ZenonT(60), <1>1, <1>2, <1>3 DEF MatchUnderRisk

(* The end of submit: what comes to rest is what is left of the order that *)
(* passed the checks.                                                      *)
LEMMA ReturnLimits ==
    ASSUME EngineInvariant, EngineInvariant', LimitsInvariant, ReturnThroughRisk
    PROVE  LimitsInvariant'
<1>1. pc = "match" /\ pc' = "idle" /\ lastTrade' = lastTrade
  BY ZenonT(60) DEF ReturnThroughRisk, Return
<1>2. TradesOnTick' /\ CallWithinLimits'
  BY ZenonT(60), <1>1 DEF LimitsInvariant, TradesOnTick, CallWithinLimits, OnTick
<1>3. \/ book' = book
      \/ remaining > 0 /\ incoming.limit # NoLimit /\ book' = AddOrder(book, RestingOrder)
  BY ZenonT(60) DEF ReturnThroughRisk, Return, bookVars
<1>4. CASE book' = book
  <2>1. BookWithinLimits'
    BY ZenonT(60), <1>4 DEF LimitsInvariant, BookWithinLimits, Resting
  <2> QED BY ZenonT(60), <1>2, <2>1 DEF LimitsInvariant
<1>5. CASE remaining > 0 /\ incoming.limit # NoLimit /\ book' = AddOrder(book, RestingOrder)
  <2> DEFINE o == RestingOrder
             n == Head(book.free)
  <2>1. /\ incoming.id \in OrderIds /\ incoming.owner \in Clients /\ incoming.side \in Sides
        /\ incoming.limit \in Prices /\ remaining \in Nat /\ nextSequence \in Nat
    BY ZenonT(60), <1>1, <1>5 DEF EngineInvariant, TypeOK, NewOrders
  <2>2. o \in Orders /\ o.price = incoming.limit /\ o.quantity = remaining
    BY SMTT(60), <2>1 DEF RestingOrder, Orders
  <2>3. book \in Books /\ SlotsAccounted(book) /\ book.free # <<>>
    BY ZenonT(60), <1>1, <1>5 DEF EngineInvariant, TypeOK, SoundBook, RestFindsSlot
  <2>4. OnTick(o.price) /\ o.quantity <= MaxOrderQty
    BY ZenonT(60), <1>1, <1>5, <2>2 DEF LimitsInvariant, CallWithinLimits
  <2> HIDE DEF o, n
  <2>5. /\ Resting(book') = Resting(book) \union {n} /\ book'.order[n] = o
        /\ n \notin Resting(book) /\ \A t \in Slots \ {n} : book'.order[t] = book.order[t]
    BY SMTT(60), <1>5, <2>2, <2>3, AddOrderSlots DEF o, n
  <2>6. \A t \in Resting(book) : t \in Slots
    BY ZenonT(60) DEF Resting
  <2>7. ASSUME NEW t \in Resting(book')
        PROVE  OnTick(book'.order[t].price) /\ book'.order[t].quantity <= MaxOrderQty
    <3>1. CASE t = n
      BY ZenonT(60), <2>4, <2>5, <3>1
    <3>2. CASE t \in Resting(book)
      BY ZenonT(60), <2>5, <2>6, <3>2 DEF LimitsInvariant, BookWithinLimits
    <3> QED BY ZenonT(60), <2>5, <3>1, <3>2
  <2>8. BookWithinLimits'
    BY ZenonT(60), <2>7 DEF BookWithinLimits
  <2> QED BY ZenonT(60), <1>2, <2>8 DEF LimitsInvariant
<1> QED BY ZenonT(60), <1>3, <1>4, <1>5

(* cancel takes out an order that rests, or does nothing.                  *)
LEMMA CancelLimits ==
    ASSUME EngineInvariant, EngineInvariant', LimitsInvariant,
           NEW id \in OrderIds, CancelThroughRisk(id)
    PROVE  LimitsInvariant'
<1>1. pc' = pc /\ incoming' = incoming /\ remaining' = remaining /\ lastTrade' = lastTrade
  BY ZenonT(60)
  DEF CancelThroughRisk, CancelUnknown, CancelResting, callVars, riskVars
<1>2. CASE CancelUnknown(id)
  <2>1. book' = book
    BY ZenonT(60), <1>2 DEF CancelUnknown, bookVars
  <2> QED BY ZenonT(60), <1>1, <2>1, LimitsIdle
<1>3. CASE CancelResting(id)
  <2> DEFINE s == FindOrder(book, id)
  <2>1. s # NoSlot /\ book' = RemoveOrder(book, s)
    BY ZenonT(60), <1>3 DEF CancelResting
  <2>2. book \in Books /\ s \in Resting(book)
    BY ZenonT(60), <2>1
    DEF EngineInvariant, TypeOK, SoundBook, IndexLeadsHome, FindOrder
  <2> HIDE DEF s
  <2>3. BookWithinLimits'
    BY ZenonT(60), <2>1, <2>2, RemoveOrderDrains, DrainedWithinLimits
    DEF LimitsInvariant
  <2>4. TradesOnTick' /\ CallWithinLimits'
    BY ZenonT(60), <1>1 DEF LimitsInvariant, TradesOnTick, CallWithinLimits, OnTick
  <2> QED BY ZenonT(60), <2>3, <2>4 DEF LimitsInvariant
<1> QED BY ZenonT(60), <1>2, <1>3 DEF CancelThroughRisk

(* An order the checks let through starts a call within the limits.        *)
LEMMA ForwardLimits ==
    ASSUME LimitsInvariant, NEW o \in Submits, Forward(o)
    PROVE  LimitsInvariant'
<1>1. lastTrade' = lastTrade
  BY ZenonT(60) DEF Forward, riskVars
<1>2. CASE SubmitRejected(o)
  BY ZenonT(60), <1>1, <1>2, LimitsIdle DEF SubmitRejected, bookVars, callVars
<1>3. CASE SubmitAccepted(o)
  <2>1. book' = book /\ incoming' = o /\ remaining' = o.quantity
    BY ZenonT(60), <1>3 DEF SubmitAccepted, bookVars
  <2>2. BookWithinLimits'
    BY ZenonT(60), <2>1 DEF LimitsInvariant, BookWithinLimits, Resting
  <2>3. o.quantity <= MaxOrderQty /\ (o.limit # NoLimit => OnTick(o.limit))
    BY ZenonT(60), CheckedOrder DEF Forward
  <2>4. CallWithinLimits'
    BY ZenonT(60), <2>1, <2>3 DEF CallWithinLimits, OnTick
  <2>5. TradesOnTick'
    BY ZenonT(60), <1>1 DEF LimitsInvariant, TradesOnTick, OnTick
  <2> QED BY ZenonT(60), <2>2, <2>4, <2>5 DEF LimitsInvariant
<1> QED BY ZenonT(60), <1>2, <1>3 DEF Forward

(* No step of the exchange lets an order past the limits rest or trade.    *)
LEMMA LimitsSteps ==
    EngineInvariant /\ EngineInvariant' /\ LimitsInvariant /\ [RiskNext]_<<vars, riskVars>>
      => LimitsInvariant'
<1> SUFFICES ASSUME EngineInvariant, EngineInvariant', LimitsInvariant,
                    [RiskNext]_<<vars, riskVars>>
             PROVE  LimitsInvariant'
  BY SMTT(60)
<1>1. ASSUME NEW o \in Submits, RiskReject(o) PROVE LimitsInvariant'
  BY ZenonT(60), <1>1, LimitsIdle DEF RiskReject, bookVars, callVars, riskVars
<1>2. ASSUME NEW o \in Submits, Forward(o) PROVE LimitsInvariant'
  BY SMTT(60), <1>2, ForwardLimits
<1>3. CASE MatchUnderRisk
  BY SMTT(60), <1>3, MatchLimits
<1>4. CASE ReturnThroughRisk
  BY SMTT(60), <1>4, ReturnLimits
<1>5. ASSUME NEW id \in OrderIds, CancelThroughRisk(id) PROVE LimitsInvariant'
  BY SMTT(60), <1>5, CancelLimits
<1>6. CASE UNCHANGED <<vars, riskVars>>
  BY ZenonT(60), <1>6, LimitsIdle DEF vars, bookVars, callVars, riskVars
<1> QED BY ZenonT(60), <1>1, <1>2, <1>3, <1>4, <1>5, <1>6 DEF RiskNext

(* Nothing off a tick or above the size ceiling ever rests, and no trade   *)
(* moves the reference off a tick, although the checks look at the         *)
(* incoming order alone.                                                   *)
THEOREM RestingWithinLimitsHolds == RiskSpec => []RestingWithinLimits
<1>1. RiskInit => LimitsInvariant
  BY ZenonT(60), EmptyBookSound
  DEF RiskInit, Init, LimitsInvariant, BookWithinLimits, TradesOnTick, CallWithinLimits
<1>2. LimitsInvariant => RestingWithinLimits
  BY Zenon
  DEF LimitsInvariant, BookWithinLimits, TradesOnTick, OnTick, RestingWithinLimits
<1> QED BY <1>1, <1>2, LimitsSteps, EngineInvariantUnderRisk, PTL DEF RiskSpec
=============================================================================
