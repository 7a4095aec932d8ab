--------------------------- MODULE StrategyRunner ---------------------------
(* The strategies (strategy/MarketMakerStrategy.cpp, MomentumStrategy.cpp) *)
(* and the runner that drives them against the risk engine                 *)
(* (apps/strategy_runner/main.cpp).  Everything runs on one thread: a      *)
(* handler computes the engine calls it makes, they are made one after     *)
(* another, and the trades they cause are collected and handed to the      *)
(* strategies after the handler has returned.                              *)
EXTENDS RiskEngine

CONSTANTS Maker, Momentum,   \* the strategies' ClientIds
          Other,             \* any other client of the engine
          Namespace,         \* order ids a strategy has to itself (10^9)
          ReferencePrice,    \* MarketMakerConfig::reference_price
          Ticks,             \* bound: ticks of a session
          GuardLimit,        \* settle rounds per tick (1000)
          Configs,           \* the configurations a session may have
          OtherOrders        \* side, limit and quantity of the others' orders

ASSUME RunnerAssumption ==
    /\ {Maker, Momentum, Other} \subseteq Clients \intersect Nat
    /\ Namespace \in Nat /\ Ticks \in Nat /\ GuardLimit \in Nat

VARIABLES
    cfg,      \* RunnerConfig, MarketMakerConfig and MomentumConfig
    mm,       \* MarketMakerStrategy
    mom,      \* MomentumStrategy
    pending,  \* DeferredTradeSink::pending_
    todo,     \* the handlers still to be run: of this tick, or of this drain
    calls,    \* the engine calls the running handler has still to make
    session,  \* where main's loops are
    took      \* history: the maker's orders that traded on arrival

runnerVars == <<cfg, mm, mom, pending, todo, calls, session, took>>

FirstId(client) == client * Namespace + 1

RunnerInit ==
    /\ RiskInit
    /\ cfg \in Configs
    /\ mm = [bid |-> 0, ask |-> 0, next |-> FirstId(Maker), quoting |-> FALSE,
             ref |-> ReferencePrice, dir |-> 1, accum |-> 0]
    /\ mom = [prices |-> <<>>, next |-> FirstId(Momentum), ticks |-> 0, buy |-> TRUE]
    /\ pending = <<>> /\ todo = <<>> /\ calls = <<>> /\ took = {}
    /\ session = [at |-> "tick", tick |-> 0, guard |-> 0, others |-> 0]

-----------------------------------------------------------------------------
(* MarketMakerStrategy.  A handler's result is the strategy's new state    *)
(* and the calls it makes.                                                 *)

Cancel(id) == [do |-> "cancel", id |-> id]
Submit(client, id, side, limit, quantity) ==
    [do |-> "submit",
     order |-> [id |-> id, owner |-> client, side |-> side, limit |-> limit,
                quantity |-> quantity]]

(* Mutated forms of definitions below; nothing uses them.                  *)
RequoteBidOnly(m) ==
    [state |-> [m EXCEPT !.bid = 0, !.next = @ + 1],
     calls |-> (IF m.bid # 0 THEN <<Cancel(m.bid)>> ELSE <<>>)
               \o <<Submit(Maker, m.next, "Buy", m.ref - cfg.spread, cfg.quote)>>]
RequoteWithoutCancel(m) ==
    [state |-> [m EXCEPT !.bid = 0, !.ask = 0, !.next = @ + 2],
     calls |-> << Submit(Maker, m.next, "Buy", m.ref - cfg.spread, cfg.quote),
                  Submit(Maker, m.next + 1, "Sell", m.ref + cfg.spread, cfg.quote) >>]
WindowUnbounded(price) == Append(mom.prices, price)

(* requote: pull both quotes, then post both anew.                         *)
Requote(m) ==
    [state |-> [m EXCEPT !.bid = 0, !.ask = 0, !.next = @ + 2],
     calls |-> (IF m.bid # 0 THEN <<Cancel(m.bid)>> ELSE <<>>)
               \o (IF m.ask # 0 THEN <<Cancel(m.ask)>> ELSE <<>>)
               \o << Submit(Maker, m.next, "Buy", m.ref - cfg.spread, cfg.quote),
                     Submit(Maker, m.next + 1, "Sell", m.ref + cfg.spread, cfg.quote) >>]

(* The oscillating reference: turned round at four spreads from the base.  *)
Drifted(m) ==
    LET bound == cfg.spread * 4
        moved == m.accum + m.dir * cfg.drift
        accum == IF moved > bound THEN bound ELSE IF moved < -bound THEN -bound ELSE moved
    IN  [m EXCEPT !.accum = accum, !.ref = ReferencePrice + accum,
                  !.dir = IF moved > bound THEN -1 ELSE IF moved < -bound THEN 1 ELSE @]

MakerOnTick ==
    IF ~mm.quoting THEN Requote([mm EXCEPT !.quoting = TRUE])
    ELSE IF cfg.drift # 0 THEN Requote(Drifted(mm))
    ELSE [state |-> mm, calls |-> <<>>]

MakerOnTrade(t) ==
    LET bidHit == mm.bid # 0 /\ t.buy = mm.bid
        askHit == mm.ask # 0 /\ t.sell = mm.ask
    IN  IF ~bidHit /\ ~askHit THEN [state |-> mm, calls |-> <<>>]
        ELSE Requote([mm EXCEPT !.bid = IF bidHit /\ t.removed THEN 0 ELSE @,
                                !.ask = IF askHit /\ t.removed THEN 0 ELSE @])

(* requote keeps an id only if its order was accepted and has not filled.  *)
Tracked ==
    IF incoming.owner # Maker \/ remaining = 0 THEN mm
    ELSE IF incoming.side = "Buy" THEN [mm EXCEPT !.bid = incoming.id]
    ELSE [mm EXCEPT !.ask = incoming.id]

-----------------------------------------------------------------------------
(* MomentumStrategy.                                                       *)

MarketOrder(m, side, quantity) ==
    [state |-> [m EXCEPT !.next = @ + 1],
     calls |-> <<Submit(Momentum, m.next, side, NoLimit, quantity)>>]

(* The last lookback_n prices of the tape.                                 *)
Window(price) ==
    LET w == Append(mom.prices, price)
    IN  IF Len(w) > cfg.lookback THEN Tail(w) ELSE w

MomentumOnTrade(t) ==
    LET w == Window(t.price)
        m == [mom EXCEPT !.prices = w]
        quiet == Len(w) < cfg.lookback \/ cfg.lookback = 0
        delta == w[Len(w)] - w[1]
    IN  IF quiet THEN [state |-> m, calls |-> <<>>]
        ELSE IF delta > cfg.threshold THEN MarketOrder(m, "Buy", cfg.order)
        ELSE IF -delta > cfg.threshold THEN MarketOrder(m, "Sell", cfg.order)
        ELSE [state |-> m, calls |-> <<>>]

(* The probe: a small market order every so many ticks, sides alternating. *)
MomentumOnTick ==
    LET m == [mom EXCEPT !.ticks = @ + 1]
    IN  IF cfg.every = 0 THEN [state |-> mom, calls |-> <<>>]
        ELSE IF m.ticks % cfg.every # 0 THEN [state |-> m, calls |-> <<>>]
        ELSE MarketOrder([m EXCEPT !.buy = ~@], IF m.buy THEN "Buy" ELSE "Sell", cfg.probe)

-----------------------------------------------------------------------------
(* The runner.                                                             *)

Between == pc = "idle" /\ calls = <<>>

Strategies == (IF cfg.mm THEN <<"mm">> ELSE <<>>) \o (IF cfg.mom THEN <<"mom">> ELSE <<>>)

NoTrade == [kind |-> "tick"]

(* Every strategy's handler for x, in the order of the list.               *)
ForEach(x) == [i \in DOMAIN Strategies |-> [to |-> Strategies[i], what |-> x]]

Dispatch(ts) ==
    LET upTo[n \in 0..Len(ts)] ==
            IF n = 0 THEN <<>> ELSE upTo[n - 1] \o ForEach(ts[n])
    IN  upTo[Len(ts)]

StartTick ==
    /\ Between /\ todo = <<>> /\ session.at = "tick" /\ session.tick < Ticks
    /\ session' = [session EXCEPT !.at = "settle", !.tick = @ + 1, !.guard = 0]
    /\ todo' = ForEach(NoTrade)
    /\ UNCHANGED <<vars, riskVars, cfg, mm, mom, pending, calls, took>>

(* One round of the settle loop: sink.drain() and its dispatch.            *)
Drain ==
    /\ Between /\ todo = <<>> /\ session.at = "settle"
    /\ pending # <<>> /\ session.guard < GuardLimit
    /\ session' = [session EXCEPT !.guard = @ + 1]
    /\ todo' = Dispatch(pending)
    /\ pending' = <<>>
    /\ UNCHANGED <<vars, riskVars, cfg, mm, mom, calls, took>>

TickEnds ==
    /\ Between /\ todo = <<>> /\ session.at = "settle"
    /\ pending = <<>> \/ session.guard >= GuardLimit
    /\ session' = [session EXCEPT !.at = "tick"]
    /\ UNCHANGED <<vars, riskVars, cfg, mm, mom, pending, todo, calls, took>>

RunMaker ==
    /\ Between /\ todo # <<>> /\ Head(todo).to = "mm"
    /\ LET t == Head(todo).what
           r == IF t = NoTrade THEN MakerOnTick ELSE MakerOnTrade(t)
       IN  mm' = r.state /\ calls' = r.calls
    /\ todo' = Tail(todo)
    /\ UNCHANGED <<vars, riskVars, cfg, mom, pending, session, took>>

RunMomentum ==
    /\ Between /\ todo # <<>> /\ Head(todo).to = "mom"
    /\ LET t == Head(todo).what
           r == IF t = NoTrade THEN MomentumOnTick ELSE MomentumOnTrade(t)
       IN  mom' = r.state /\ calls' = r.calls
    /\ todo' = Tail(todo)
    /\ UNCHANGED <<vars, riskVars, cfg, mm, pending, session, took>>

(* The engine calls.  submit of the risk engine: refused, or handed on.    *)
SubmitToRisk(o) == RiskReject(o) \/ Forward(o)

CallEngine ==
    /\ pc = "idle" /\ calls # <<>>
    /\ \/ Head(calls).do = "cancel" /\ CancelThroughRisk(Head(calls).id)
       \/ Head(calls).do = "submit" /\ SubmitToRisk(Head(calls).order)
    /\ calls' = Tail(calls)
    /\ UNCHANGED <<cfg, mm, mom, pending, todo, session, took>>

EngineRuns ==
    /\ MatchUnderRisk
    /\ pending' = IF event'.kind = "trade" THEN Append(pending, event') ELSE pending
    /\ took' = IF event'.kind = "trade" /\ incoming.owner = Maker
               THEN took \union {incoming.id} ELSE took
    /\ UNCHANGED <<cfg, mm, mom, todo, calls, session>>

EngineReturns ==
    /\ ReturnThroughRisk
    /\ mm' = Tracked
    /\ UNCHANGED <<cfg, mom, pending, todo, calls, session, took>>

(* Another client of the same engine, between two ticks.                   *)
OtherSubmits(o) ==
    /\ Between /\ session.at = "tick" /\ session.others < cfg.others
    /\ SubmitToRisk([id |-> FirstId(Other) + session.others, owner |-> Other,
                     side |-> o.side, limit |-> o.limit, quantity |-> o.quantity])
    /\ session' = [session EXCEPT !.others = @ + 1]
    /\ UNCHANGED <<cfg, mm, mom, pending, todo, calls, took>>

SessionOver ==
    /\ Between /\ session.at = "tick" /\ session.tick = Ticks
    /\ UNCHANGED <<vars, riskVars, runnerVars>>

RunnerNext ==
    \/ StartTick \/ Drain \/ TickEnds
    \/ RunMaker \/ RunMomentum
    \/ CallEngine \/ EngineRuns \/ EngineReturns
    \/ \E o \in OtherOrders : OtherSubmits(o)
    \/ SessionOver

RunnerSpec == RunnerInit /\ [][RunnerNext]_<<vars, riskVars, runnerVars>>

-----------------------------------------------------------------------------
(* Properties.                                                             *)

MakersOrders == {s \in Resting(book) : book.order[s].owner = Maker}

(* A trade that took order id off the book and that the maker has not been *)
(* told of yet.                                                            *)
RemovalUndelivered(id) ==
    LET says(t) == t # NoTrade /\ t.removed /\ id \in {t.buy, t.sell}
    IN  \/ \E i \in DOMAIN pending : says(pending[i])
        \/ \E i \in DOMAIN todo : todo[i].to = "mm" /\ says(todo[i].what)

(* The two ids the maker remembers are all it knows of the book, and the   *)
(* trades reach it late.  Whenever no handler is running, an order it has  *)
(* in the book is one it remembers, so that the next requote pulls it;     *)
(* and an id it remembers rests, or the trade that removed it is still to  *)
(* be delivered.  The exception is an order that traded on arrival: its    *)
(* trade's resting_order_removed speaks of the other order, and on_trade   *)
(* forgets a quote of its own that still rests.  In a session of the       *)
(* runner, where nobody else rests orders, that never happens.             *)
QuotesTracked ==
    Between =>
        /\ \A s \in MakersOrders : book.order[s].id \in {mm.bid, mm.ask} \union took
        /\ \A id \in {mm.bid, mm.ask} \ {0} :
              \/ \E s \in MakersOrders : book.order[s].id = id
              \/ RemovalUndelivered(id)
        /\ cfg.others = 0 => took = {}

Quoted(side, limit) ==
    \E s \in MakersOrders : /\ book.order[s].side = side
                            /\ book.order[s].price = limit
                            /\ book.order[s].quantity = cfg.quote

(* MarketMakerStrategy.hpp: "it keeps a live two-sided quote at all        *)
(* times".  In a session of the runner, at the end of every tick: however  *)
(* the probes and the momentum orders hit the quotes and in whatever order *)
(* the trades were dispatched, the book holds the maker's bid and ask at   *)
(* full size around the current reference, and nothing else.               *)
SettledTwoSided ==
    Between /\ session.at = "tick" /\ cfg.others = 0 /\ mm.quoting =>
        /\ Quoted("Buy", mm.ref - cfg.spread)
        /\ Quoted("Sell", mm.ref + cfg.spread)
        /\ Cardinality(Resting(book)) = 2

(* A momentum order causes a trade that feeds the signal that sends the    *)
(* next momentum order.  In a session of the runner the cascade of a tick  *)
(* dies out by itself, at the latest when the trades of this tick fill the *)
(* window; so the settle loop's cut-off is never what ends it, and no      *)
(* trade is left over for the next tick or lost at the end.                *)
CascadeSettles ==
    cfg.others = 0 =>
        /\ session.guard <= cfg.lookback + 1
        /\ session.at = "tick" => pending = <<>>
=============================================================================
