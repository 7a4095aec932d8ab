----------------------------- MODULE RiskEngine -----------------------------
(* RiskEngine (risk/risk_engine.cpp) wrapped around the matching engine:   *)
(* the pre-trade checks on the incoming order alone, then the engine's own *)
(* submit, then the update of the band's reference price.  price_band_pct  *)
(* is the fraction BandNum / BandDen; llround of a positive product rounds *)
(* halves up.                                                              *)
EXTENDS MatchingEngine

CONSTANTS BandNum, BandDen,   \* price_band_pct, 0 when no band is configured
          InitialReference,   \* initial_reference_price
          MaxOrderQty,        \* max_order_qty
          TickSize            \* tick_size, 0 when not configured

ASSUME RiskConfigAssumption ==
    /\ BandNum \in Nat /\ BandDen \in Nat \ {0}
    /\ InitialReference \in Nat /\ MaxOrderQty \in Nat /\ TickSize \in Nat

VARIABLES reference,   \* reference_price_
          lastTrade    \* history: price of the exchange's latest trade, or the seed

riskVars == <<reference, lastTrade>>

RiskInit ==
    /\ Init
    /\ reference = InitialReference
    /\ lastTrade = InitialReference

-----------------------------------------------------------------------------
Abs(x) == IF x < 0 THEN -x ELSE x

CheckFatFinger(qty) == qty <= MaxOrderQty

(* Mutated forms of the next two checks; nothing uses them.                *)
CheckTickSizeBuysOnly(o) == o.side = "Buy" => o.limit % TickSize = 0

CheckTickSize(o) == TickSize > 0 => o.limit % TickSize = 0

Allowance == (2 * reference * BandNum + BandDen) \div (2 * BandDen)

CheckPriceBand(o) ==
    BandNum > 0 /\ reference > 0 => Abs(o.limit - reference) <= Allowance

(* run_checks: a market order has no price to check.                       *)
RunChecks(o) ==
    IF ~CheckFatFinger(o.quantity) THEN "QuantityTooLarge"
    ELSE IF o.limit # NoLimit /\ ~CheckTickSize(o) THEN "TickSizeMisaligned"
    ELSE IF o.limit # NoLimit /\ ~CheckPriceBand(o) THEN "PriceOutOfBand"
    ELSE "Accepted"

RiskReject(o) ==
    /\ pc = "idle"
    /\ RunChecks(o) # "Accepted"
    /\ event' = NoEvent
    /\ UNCHANGED <<bookVars, lastAcceptedId, callVars, stpPolicy, riskVars>>

Forward(o) ==
    /\ RunChecks(o) = "Accepted"
    /\ SubmitRejected(o) \/ SubmitAccepted(o)
    /\ UNCHANGED riskVars

(* Mutated form of the reference update; nothing uses it.                  *)
FirstTradePrice == IF trades = <<>> THEN reference ELSE Head(trades).price

(* update_reference_from: the last trade of the call.                      *)
UpdatedReference ==
    IF trades = <<>> THEN reference ELSE trades[Len(trades)].price

ReturnThroughRisk ==
    /\ Return
    /\ reference' = UpdatedReference
    /\ UNCHANGED lastTrade

MatchUnderRisk ==
    /\ CancelOwn \/ Fill \/ \E p \in Prices : FetchLevel(p)
    /\ lastTrade' = IF event'.kind = "trade" THEN event'.price ELSE lastTrade
    /\ UNCHANGED reference

CancelThroughRisk(id) ==
    /\ CancelUnknown(id) \/ CancelResting(id)
    /\ UNCHANGED riskVars

RiskNext ==
    \/ \E o \in Submits : RiskReject(o) \/ Forward(o)
    \/ MatchUnderRisk
    \/ ReturnThroughRisk
    \/ \E id \in OrderIds : CancelThroughRisk(id)

RiskSpec == RiskInit /\ [][RiskNext]_<<vars, riskVars>>

-----------------------------------------------------------------------------
(* Properties.                                                             *)

(* Between two calls the band's reference is the price of the latest trade *)
(* on the exchange (the seed before the first one), however many trades,   *)
(* rejections and cancels the calls so far have caused.                    *)
ReferenceIsLastTrade == pc = "idle" => reference = lastTrade

(* Everything that rests has passed the checks: its price is on a tick and *)
(* its remainder within the ceiling; so is every reference derived from it.*)
RestingWithinLimits ==
    /\ \A s \in Resting(book) :
         /\ TickSize > 0 => book.order[s].price % TickSize = 0
         /\ book.order[s].quantity <= MaxOrderQty
    /\ TickSize > 0 /\ lastTrade # InitialReference => lastTrade % TickSize = 0
=============================================================================
