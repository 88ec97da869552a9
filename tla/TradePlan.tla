----------------------------- MODULE TradePlan -----------------------------
(***************************************************************************)
(* How one decision to enter becomes a plan: _enter_sized() of cli/run.py  *)
(* from its first veto to the gate, with the regime of the asset and of    *)
(* BTC (core/regime.py), the stop and take (core/stops.py), the size       *)
(* (core/sizing.py) and the leverage (core/leverage.py).                   *)
(*                                                                         *)
(* The indicators are abstracted to what is made of them: the trend and    *)
(* the volatility tag, the ATR and the scale of the volatility target.     *)
(* Arithmetic is in fixed point: a price in hundredths of the mark, a      *)
(* multiplier in tenths, a rate of funding in 1/100000 per hour, leverage  *)
(* in thousandths, rounded down.  What the gate thinks of the portfolio is *)
(* in TradingLoop: here it approves or refuses.                            *)
(***************************************************************************)
EXTENDS Integers

CONSTANTS
    Assets,     \* the coins considered
    Tier,       \* classify_tier()
    Venue,      \* venue_max_leverage()
    Rates,      \* rates of funding
    Atrs,       \* ATR(14), in hundredths of the mark
    Scales,     \* vol_target / realized_vol, in tenths
    Equities,   \* equity_usd(), of either sign
    HoldHours,  \* --hold-hours
    MaxLeverages \* values of --max-leverage considered, in thousandths

ASSUME PlanAssumption ==
    /\ Tier \in [Assets -> {"T1", "T2", "T3", "T4"}]
    /\ Venue \in [Assets -> Nat \ {0}]
    /\ Rates \subseteq Int /\ Atrs \subseteq Nat \ {0} /\ Scales \subseteq Nat
    /\ Equities \subseteq Int /\ HoldHours \in Nat
    /\ MaxLeverages \subseteq Nat

VARIABLES
    asset, side,    \* the decision
    market,         \* what the snapshot shows of the asset
    btc,            \* _compute_btc_regime(); NoRegime without bars of BTC
    ceiling,        \* --max-leverage; NotGiven without it
    pc,             \* the step of the pipeline
    regime,         \* the regime the plan is made for
    plan            \* the plan so far

input == <<asset, side, market, btc, ceiling>>
vars == <<input, pc, regime, plan>>

Trends == {"UP", "DOWN", "RANGE"}
Vols == {"COMPRESSED", "NORMAL", "EXPANDED", "CRISIS"}
Fundings == {"EXTREME_NEG", "BEAR_BIAS", "NEUTRAL", "BULL_BIAS", "EXTREME_POS"}
RegimeTag == [trend : Trends, vol : Vols, funding : Fundings]
NoRegime == [trend |-> "none", vol |-> "none", funding |-> "none"]
Sides == {"long", "short"}
NoPlan == [qty |-> 0, stop |-> 0, take |-> 0, leverage |-> 0]
NotGiven == -1

\* The steps at which there is a plan.
Planned == {"sized", "geared", "filled"}

TypeOK ==
    /\ asset \in Assets /\ side \in Sides \cup {"none"}
    /\ market \in [trend : Trends, vol : Vols, rate : Rates, atr : Atrs,
                   scale : Scales, equity : Equities]
    /\ btc \in RegimeTag \cup {NoRegime}
    /\ ceiling \in MaxLeverages \cup {NotGiven}
    /\ pc \in {"decided", "classified", "tagged", "vetoed"} \cup Planned
    /\ regime \in RegimeTag \cup {NoRegime}
    /\ plan \in [qty : Nat, stop : Nat, take : Nat, leverage : Nat]
    /\ pc \in Planned => plan.qty > 0

Abs(n) == IF n < 0 THEN -n ELSE n
Least(a, b) == IF a <= b THEN a ELSE b
Most(a, b) == IF a >= b THEN a ELSE b
-----------------------------------------------------------------------------
(* core/regime.py                                                          *)

\* The bins of a tier: the rates at which the neutral and the biased one end.
Bins(tier) ==
    CASE tier = "T1" -> [neutral |-> 10, extreme |-> 50]
      [] tier = "T2" -> [neutral |-> 20, extreme |-> 80]
      [] OTHER -> [neutral |-> 40, extreme |-> 150]

Sign(rate, pos, neg) == IF rate > 0 THEN pos ELSE neg

FundingTag(rate, tier) ==
    IF Abs(rate) < Bins(tier).neutral THEN "NEUTRAL"
    ELSE IF Abs(rate) < Bins(tier).extreme
           THEN Sign(rate, "BULL_BIAS", "BEAR_BIAS")
           ELSE Sign(rate, "EXTREME_POS", "EXTREME_NEG")

\* classify() of the asset's own bars.
Local ==
    [trend |-> market.trend, vol |-> market.vol,
     funding |-> FundingTag(market.rate, Tier[asset])]

Crowded == {"EXTREME_POS", "EXTREME_NEG"}

\* Mutant: a crisis of BTC counts only while BTC falls.
OverriddenWhenFalling(r, b) ==
    IF b.trend = "DOWN" /\ b.vol \in {"CRISIS", "EXPANDED"} /\ r.trend # "DOWN"
    THEN [r EXCEPT !.vol = "CRISIS"]
    ELSE IF b.funding \in Crowded /\ r.funding \notin Crowded
         THEN [r EXCEPT !.funding = b.funding]
         ELSE r

\* apply_btc_override(): the first rule that applies.
Overridden(r, b) ==
    IF \/ b.vol = "CRISIS"
       \/ b.trend = "DOWN" /\ b.vol = "EXPANDED" /\ r.trend # "DOWN"
    THEN [r EXCEPT !.vol = "CRISIS"]
    ELSE IF b.funding \in Crowded /\ r.funding \notin Crowded
         THEN [r EXCEPT !.funding = b.funding]
         ELSE r

\* The playbook, in tenths: every other combination stands down.
Multiplier(r) ==
    LET tag(t, v, f) == r = [trend |-> t, vol |-> v, funding |-> f]
    IN  CASE tag("UP", "NORMAL", "NEUTRAL")        -> 10
          [] tag("UP", "EXPANDED", "NEUTRAL")      -> 5
          [] tag("UP", "COMPRESSED", "NEUTRAL")    -> 3
          [] tag("UP", "NORMAL", "BULL_BIAS")      -> 10
          [] tag("UP", "NORMAL", "EXTREME_NEG")    -> 13
          [] tag("DOWN", "NORMAL", "NEUTRAL")      -> 10
          [] tag("DOWN", "EXPANDED", "NEUTRAL")    -> 5
          [] tag("DOWN", "NORMAL", "BEAR_BIAS")    -> 10
          [] tag("DOWN", "NORMAL", "EXTREME_POS")  -> 13
          [] tag("RANGE", "NORMAL", "NEUTRAL")     -> 7
          [] tag("RANGE", "COMPRESSED", "NEUTRAL") -> 9
          [] OTHER -> 0
-----------------------------------------------------------------------------
(* core/stops.py and core/sizing.py                                        *)

Wide(r) == r.vol \in {"EXPANDED", "CRISIS"}

\* The multiple of the ATR, in tenths.
AtrMultiple(tier, r) ==
    CASE tier = "T1" -> IF Wide(r) THEN 20 ELSE 15
      [] tier = "T2" -> IF Wide(r) THEN 25 ELSE 20
      [] tier = "T3" -> IF Wide(r) THEN 30 ELSE 20
      [] tier = "T4" -> IF Wide(r) THEN 35 ELSE 25

TailWind(r) ==
    \/ r.trend = "UP" /\ r.funding = "EXTREME_NEG"
    \/ r.trend = "DOWN" /\ r.funding = "EXTREME_POS"

\* The take as a multiple of the stop, in tenths.
RMultiple(r) ==
    CASE TailWind(r) -> 30
      [] r.trend \in {"UP", "DOWN"} /\ ~TailWind(r) -> 25
      [] r.trend = "RANGE" -> IF r.vol = "COMPRESSED" THEN 20 ELSE 15

TierRisk(tier) ==
    CASE tier = "T1" -> 100
      [] tier = "T2" -> 60
      [] tier = "T3" -> 35
      [] tier = "T4" -> 20

VolScaleCap == 25

\* Dollars at risk, up to a constant factor: the size has their sign.
Risk == market.equity * TierRisk(Tier[asset]) * Multiplier(regime)
        * Least(market.scale, VolScaleCap)
-----------------------------------------------------------------------------
(* core/leverage.py                                                        *)

TierCap(tier) ==
    CASE tier = "T1" -> 5000 [] tier \in {"T2", "T3"} -> 3000 [] OTHER -> 1500

\* _OPERATIONAL_CAP: main() puts --max-leverage in the place of every tier's.
Operational(tier) == IF ceiling = NotGiven THEN TierCap(tier) ELSE ceiling

\* 1 / (4 * stop + 1 / (2 * venue)): with a stop in thousandths of the mark.
LiqSafety(a, stop) == (2000000 * Venue[a]) \div (8 * Venue[a] * stop + 1000)

\* Mutant: the safety cap is left out.
CapsWithoutLiq(a, stop) == Least(1000 * Venue[a], Operational(Tier[a]))

Caps(a, stop) ==
    Least(1000 * Venue[a], Least(Operational(Tier[a]), LiqSafety(a, stop)))

Intervals == Most(1, HoldHours)

DragMax == 20000000     \* 0.20 of the margin

Drag(leverage) == leverage * Abs(market.rate) * Intervals
-----------------------------------------------------------------------------
(* _enter_sized(), step by step.                                           *)

Init ==
    /\ asset \in Assets /\ side \in Sides \cup {"none"}
    /\ market \in [trend : Trends, vol : Vols, rate : Rates, atr : Atrs,
                   scale : Scales, equity : Equities]
    /\ btc \in RegimeTag \cup {NoRegime}
    /\ asset = "BTC" => btc \in {Local, NoRegime}
    /\ ceiling \in MaxLeverages \cup {NotGiven}
    /\ pc = "decided"
    /\ regime = NoRegime
    /\ plan = NoPlan

Veto ==
    /\ pc' = "vetoed"
    /\ UNCHANGED <<input, regime, plan>>

\* No side; no forecast on the board, too few bars, or indicators that raise:
\* the rest of the input does not show which.
RefuseEarly == pc = "decided" /\ Veto

Classify ==
    /\ pc = "decided" /\ side # "none"
    /\ regime' = Local
    /\ pc' = "classified"
    /\ UNCHANGED <<input, plan>>

\* Without a regime of BTC there is no override.
Override ==
    /\ pc = "classified"
    /\ regime' = IF asset # "BTC" /\ btc # NoRegime
                   THEN Overridden(regime, btc)
                   ELSE regime
    /\ pc' = "tagged"
    /\ UNCHANGED <<input, plan>>

\* Mutant: a plan without a size is not stopped.
SizeNoStandDown ==
    /\ pc = "tagged"
    /\ plan' = LET stop == AtrMultiple(Tier[asset], regime) * market.atr
               IN  [qty |-> Risk, stop |-> stop,
                    take |-> (RMultiple(regime) * stop) \div 10,
                    leverage |-> Caps(asset, stop)]
    /\ pc' = "sized"
    /\ UNCHANGED <<input, regime>>

\* size(): the distances, the quantity, and the leverage the caps allow.
Size ==
    /\ pc = "tagged" /\ Risk > 0
    /\ plan' = LET stop == AtrMultiple(Tier[asset], regime) * market.atr
               IN  [qty |-> Risk, stop |-> stop,
                    take |-> (RMultiple(regime) * stop) \div 10,
                    leverage |-> Caps(asset, stop)]
    /\ pc' = "sized"
    /\ UNCHANGED <<input, regime>>

\* The playbook stands down, or the equity is gone.
StandDown == pc = "tagged" /\ Risk <= 0 /\ Veto

\* Mutant: the drag is that of the first leverage for ever.
ReduceStaleDrag ==
    /\ pc = "sized"
    /\ Drag(Caps(asset, plan.stop)) > DragMax /\ plan.leverage > 1000
    /\ plan' = [plan EXCEPT !.leverage = (4 * @) \div 5]
    /\ UNCHANGED <<input, pc, regime>>

\* One round of the loop of choose_leverage().
Reduce ==
    /\ pc = "sized"
    /\ Drag(plan.leverage) > DragMax /\ plan.leverage > 1000
    /\ plan' = [plan EXCEPT !.leverage = (4 * @) \div 5]
    /\ UNCHANGED <<input, pc, regime>>

\* The loop ends; leverage is never below one.
Floor ==
    /\ pc = "sized"
    /\ Drag(plan.leverage) <= DragMax \/ plan.leverage <= 1000
    /\ plan' = [plan EXCEPT !.leverage = Most(@, 1000)]
    /\ pc' = "geared"
    /\ UNCHANGED <<input, regime>>

\* The gate, on the cost of the sized notional.
Approve ==
    /\ pc = "geared"
    /\ pc' = "filled"
    /\ UNCHANGED <<input, regime, plan>>

Refuse == pc = "geared" /\ Veto

Next ==
    \/ RefuseEarly \/ Classify \/ Override
    \/ Size \/ StandDown \/ Reduce \/ Floor
    \/ Approve \/ Refuse

Spec == Init /\ [][Next]_vars
-----------------------------------------------------------------------------
(* Properties.                                                             *)

\* Nothing is entered in a crisis: not the asset's own, not BTC's, and nothing
\* that does not fall itself while BTC falls in expanded volatility, as long as
\* the regime of BTC is known (core/regime.py, core/sizing.py, cli/run.py).
CrisisStandsDown ==
    pc = "filled" =>
        /\ market.vol # "CRISIS"
        /\ asset # "BTC" => btc.vol # "CRISIS"
        /\ asset # "BTC" /\ btc.trend = "DOWN" /\ btc.vol = "EXPANDED" =>
               market.trend = "DOWN"

\* A geared position is stopped out well before it would be liquidated: four
\* times the stop, and the maintenance margin, fit into the margin
\* (core/leverage.py, whatever funding does to the leverage).
StopBeforeLiquidation ==
    pc = "filled" /\ plan.leverage > 1000 =>
        plan.leverage * (8 * Venue[asset] * plan.stop + 1000)
            <= 2000000 * Venue[asset]

\* Funding takes no more than a fifth of the margin unless the leverage is one,
\* and the leverage is not cut further than that asks for: one step more
\* leverage would exceed a cap or the fifth (core/leverage.py choose_leverage).
DragBounded ==
    pc = "filled" =>
        LET l == plan.leverage
            top == Caps(asset, plan.stop)
        IN  /\ l = 1000 \/ Drag(l) <= DragMax
            /\ l >= Least(top, 1000)
            /\ l < top => Drag((5 * l + 5) \div 4) > DragMax \/ l = 1000

\* "if alt's funding is not already EXTREME, bump it one bucket toward BTC's
\* sign" (core/regime.py:163-164): an override moves the tag by one bucket.
Buckets ==
    <<"EXTREME_NEG", "BEAR_BIAS", "NEUTRAL", "BULL_BIAS", "EXTREME_POS">>
OneBucket ==
    pc = "tagged" /\ regime.funding # Local.funding =>
        \E i \in 1..4 :
            {regime.funding, Local.funding} = {Buckets[i], Buckets[i + 1]}
=============================================================================
