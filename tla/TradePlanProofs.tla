--------------------------- MODULE TradePlanProofs ---------------------------
(***************************************************************************)
(* Theorems about TradePlan, for all coins, rates, ATRs and equities.      *)
(***************************************************************************)
EXTENDS TradePlan, TLAPS

-----------------------------------------------------------------------------
(* The tables and the arithmetic.                                          *)

\* No row of the playbook is for a crisis (playbook_multiplier()).
LEMMA NoCrisisRow ==
    ASSUME NEW r, r.vol = "CRISIS"
    PROVE  Multiplier(r) = 0
BY DEF Multiplier

\* A row of the playbook is a natural number (playbook_multiplier()).
LEMMA MultiplierType ==
    ASSUME NEW r
    PROVE  Multiplier(r) \in Nat
BY DEF Multiplier

\* What a quotient bounds, multiplied back.
LEMMA DivideBack ==
    ASSUME NEW n \in Nat, NEW d \in Nat \ {0}, NEW l \in Nat, l <= n \div d
    PROVE  l * d <= n
<1>1. (n \div d) * d <= n
  BY SMT
<1> QED
  BY <1>1, SMT

\* A product with a factor of zero.
LEMMA NoRisk ==
    ASSUME PlanAssumption, TypeOK, regime.vol = "CRISIS"
    PROVE  Risk = 0
<1>1. Multiplier(regime) = 0
  BY NoCrisisRow
<1>2. market.equity \in Int /\ market.scale \in Int /\ TierRisk(Tier[asset]) \in Int
  BY DEF TypeOK, PlanAssumption, TierRisk
<1>3. Least(market.scale, VolScaleCap) \in Int
  BY <1>2 DEF Least, VolScaleCap
<1>4. \A a, b, c \in Int : a * b * 0 * c = 0
  BY SMT
<1> QED
  BY <1>1, <1>2, <1>3, <1>4 DEF Risk

\* The risk is a whole number, the caps are positive, the distances are lengths.
LEMMA RiskType ==
    ASSUME PlanAssumption, TypeOK
    PROVE  Risk \in Int
<1>1. market.equity \in Int /\ market.scale \in Int /\ TierRisk(Tier[asset]) \in Int
  BY DEF TypeOK, PlanAssumption, TierRisk
<1>2. Least(market.scale, VolScaleCap) \in Int /\ Multiplier(regime) \in Int
  BY <1>1, MultiplierType DEF Least, VolScaleCap
<1> QED
  BY <1>1, <1>2 DEF Risk

\* The safety cap is one too, and nothing is divided by zero.
LEMMA LiqSafetyType ==
    ASSUME PlanAssumption, NEW a \in Assets, NEW stop \in Nat
    PROVE  /\ 8 * Venue[a] * stop + 1000 \in Nat \ {0}
           /\ 2000000 * Venue[a] \in Nat
           /\ LiqSafety(a, stop) \in Nat
<1>1. Venue[a] \in Nat
  BY DEF PlanAssumption
<1>2. PICK v \in Nat : v = Venue[a]
  BY <1>1
<1>3. 8 * v * stop + 1000 \in Nat \ {0} /\ 2000000 * v \in Nat
  <2>1. v * stop \in Nat
    BY SMT
  <2>2. 8 * v * stop = 8 * (v * stop)
    BY SMT
  <2> QED
    BY <2>1, <2>2, SMT
<1>4. \A n \in Nat, d \in Nat \ {0} : n \div d \in Nat
  BY SMT
<1> QED
  BY <1>2, <1>3, <1>4, SMT DEF LiqSafety

\* The three caps of choose_leverage() are natural numbers.
LEMMA CapsType ==
    ASSUME PlanAssumption, TypeOK, NEW a \in Assets, NEW stop \in Nat
    PROVE  Caps(a, stop) \in Nat /\ Caps(a, stop) <= LiqSafety(a, stop)
<1>1. LiqSafety(a, stop) \in Nat /\ 1000 * Venue[a] \in Nat
  BY LiqSafetyType DEF PlanAssumption
<1>2. Operational(Tier[a]) \in Nat
  BY DEF Operational, TierCap, TypeOK, PlanAssumption, NotGiven
<1> QED
  BY <1>1, <1>2 DEF Caps, Least

\* So is the distance of the stop (derive_stops_takes()).
LEMMA StopType ==
    ASSUME PlanAssumption, TypeOK, regime \in RegimeTag
    PROVE  /\ AtrMultiple(Tier[asset], regime) * market.atr \in Nat
           /\ RMultiple(regime) \in Nat
<1>1. Tier[asset] \in {"T1", "T2", "T3", "T4"} /\ market.atr \in Nat
  BY DEF TypeOK, PlanAssumption
<1>2. AtrMultiple(Tier[asset], regime) \in Nat
  BY <1>1 DEF AtrMultiple
<1>3. \A m, n \in Nat : m * n \in Nat
  BY SMT
<1>4. regime.trend \in {"UP", "DOWN", "RANGE"}
  BY DEF RegimeTag, Trends
<1>5. RMultiple(regime) \in Nat
  BY <1>4 DEF RMultiple, TailWind
<1> QED
  BY <1>1, <1>2, <1>3, <1>5

\* The drag grows with the leverage (choose_leverage()).
LEMMA DragGrows ==
    ASSUME PlanAssumption, TypeOK, NEW l \in Nat, NEW m \in Nat, l <= m
    PROVE  Drag(l) \in Nat /\ Drag(m) \in Nat /\ Drag(l) <= Drag(m)
<1>0. market.rate \in Int /\ HoldHours \in Nat
  <2>1. market.rate \in Rates
    BY DEF TypeOK
  <2> QED
    BY <2>1 DEF PlanAssumption
<1>1. Abs(market.rate) \in Nat /\ Intervals \in Nat
  BY <1>0 DEF Abs, Intervals, Most
<1>2. \A x, y, z \in Nat : x * y * z \in Nat
  BY SMT
<1>3. \A x, y, z \in Nat : x <= y => x * z <= y * z
  BY SMT
<1>4. PICK r \in Nat, i \in Nat : r = Abs(market.rate) /\ i = Intervals
  BY <1>1
<1>5. l * r \in Nat /\ m * r \in Nat /\ l * r <= m * r
  BY <1>3, SMT
<1>6. l * r * i <= m * r * i
  BY <1>3, <1>5
<1> QED
  BY <1>2, <1>4, <1>6 DEF Drag

-----------------------------------------------------------------------------
(* The invariant.                                                          *)

\* What a crisis is: the asset's own, BTC's, or BTC falling in expanded
\* volatility while the asset does not.
Crisis ==
    \/ market.vol = "CRISIS"
    \/ /\ asset # "BTC"
       /\ \/ btc.vol = "CRISIS"
          \/ btc.trend = "DOWN" /\ btc.vol = "EXPANDED" /\ market.trend # "DOWN"

\* Whatever the classification tagged as a crisis is still so tagged after the
\* override, and has no size; the leverage is at its caps or was cut because
\* the drag of the leverage before was too high.
PlanInv ==
    /\ TypeOK
    /\ pc \in {"classified", "tagged"} => regime \in RegimeTag
    /\ pc = "classified" =>
           regime.vol = market.vol /\ regime.trend = market.trend
    /\ pc = "tagged" /\ Crisis => regime.vol = "CRISIS"
    /\ pc \in Planned =>
        LET l == plan.leverage
            top == Caps(asset, plan.stop)
        IN  /\ ~Crisis
            /\ l > 1000 => l <= top
            /\ l < top /\ l # 1000 => Drag((5 * l + 5) \div 4) > DragMax
            /\ pc # "sized" => l >= 1000 /\ (l = 1000 \/ Drag(l) <= DragMax)

\* The override tags every crisis as one, and only changes what it says.
LEMMA OverrideKeeps ==
    ASSUME NEW r \in RegimeTag, NEW b \in RegimeTag \cup {NoRegime}
    PROVE  /\ Overridden(r, b) \in RegimeTag
           /\ r.vol = "CRISIS" => Overridden(r, b).vol = "CRISIS"
           /\ b.vol = "CRISIS" => Overridden(r, b).vol = "CRISIS"
           /\ b.trend = "DOWN" /\ b.vol = "EXPANDED" /\ r.trend # "DOWN" =>
                  Overridden(r, b).vol = "CRISIS"
<1>1. [r EXCEPT !.vol = "CRISIS"] \in RegimeTag
      /\ [r EXCEPT !.vol = "CRISIS"].vol = "CRISIS"
  BY DEF RegimeTag, Vols
<1>2. ASSUME b.funding \in Crowded
      PROVE  [r EXCEPT !.funding = b.funding] \in RegimeTag
             /\ [r EXCEPT !.funding = b.funding].vol = r.vol
  BY <1>2 DEF RegimeTag, Fundings, Crowded
<1> QED
  BY <1>1, <1>2 DEF Overridden

\* The tags of the asset's own bars are a regime (classify()).
LEMMA LocalType ==
    ASSUME TypeOK
    PROVE  Local \in RegimeTag /\ Local.vol = market.vol /\ Local.trend = market.trend
<1>1. market.trend \in Trends /\ market.vol \in Vols
  BY DEF TypeOK
<1>2. FundingTag(market.rate, Tier[asset]) \in Fundings
  BY DEF FundingTag, Sign, Fundings
<1> QED
  BY <1>1, <1>2 DEF Local, RegimeTag

\* Every step of _enter_sized() keeps the invariant.
LEMMA PlanStep ==
    ASSUME PlanAssumption, PlanInv, [Next]_vars
    PROVE  PlanInv'
<1>1. TypeOK
  BY DEF PlanInv
<1>2. CASE RefuseEarly \/ StandDown \/ Refuse
  <2>1. pc' = "vetoed" /\ UNCHANGED <<asset, side, market, btc, ceiling, regime, plan>>
    BY <1>2 DEF RefuseEarly, StandDown, Refuse, Veto, input
  <2>2. TypeOK'
    BY <1>1, <2>1 DEF TypeOK, Planned
  <2> QED
    BY <2>1, <2>2 DEF PlanInv, Planned
<1>3. CASE Classify
  <2>1. /\ pc' = "classified" /\ regime' = Local
        /\ UNCHANGED <<asset, side, market, btc, ceiling, plan>>
    BY <1>3 DEF Classify, input
  <2>2. regime' \in RegimeTag /\ regime'.vol = market.vol /\ regime'.trend = market.trend
    BY <1>1, <2>1, LocalType
  <2>3. TypeOK'
    BY <1>1, <2>1, <2>2 DEF TypeOK, Planned
  <2> QED
    BY <2>1, <2>2, <2>3 DEF PlanInv, Planned
<1>4. CASE Override
  <2>1. /\ pc = "classified" /\ pc' = "tagged"
        /\ UNCHANGED <<asset, side, market, btc, ceiling, plan>>
        /\ regime' = IF asset # "BTC" /\ btc # NoRegime THEN Overridden(regime, btc)
                     ELSE regime
    BY <1>4 DEF Override, input
  <2>2. /\ regime \in RegimeTag /\ regime.vol = market.vol
        /\ regime.trend = market.trend /\ btc \in RegimeTag \cup {NoRegime}
    BY <1>1, <2>1 DEF PlanInv, TypeOK
  <2>3. regime' \in RegimeTag
    BY <2>1, <2>2, OverrideKeeps
  <2>4. Crisis => regime'.vol = "CRISIS"
    <3>1. btc = NoRegime => btc.vol # "CRISIS" /\ btc.trend # "DOWN"
      BY DEF NoRegime
    <3> QED
      BY <2>1, <2>2, <3>1, OverrideKeeps DEF Crisis
  <2>5. Crisis' <=> Crisis
    BY <2>1 DEF Crisis
  <2>6. TypeOK'
    BY <1>1, <2>1, <2>3 DEF TypeOK, Planned
  <2> QED
    BY <2>1, <2>3, <2>4, <2>5, <2>6 DEF PlanInv, Planned
<1>5. CASE Size
  <2> DEFINE st == AtrMultiple(Tier[asset], regime) * market.atr
  <2>1. /\ pc = "tagged" /\ Risk > 0 /\ pc' = "sized"
        /\ UNCHANGED <<asset, side, market, btc, ceiling, regime>>
        /\ plan' = [qty |-> Risk, stop |-> st, take |-> (RMultiple(regime) * st) \div 10,
                    leverage |-> Caps(asset, st)]
    BY <1>5 DEF Size, input
  <2>2. regime \in RegimeTag /\ asset \in Assets
    BY <1>1, <2>1 DEF PlanInv, TypeOK
  <2>3. st \in Nat /\ RMultiple(regime) \in Nat
    BY <1>1, <2>2, StopType
  <2>4. Risk \in Nat \ {0}
    BY <1>1, <2>1, RiskType
  <2> HIDE DEF st
  <2>5. Caps(asset, st) \in Nat
    BY <1>1, <2>2, <2>3, CapsType
  <2>6. (RMultiple(regime) * st) \div 10 \in Nat
    <3>1. \A m, n \in Nat : (m * n) \div 10 \in Nat
      BY SMT
    <3> QED
      BY <2>3, <3>1
  <2>7. plan' \in [qty : Nat, stop : Nat, take : Nat, leverage : Nat] /\ plan'.qty > 0
    BY <2>1, <2>3, <2>4, <2>5, <2>6
  <2>8. TypeOK'
    BY <1>1, <2>1, <2>7 DEF TypeOK, Planned
  <2>9. ~Crisis
    BY <1>1, <2>1, NoRisk DEF PlanInv
  <2>10. ~Crisis'
    BY <2>1, <2>9 DEF Crisis
  <2>11. plan'.leverage = Caps(asset, plan'.stop) /\ Caps(asset, plan'.stop) \in Nat
    BY <2>1, <2>5
  <2>12. Caps(asset, plan.stop)' = Caps(asset, plan'.stop)
    BY <2>1 DEF Caps, LiqSafety, Operational
  <2> QED
    BY <2>1, <2>8, <2>10, <2>11, <2>12 DEF PlanInv, Planned
<1>6. CASE Reduce \/ Floor
  <2> DEFINE l == plan.leverage
             top == Caps(asset, plan.stop)
  <2>1. /\ pc = "sized" /\ UNCHANGED <<asset, side, market, btc, ceiling, regime>>
        /\ \/ /\ Drag(l) > DragMax /\ l > 1000 /\ pc' = "sized"
              /\ plan' = [plan EXCEPT !.leverage = (4 * @) \div 5]
           \/ /\ Drag(l) <= DragMax \/ l <= 1000
              /\ pc' = "geared"
              /\ plan' = [plan EXCEPT !.leverage = Most(@, 1000)]
    BY <1>6 DEF Reduce, Floor, input
  <2>2. plan \in [qty : Nat, stop : Nat, take : Nat, leverage : Nat] /\ l \in Nat
    BY <1>1 DEF TypeOK
  <2>0. PICK m : m = plan'.leverage
    OBVIOUS
  <2>3. /\ \/ Drag(l) > DragMax /\ l > 1000 /\ pc' = "sized" /\ m = (4 * l) \div 5
           \/ (Drag(l) <= DragMax \/ l <= 1000) /\ pc' = "geared" /\ m = Most(l, 1000)
        /\ m \in Nat /\ plan'.stop = plan.stop /\ plan'.qty = plan.qty
        /\ plan' \in [qty : Nat, stop : Nat, take : Nat, leverage : Nat]
    BY <2>0, <2>1, <2>2 DEF Most
  <2>4. TypeOK'
    BY <1>1, <2>1, <2>3 DEF TypeOK, Planned
  <2>5. ~Crisis /\ (Crisis' <=> Crisis)
    BY <2>1 DEF PlanInv, Planned, Crisis
  <2>6. /\ l > 1000 => l <= top
        /\ l < top /\ l # 1000 => Drag((5 * l + 5) \div 4) > DragMax
    BY <2>1 DEF PlanInv, Planned
  <2>7. top \in Nat
    BY <1>1, <2>2, CapsType DEF TypeOK
  <2>8. Caps(asset, plan.stop)' = top
    BY <2>1, <2>3 DEF Caps, LiqSafety, Operational
  <2>9. /\ Drag(plan.leverage)' = Drag(m)
        /\ Drag((5 * plan.leverage + 5) \div 4)' = Drag((5 * m + 5) \div 4)
    BY <2>0, <2>1 DEF Drag, Intervals
  <2>10. m > 1000 => m <= top
    BY <2>2, <2>3, <2>6, <2>7 DEF Most
  <2>11. m < top /\ m # 1000 => Drag((5 * m + 5) \div 4) > DragMax
    <3>1. CASE Drag(l) > DragMax /\ m = (4 * l) \div 5
      <4>1. (5 * m + 5) \div 4 \in Nat /\ l <= (5 * m + 5) \div 4
        BY <2>2, <2>3, <3>1
      <4>2. Drag(l) <= Drag((5 * m + 5) \div 4) /\ Drag((5 * m + 5) \div 4) \in Nat
            /\ Drag(l) \in Nat
        BY <1>1, <2>2, <4>1, DragGrows
      <4> QED
        BY <3>1, <4>2, SMT DEF DragMax
    <3>2. CASE m = Most(l, 1000)
      BY <2>2, <2>6, <3>2 DEF Most
    <3> QED
      BY <2>3, <3>1, <3>2
  <2>12. pc' # "sized" => m >= 1000 /\ (m = 1000 \/ Drag(m) <= DragMax)
    BY <2>2, <2>3 DEF Most
  <2>13. pc' \in {"sized", "geared"}
    BY <2>1
  <2> HIDE DEF top
  <2> QED
    BY <2>0, <2>4, <2>5, <2>8, <2>9, <2>10, <2>11, <2>12, <2>13, SMT DEF PlanInv, Planned
<1>7. CASE Approve
  <2>1. /\ pc = "geared" /\ pc' = "filled"
        /\ UNCHANGED <<asset, side, market, btc, ceiling, regime, plan>>
    BY <1>7 DEF Approve, input
  <2>2. TypeOK'
    BY <1>1, <2>1 DEF TypeOK, Planned
  <2>3. \A n : Drag(n)' = Drag(n)
    BY <2>1 DEF Drag, Intervals
  <2>4. Caps(asset, plan.stop)' = Caps(asset, plan.stop) /\ (Crisis' <=> Crisis)
    BY <2>1 DEF Caps, LiqSafety, Operational, Crisis
  <2> QED
    BY <2>1, <2>2, <2>3, <2>4 DEF PlanInv, Planned
<1>8. CASE UNCHANGED vars
  <2>1. UNCHANGED <<asset, side, market, btc, ceiling, pc, regime, plan>>
    BY <1>8 DEF vars, input
  <2>2. TypeOK'
    BY <1>1, <2>1 DEF TypeOK, Planned
  <2>3. \A n : Drag(n)' = Drag(n)
    BY <2>1 DEF Drag, Intervals
  <2>4. Caps(asset, plan.stop)' = Caps(asset, plan.stop) /\ (Crisis' <=> Crisis)
    BY <2>1 DEF Caps, LiqSafety, Operational, Crisis
  <2> QED
    BY <2>1, <2>2, <2>3, <2>4 DEF PlanInv, Planned
<1> QED
  BY <1>2, <1>3, <1>4, <1>5, <1>6, <1>7, <1>8 DEF Next

\* The invariant holds throughout the pipeline.
LEMMA PlanInvariant ==
    ASSUME PlanAssumption
    PROVE  Spec => []PlanInv
<1>1. Init => PlanInv
  <2>1. ASSUME Init
        PROVE  TypeOK
    <3>1. plan \in [qty : Nat, stop : Nat, take : Nat, leverage : Nat]
      BY <2>1 DEF Init, NoPlan
    <3> QED
      BY <2>1, <3>1 DEF Init, TypeOK, Planned
  <2> QED
    BY <2>1 DEF Init, PlanInv, Planned
<1>2. PlanInv /\ [Next]_vars => PlanInv'
  BY PlanStep
<1> QED
  BY <1>1, <1>2, PTL DEF Spec

-----------------------------------------------------------------------------
(* The theorems.                                                           *)

\* Type correctness: whatever is planned has a positive size, so that the fill
\* that follows never meets a quantity of zero (_enter_sized(), open_sized()).
THEOREM PlanTypeCorrect ==
    ASSUME PlanAssumption
    PROVE  Spec => []TypeOK
<1>1. PlanInv => TypeOK
  BY DEF PlanInv
<1> QED
  BY <1>1, PlanInvariant, PTL

\* Nothing is entered in a crisis, the asset's or BTC's (_enter_sized()).
THEOREM CrisisHolds ==
    ASSUME PlanAssumption
    PROVE  Spec => []CrisisStandsDown
<1>1. PlanInv => CrisisStandsDown
  BY DEF PlanInv, Planned, CrisisStandsDown, Crisis
<1> QED
  BY <1>1, PlanInvariant, PTL

\* A geared position is stopped out before it is liquidated, for every stop,
\* venue and funding (choose_leverage()).
THEOREM StopBeforeLiquidationHolds ==
    ASSUME PlanAssumption
    PROVE  Spec => []StopBeforeLiquidation
<1>1. ASSUME PlanInv, pc = "filled", plan.leverage > 1000
      PROVE  plan.leverage * (8 * Venue[asset] * plan.stop + 1000)
                 <= 2000000 * Venue[asset]
  <2>1. asset \in Assets /\ plan.stop \in Nat /\ plan.leverage \in Nat
    BY <1>1 DEF PlanInv, TypeOK
  <2>2. plan.leverage <= LiqSafety(asset, plan.stop)
    BY <1>1, <2>1, CapsType, LiqSafetyType DEF PlanInv, Planned
  <2>3. PICK n, d, l : /\ n = 2000000 * Venue[asset] /\ l = plan.leverage
                      /\ d = 8 * Venue[asset] * plan.stop + 1000
    OBVIOUS
  <2>4. n \in Nat /\ d \in Nat \ {0} /\ l \in Nat /\ l <= n \div d
    BY <2>1, <2>2, <2>3, LiqSafetyType, SMT DEF LiqSafety
  <2>5. l * d <= n
    BY <2>4, DivideBack
  <2> QED
    BY <2>3, <2>5, SMT
<1>2. PlanInv => StopBeforeLiquidation
  BY <1>1, SMT DEF StopBeforeLiquidation
<1> QED
  BY <1>2, PlanInvariant, PTL

\* Funding takes a fifth of the margin at most, and the leverage is not cut
\* further than that asks for (choose_leverage()).
THEOREM DragBoundedHolds ==
    ASSUME PlanAssumption
    PROVE  Spec => []DragBounded
<1>1. ASSUME PlanInv, pc = "filled"
      PROVE  DragBounded
  <2>1. plan.leverage \in Nat /\ Caps(asset, plan.stop) \in Nat
    BY <1>1, CapsType DEF PlanInv, TypeOK
  <2>2. plan.leverage >= Least(Caps(asset, plan.stop), 1000)
    BY <1>1, <2>1 DEF PlanInv, Planned, Least
  <2> QED
    BY <1>1, <2>1, <2>2 DEF PlanInv, Planned, DragBounded
<1>2. PlanInv => DragBounded
  BY <1>1 DEF DragBounded
<1> QED
  BY <1>2, PlanInvariant, PTL
=============================================================================
