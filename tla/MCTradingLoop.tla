--------------------------- MODULE MCTradingLoop ---------------------------
(* Small instances of TradingLoop for TLC.                                 *)
EXTENDS TradingLoop, TLC

\* Trades of the quantities in Q, stopped one tick away and taken two away; a
\* quantity of zero is a stand-down.
PlansOf(Q) == {[qty |-> q, stopDist |-> 1, takeDist |-> 2] : q \in Q}
UnitPlan == PlansOf({1})
UnitOrStandDown == PlansOf(0..1)

\* A funding rate of either sign.
SignedRates == {-1, 1}

\* The assets are interchangeable: no operator orders them.
AssetSymmetry == Permutations(Assets)
=============================================================================
