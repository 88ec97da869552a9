---------------------------- MODULE MCTradePlan ----------------------------
(* Small instances of TradePlan for TLC.                                   *)
EXTENDS TradePlan, TLC

Coins == {"BTC", "SOL", "SUI"}
TierOf == "BTC" :> "T1" @@ "SOL" :> "T2" @@ "SUI" :> "T4"
VenueOf == "BTC" :> 40 @@ "SOL" :> 20 @@ "SUI" :> 10

\* Both ends of the bins, a drag that asks for some steps down and for all.
SomeRates == {-1500, -60, -15, 0, 15, 300, 1500}

\* Half a percent, four and fifteen percent of the mark.
SomeAtrs == {1, 4, 15}
SomeScales == {12}
SomeEquities == {-1, 1}

\* A ceiling below the caps of the tiers and one that leaves the others to bind.
SomeCeilings == {0, 20000}
=============================================================================
