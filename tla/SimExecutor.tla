---------------------------- MODULE SimExecutor ----------------------------
(***************************************************************************)
(* The paper executor of core/execute.py, as operators on positions and    *)
(* accounts.  Prices, quantities and cash are integers: one unit of price  *)
(* is worth Bps units of cash, so that a fee of TakerBps basis points of a *)
(* notional is exact.  Slippage is a number of ticks chosen by the caller: *)
(* the code derives it from the notional and the book depth, and all that  *)
(* the properties use is that it is never negative and always adverse.     *)
(***************************************************************************)
EXTENDS Integers, Functions

CONSTANTS
    Bps,        \* cash units in one unit of price times quantity
    TakerBps    \* taker fee, in cash units per unit of notional

ASSUME BpsAssumption == Bps \in Nat \ {0}
ASSUME TakerAssumption == TakerBps \in Nat
\* A fee is not more than the notional it is charged on.
ASSUME FeeAssumption == TakerBps <= Bps

-----------------------------------------------------------------------------
(* Dictionaries: partial functions over the assets.                        *)

With(f, k, v) == [x \in DOMAIN f \cup {k} |-> IF x = k THEN v ELSE f[x]]
Without(f, k) == Restrict(f, DOMAIN f \ {k})
NoEntries == [x \in {} |-> x]

-----------------------------------------------------------------------------
(* Prices.                                                                 *)

Sides == {"long", "short"}

\* +1 for a long, -1 for a short.
Direction(side) == IF side = "long" THEN 1 ELSE -1

\* Slippage moves both fills against the trader.
EntryPrice(side, mark, slip) == mark + Direction(side) * slip

\* Mutant: slippage helps the exit.
ExitPriceFavourable(side, mark, slip) == mark + Direction(side) * slip

ExitPrice(side, mark, slip) == mark - Direction(side) * slip

-----------------------------------------------------------------------------
(* Positions.                                                              *)

\* A position just opened.  "id" is the audit id of the trade that opened it:
\* the code keeps it in SnapshotState.audit_links, here it also names the
\* position itself.
NewPosition(id, side, plan, m, slip) ==
    [id |-> id, side |-> side, qty |-> plan.qty,
     entryPrice |-> EntryPrice(side, m.mark, slip),
     entryTime |-> m.ts, lastMark |-> m.mark, lastFundingTs |-> m.ts,
     accrued |-> 0,
     stop |-> m.mark - Direction(side) * plan.stopDist,
     take |-> m.mark + Direction(side) * plan.takeDist]

\* Mutant: the funding clock is not advanced.
AccrueFundingClockStuck(pos, m) ==
    [pos EXCEPT !.lastMark = m.mark,
                !.accrued = @ - Direction(pos.side) * m.rate * pos.qty * m.mark
                                * (m.ts - pos.lastFundingTs)]

\* Longs pay and shorts receive a positive rate, for the time since the last
\* accrual; a snapshot that is not newer only moves the mark.
AccrueFunding(pos, m) ==
    LET elapsed == m.ts - pos.lastFundingTs IN
    IF elapsed <= 0
    THEN [pos EXCEPT !.lastMark = m.mark]
    ELSE [pos EXCEPT !.lastMark = m.mark,
                     !.lastFundingTs = m.ts,
                     !.accrued = @ - Direction(pos.side) * m.rate * pos.qty
                                     * m.mark * elapsed]

\* Mutant: the tick moves the mark and forgets the funding.
TickMarkOnly(pos, m) == [pos EXCEPT !.lastMark = m.mark]

\* What step() does with every open position that has a snapshot.
Tick(pos, m) ==
    IF m.ts <= pos.lastFundingTs
    THEN [pos EXCEPT !.lastMark = m.mark]
    ELSE AccrueFunding(pos, m)

\* Mutant: the short side compares the wrong way round.
StopHitLongOnly(pos, mark) == mark <= pos.stop

StopHit(pos, mark) ==
    IF pos.side = "long" THEN mark <= pos.stop ELSE mark >= pos.stop

TakeHit(pos, mark) ==
    IF pos.side = "long" THEN mark >= pos.take ELSE mark <= pos.take

-----------------------------------------------------------------------------
(* Cash.                                                                   *)

Fee(qty, price) == TakerBps * qty * price

UnrealizedPnl(pos) ==
    Bps * Direction(pos.side) * (pos.lastMark - pos.entryPrice) * pos.qty

\* The signed result of closing pos at price exit, funding included.
RealizedPnl(pos, exit) ==
    Bps * Direction(pos.side) * (exit - pos.entryPrice) * pos.qty
        + pos.accrued - Fee(pos.qty, exit)

Exposure(positions) ==
    SumFunction([a \in DOMAIN positions |->
                    positions[a].qty * positions[a].lastMark])

Equity(balance, positions) ==
    balance + SumFunction([a \in DOMAIN positions |->
                              UnrealizedPnl(positions[a]) + positions[a].accrued])
=============================================================================
