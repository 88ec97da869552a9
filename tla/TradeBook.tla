----------------------------- MODULE TradeBook -----------------------------
(***************************************************************************)
(* What the trading loop of cli/run.py promises of its trades: a book of   *)
(* open trades, at most one to an asset and at most "Limit" of them.  A    *)
(* trade is numbered when it is entered, its terms stand until it is       *)
(* closed, and the closed trades that are shown, the latest ones, carry    *)
(* the number and the terms of the very trades that were open.             *)
(***************************************************************************)
EXTENDS Naturals, FiniteSets

CONSTANTS
    Limit,      \* open trades at a time
    HistoryMax  \* closed trades that are shown

VARIABLES
    open,    \* asset -> terms of the open trade
    closed,  \* what is shown of the closed trades, the latest first
    nextId   \* number of the next trade

vars == <<open, closed, nextId>>

\* What is shown of a closed trade: the levels it was watched at are not.
Shown(trade) == [id |-> trade.id, side |-> trade.side, qty |-> trade.qty,
                 entryPrice |-> trade.entryPrice]

\* One closed trade more: of those shown before, the oldest may go.
Latest(trades, trade) ==
    [i \in {j \in 1..HistoryMax : j = 1 \/ j - 1 \in DOMAIN trades} |->
        IF i = 1 THEN trade ELSE trades[i - 1]]

\* The trades on other assets are left as they are.
OthersStand(a) == \A x \in DOMAIN open \ {a} : open'[x] = open[x]

Init ==
    /\ DOMAIN open = {}
    /\ DOMAIN closed = {}
    /\ nextId = 1

\* A new trade on a, under the next number.
New(a) ==
    /\ open'[a].id = nextId
    /\ nextId' = nextId + 1
    /\ OthersStand(a)

Enter(a) ==
    /\ a \notin DOMAIN open
    /\ Cardinality(DOMAIN open) < Limit
    /\ DOMAIN open' = DOMAIN open \cup {a}
    /\ New(a)
    /\ UNCHANGED closed

Exit(a) ==
    /\ a \in DOMAIN open
    /\ DOMAIN open' = DOMAIN open \ {a}
    /\ OthersStand(a)
    /\ closed' = Latest(closed, Shown(open[a]))
    /\ UNCHANGED nextId

\* A flip: the close and the entry are one step of the loop.
Switch(a) ==
    /\ a \in DOMAIN open
    /\ Cardinality(DOMAIN open \ {a}) < Limit
    /\ DOMAIN open' = DOMAIN open
    /\ New(a)
    /\ closed' = Latest(closed, Shown(open[a]))

Next ==
    \/ \E a \in DOMAIN open' \ DOMAIN open : Enter(a)
    \/ \E a \in DOMAIN open : Exit(a) \/ Switch(a)

Spec == Init /\ [][Next]_vars
=============================================================================
