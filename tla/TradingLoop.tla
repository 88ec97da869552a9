---------------------------- MODULE TradingLoop ----------------------------
(***************************************************************************)
(* The trading loop of cli/run.py: one call of step() after another on the *)
(* main thread, and the synthesizer that thinks on a thread of its own.    *)
(*                                                                         *)
(* A step() is a walk of "pc" through its phases                           *)
(*   fetch -> stops (one position at a time) -> drain -> apply (one        *)
(*   decision at a time) -> launch -> fetch ...                            *)
(* between any two of which the agent thread may move.  "books" is all the *)
(* main thread alone writes: the portfolio (PortfolioState), the sizing    *)
(* cache (_LAST_SIZED) and the dashboard's accumulator (SnapshotState).    *)
(*                                                                         *)
(* Left to other modules: the anchor worker and the audit store, how a     *)
(* trade is sized and scored, how snapshots are fetched.  Here these are   *)
(* choices: which assets have a snapshot, whether an entry is refused for  *)
(* a reason that is not about the portfolio, which plan the sizer returns. *)
(***************************************************************************)
EXTENDS SimExecutor, FiniteSets

CONSTANTS
    Assets,          \* the scanned universe (args.coins)
    Marks,           \* mark prices a snapshot may carry
    Times,           \* candle timestamps a snapshot may carry
    Rates,           \* funding rates a snapshot may carry
    Slips,           \* ticks of slippage a fill may suffer
    Plans,           \* [qty, stopDist, takeDist]: what the sizer may return
    MaxPositions,    \* RiskConfig.max_positions
    MaxNotional,     \* RiskConfig.max_notional_per_position_usd
    MaxExposure,     \* RiskConfig.max_total_exposure_usd
    StartingBalance, \* PortfolioState.starting_balance_usd
    HistoryMax,      \* _TRADE_HISTORY_MAX
    MaxDecisions,    \* bound: decisions in one answer of the agent
    MaxOpens         \* bound: positions opened in one run

ASSUME AssetsAssumption == IsFiniteSet(Assets)
ASSUME MarketAssumption ==
    /\ Marks \subseteq Nat
    /\ Times \subseteq Nat
    /\ Rates \subseteq Int
    /\ Slips \subseteq Nat
ASSUME PlanAssumption ==
    Plans \subseteq [qty : Nat, stopDist : Nat \ {0}, takeDist : Nat \ {0}]
ASSUME LimitAssumption ==
    /\ MaxPositions \in Nat
    /\ MaxNotional \in Nat
    /\ MaxExposure \in Nat
    /\ StartingBalance \in Int
    /\ HistoryMax \in Nat
    /\ MaxDecisions \in Nat
    /\ MaxOpens \in Nat

VARIABLES
    pc,         \* where the main thread is in step()
    snapshots,  \* asset -> snapshot, the local dict of the current step()
    unchecked,  \* positions whose stops this step() has still to check
    books,      \* what the main thread keeps from step to step, see Books
    nextId,     \* audit id of the next trade opened
    call,       \* _AsyncAgent: the state of its future
    due,        \* _AgentScheduler.should_call(now)
    batch,      \* decisions of the drained answer still to apply
    verdict,    \* what became of the decision applied last
    seen        \* history: trades the agent's answer knows of

vars == <<pc, snapshots, unchecked, books, nextId, call, due, batch, verdict,
          seen>>

-----------------------------------------------------------------------------
(* The shapes of the state.                                                *)

\* What fetch() returns for one asset; "scored" says that forecast and cost
\* assessment both succeeded, so that the asset is on the board.
MarketData == [mark : Marks, ts : Times, rate : Rates, scored : BOOLEAN]

Ids == 1..MaxOpens
Position ==
    [id : Ids, side : Sides, qty : Nat \ {0}, entryPrice : Int, entryTime : Times,
     lastMark : Marks, lastFundingTs : Times, accrued : Int, stop : Int, take : Int]

\* A row of SnapshotState.audit_links.
Link == [auditId : Ids, side : Sides]

NoAudit == 0      \* the audit id of a trade that has no link

\* A row of SnapshotState.trade_history; "of" (the trade that was closed) and
\* "cause" (the level that fired) are history, the other fields are the code's.
Triggers == {"stop", "take", "cut", "flip"}
Trade ==
    [auditId : Ids \cup {NoAudit}, side : Sides, qty : Nat \ {0}, entryPrice : Int, exitPrice : Int,
     realized : Int, funding : Int, trigger : Triggers,
     of : Ids, cause : Triggers]

\* A deque of rows, the newest first, that drops the oldest beyond its maxlen.
IsHistory(rows) == \E n \in 0..HistoryMax : rows \in [1..n -> Trade]

\* An entry of SnapshotState.recent_decisions under its audit_id: the id of the
\* trade for an open, "close-<asset>-<exit time>" for a close; "of" is history.
FeedKey == ({"open"} \X Ids) \cup ({"close"} \X Assets \X Times)
FeedEntry == [key : FeedKey, of : Ids]

\* f is a dictionary with keys in S and values in T.
IsDict(f, S, T) == DOMAIN f \subseteq S /\ f \in [DOMAIN f -> T]

BooksTypeOK(b) ==
    /\ b = [balance |-> b.balance, positions |-> b.positions, sized |-> b.sized,
            links |-> b.links, history |-> b.history, feed |-> b.feed]
    /\ b.balance \in Int                       \* PortfolioState.balance_usd
    /\ IsDict(b.positions, Assets, Position)   \* PortfolioState.positions
    /\ IsDict(b.sized, Assets, Ids)            \* _LAST_SIZED
    /\ IsDict(b.links, Assets, Link)           \* SnapshotState.audit_links
    /\ IsHistory(b.history)                    \* SnapshotState.trade_history
    /\ b.feed \subseteq FeedEntry              \* SnapshotState.recent_decisions

Held(b) == DOMAIN b.positions
HeldIds(b) == {b.positions[a].id : a \in Held(b)}

\* The decisions an agent may answer with.  The synthesizer is free (an LLM):
\* `side` is missing wherever _parse() did not recognise one.
Decision == [asset : Assets, action : {"enter", "cut", "flip", "hold"},
             side : Sides \cup {"none"}]

TypeOK ==
    /\ pc \in {"fetch", "stops", "drain", "apply", "launch"}
    /\ IsDict(snapshots, Assets, MarketData)
    /\ unchecked \in SUBSET Assets
    /\ BooksTypeOK(books)
    /\ nextId \in 1..(MaxOpens + 1)
    /\ call \in {"idle", "thinking", "read", "done"}
    /\ due \in BOOLEAN
    /\ batch \in 0..MaxDecisions
    /\ verdict \in {"none", "done", "vetoed"}
    /\ seen \subseteq Ids

-----------------------------------------------------------------------------
(* What a step() does to the books.                                        *)

\* executor.open_sized
ExecOpen(b, a, id, side, plan, m, slip) ==
    [b EXCEPT !.balance = @ - Fee(plan.qty, m.mark),
              !.positions = With(@, a, NewPosition(id, side, plan, m, slip))]

\* executor.close: funding first, then the position is realised and removed.
ExecClose(b, a, m, slip) ==
    LET pos == AccrueFunding(b.positions[a], m) IN
    [b EXCEPT !.balance = @ + RealizedPnl(pos, ExitPrice(pos.side, m.mark, slip)),
              !.positions = Without(@, a)]

\* record_decision: an entry replaces those under the same key.  The order of
\* the feed and its capacity of 30 are left out: a run of the model posts at
\* most 2 * MaxOpens entries.
Post(feed, e) == {x \in feed : x.key # e.key} \cup {e}

\* record_open and record_decision, as _enter_sized calls them.
RecordOpen(b, a, id, side) ==
    [b EXCEPT !.links = With(@, a, [auditId |-> id, side |-> side]),
              !.feed = Post(@, [key |-> <<"open", id>>, of |-> id])]

\* Mutant: a deque without maxlen.
AppendLeftUncapped(rows, row) ==
    [i \in {1} \cup {j + 1 : j \in DOMAIN rows} |->
        IF i = 1 THEN row ELSE rows[i - 1]]

\* deque.appendleft: with maxlen rows in the deque, the last one goes.
AppendLeft(rows, row) ==
    [i \in {j \in 1..HistoryMax : j = 1 \/ j - 1 \in DOMAIN rows} |->
        IF i = 1 THEN row ELSE rows[i - 1]]

\* record_close, with the fields of the position as it was before the close.
RecordClose(b, a, pos, m, slip, trigger, cause) ==
    LET exit == ExitPrice(pos.side, m.mark, slip) IN
    [b EXCEPT
        !.links = Without(@, a),
        !.history = AppendLeft(@,
            [auditId |-> IF a \in DOMAIN b.links THEN b.links[a].auditId ELSE NoAudit,
             side |-> pos.side, qty |-> pos.qty, entryPrice |-> pos.entryPrice,
             exitPrice |-> exit,
             realized |-> RealizedPnl(AccrueFunding(pos, m), exit),
             funding |-> pos.accrued, trigger |-> trigger,
             of |-> pos.id, cause |-> cause]),
        !.feed = Post(@, [key |-> <<"close", a, m.ts>>, of |-> pos.id])]

PopSized(b, a) == [b EXCEPT !.sized = Without(@, a)]

\* Mutant: the sizing cache keeps its entry.
CloseTradeKeepSized(b, a, m, slip, trigger, cause) ==
    RecordClose(ExecClose(b, a, m, slip), a, b.positions[a], m, slip, trigger, cause)

\* Mutant: the link is popped before record_close reads its audit id.
CloseTradeUnlinked(b, a, m, slip, trigger, cause) ==
    LET closed == PopSized(ExecClose(b, a, m, slip), a) IN
    RecordClose([closed EXCEPT !.links = Without(@, a)],
                a, b.positions[a], m, slip, trigger, cause)

\* A close as all three call sites write it (a level hit, a cut, a flip).
CloseTrade(b, a, m, slip, trigger, cause) ==
    RecordClose(PopSized(ExecClose(b, a, m, slip), a),
                a, b.positions[a], m, slip, trigger, cause)

OpenTrade(b, a, id, side, plan, m, slip) ==
    LET filled == ExecOpen(b, a, id, side, plan, m, slip) IN
    RecordOpen([filled EXCEPT !.sized = With(@, a, id)], a, id, side)

\* Mutant: the notional of the trade itself is not added to the exposure.
GateApprovesNoProjection(b, a, notional) ==
    /\ a \notin Held(b)
    /\ Cardinality(Held(b)) < MaxPositions
    /\ notional <= MaxNotional
    /\ Exposure(b.positions) <= MaxExposure

\* Mutant: the count of positions is off by one.
GateApprovesOneTooMany(b, a, notional) ==
    /\ a \notin Held(b)
    /\ Cardinality(Held(b)) <= MaxPositions
    /\ notional <= MaxNotional
    /\ Exposure(b.positions) + notional <= MaxExposure

\* RiskGate.evaluate but for its edge rule, which is one of the refusals
\* EnterSized chooses.
GateApproves(b, a, notional) ==
    /\ a \notin Held(b)
    /\ Cardinality(Held(b)) < MaxPositions
    /\ notional <= MaxNotional
    /\ Exposure(b.positions) + notional <= MaxExposure

-----------------------------------------------------------------------------
(* The main thread.                                                        *)

Init ==
    /\ pc = "fetch"
    /\ snapshots = NoEntries
    /\ unchecked = {}
    /\ books = [balance |-> StartingBalance, positions |-> NoEntries,
                sized |-> NoEntries, links |-> NoEntries,
                history |-> NoEntries, feed |-> {}]
    /\ nextId = 1
    /\ call = "idle"
    /\ due = TRUE
    /\ batch = 0
    /\ verdict = "none"
    /\ seen = {}

\* _fetch_and_score: any set of coins may fail, or the whole board, and each
\* snapshot is an answer of its own: nothing orders it after the last one.
\* Time passes, so a call may become due.
Fetch ==
    /\ pc = "fetch"
    /\ \E fetched \in SUBSET Assets : snapshots' \in [fetched -> MarketData]
    /\ unchecked' = Held(books)
    /\ due' \in {due, TRUE}
    /\ pc' = "stops"
    /\ UNCHANGED <<books, nextId, call, batch, verdict, seen>>

\* The side of the trigger is inferred from the exit price, after slippage.
InferTrigger(pos, exit) ==
    IF TakeHit(pos, exit) THEN "take" ELSE "stop"

\* Mark, accrue, then fire the stop, or else the take, of one position.
CheckPosition(a) ==
    /\ pc = "stops"
    /\ a \in unchecked
    /\ unchecked' = unchecked \ {a}
    /\ IF a \notin DOMAIN snapshots
       THEN UNCHANGED books
       ELSE LET m == snapshots[a]
                pos == Tick(books.positions[a], m)
                ticked == [books EXCEPT !.positions[a] = pos]
                close(slip, cause) ==
                    CloseTrade(ticked, a, m, slip,
                               InferTrigger(pos, ExitPrice(pos.side, m.mark, slip)),
                               cause)
            IN  \/ /\ StopHit(pos, m.mark)
                   /\ \E slip \in Slips : books' = close(slip, "stop")
                \/ /\ ~StopHit(pos, m.mark)
                   /\ TakeHit(pos, m.mark)
                   /\ \E slip \in Slips : books' = close(slip, "take")
                \/ /\ ~StopHit(pos, m.mark)
                   /\ ~TakeHit(pos, m.mark)
                   /\ books' = ticked
    /\ UNCHANGED <<pc, snapshots, nextId, call, due, batch, verdict, seen>>

StopsChecked ==
    /\ pc = "stops"
    /\ unchecked = {}
    /\ pc' = "drain"
    /\ UNCHANGED <<snapshots, unchecked, books, nextId, call, due, batch, verdict, seen>>

\* Mutant: the future is not cleared, the answer stays to be drained again.
DrainKeepsFuture ==
    /\ pc = "drain"
    /\ IF call = "done"
       THEN /\ batch' \in 0..MaxDecisions
            /\ pc' = "apply"
       ELSE /\ pc' = "launch"
            /\ UNCHANGED batch
    /\ UNCHANGED <<snapshots, unchecked, books, nextId, call, due, verdict, seen>>

\* agent.poll(): an answer that is ready is taken and its future cleared.  How
\* many decisions it holds, and which, is chosen here and as they are applied:
\* nothing looks at them before.
Drain ==
    /\ pc = "drain"
    /\ IF call = "done"
       THEN /\ call' = "idle"
            /\ batch' \in 0..MaxDecisions
            /\ pc' = "apply"
       ELSE /\ pc' = "launch"
            /\ UNCHANGED <<call, batch>>
    /\ UNCHANGED <<snapshots, unchecked, books, nextId, due, verdict, seen>>

\* A decision that has no effect on the books b, vetoed or not.
Refuse(b) ==
    /\ books' = b
    /\ verdict' = "vetoed"
    /\ UNCHANGED <<nextId, seen>>

Fill(b) ==
    /\ books' = b
    /\ verdict' = "done"
    /\ UNCHANGED <<nextId, seen>>

\* Mutant: a stand-down plan (quantity zero) is not recognised.
EnterSizedNoStandDown(b, d) ==
    \/ Refuse(b)
    \/ /\ d.side # "none"
       /\ snapshots[d.asset].scored
       /\ nextId <= MaxOpens
       /\ \E plan \in Plans, slip \in Slips :
            /\ GateApproves(b, d.asset, plan.qty * snapshots[d.asset].mark)
            /\ books' = OpenTrade(b, d.asset, nextId, d.side, plan,
                                 snapshots[d.asset], slip)
       /\ nextId' = nextId + 1
       /\ seen' = seen \cup {nextId}
       /\ verdict' = "done"

\* Open d.asset from the books b.  It may always be refused: no side, no board
\* entry, too few 1h bars, a regime or sizing error, a stand-down, an edge below
\* the floor.  It is opened only when there is a plan the gate approves.
EnterSized(b, d) ==
    \/ Refuse(b)
    \/ /\ d.side # "none"
       /\ snapshots[d.asset].scored
       /\ nextId <= MaxOpens
       /\ \E plan \in Plans, slip \in Slips :
            /\ plan.qty > 0
            /\ GateApproves(b, d.asset, plan.qty * snapshots[d.asset].mark)
            /\ books' = OpenTrade(b, d.asset, nextId, d.side, plan,
                                 snapshots[d.asset], slip)
       /\ nextId' = nextId + 1
       /\ seen' = seen \cup {nextId}
       /\ verdict' = "done"

\* What every decision shares: it is the next of the batch.
Applying(d) ==
    /\ pc = "apply"
    /\ batch > 0
    /\ batch' = batch - 1
    /\ UNCHANGED <<pc, snapshots, unchecked, call, due>>

\* An asset without a snapshot this tick, one of the universe or not.
ApplyUnseen(d) ==
    /\ Applying(d)
    /\ d.asset \notin DOMAIN snapshots
    /\ Refuse(books)

ApplyEnter(d) ==
    /\ Applying(d)
    /\ d.action = "enter"
    /\ d.asset \in DOMAIN snapshots
    /\ IF d.asset \in Held(books) THEN Refuse(books) ELSE EnterSized(books, d)

ApplyCut(d) ==
    /\ Applying(d)
    /\ d.action = "cut"
    /\ d.asset \in DOMAIN snapshots
    /\ IF d.asset \in Held(books)
       THEN \E slip \in Slips :
              Fill(CloseTrade(books, d.asset, snapshots[d.asset], slip, "cut", "cut"))
       ELSE Refuse(books)

\* A flip closes first, and only then asks whether the new side may be entered.
ApplyFlip(d) ==
    /\ Applying(d)
    /\ d.action = "flip"
    /\ d.asset \in DOMAIN snapshots
    /\ IF d.asset \in Held(books)
       THEN \E slip \in Slips :
              EnterSized(CloseTrade(books, d.asset, snapshots[d.asset], slip,
                                    "flip", "flip"), d)
       ELSE EnterSized(books, d)

\* hold and skip, and any action the loop does not know.
ApplyHold(d) ==
    /\ Applying(d)
    /\ d.action = "hold"
    /\ d.asset \in DOMAIN snapshots
    /\ Fill(books)

ApplyDecision(d) ==
    ApplyUnseen(d) \/ ApplyEnter(d) \/ ApplyCut(d) \/ ApplyFlip(d) \/ ApplyHold(d)

\* The batch is done: record_completion.  With the answer goes what it knew.
Applied ==
    /\ pc = "apply"
    /\ batch = 0
    /\ pc' = "launch"
    /\ verdict' = "none"
    /\ seen' = {}
    /\ UNCHANGED <<snapshots, unchecked, books, nextId, call, due, batch>>

Thinking == call \in {"thinking", "read"}

\* bool(candidates) or bool(portfolio.positions)
HaveSignal ==
    \/ MaxPositions > 0 /\ \E a \in DOMAIN snapshots : snapshots[a].scored
    \/ Held(books) # {}

\* The launch of a new call.  An answer that became ready after the drain does
\* not count as in flight: its future is replaced.  The step() ends.
Launch ==
    /\ pc = "launch"
    /\ IF ~Thinking /\ due /\ HaveSignal
       THEN /\ call' = "thinking"
            /\ due' \in BOOLEAN     \* TRUE: agent_every is 0
            /\ seen' = {}
       ELSE UNCHANGED <<call, due, seen>>
    /\ snapshots' = NoEntries
    /\ pc' = "fetch"
    /\ UNCHANGED <<unchecked, books, nextId, batch, verdict>>

-----------------------------------------------------------------------------
(* The agent thread: decide() reads the live portfolio, then answers.      *)

AgentRead ==
    /\ call = "thinking"
    /\ call' = "read"
    /\ seen' = HeldIds(books)
    /\ UNCHANGED <<pc, snapshots, unchecked, books, nextId, due, batch, verdict>>

\* An answer, or an exception: then poll() makes an empty answer of it.
AgentAnswer ==
    /\ call = "read"
    /\ call' = "done"
    /\ UNCHANGED <<pc, snapshots, unchecked, books, nextId, due, batch, verdict, seen>>

-----------------------------------------------------------------------------

MainThread ==
    \/ Fetch
    \/ \E a \in Assets : CheckPosition(a)
    \/ StopsChecked
    \/ Drain
    \/ \E d \in Decision : ApplyDecision(d)
    \/ Applied
    \/ Launch

Next == MainThread \/ AgentRead \/ AgentAnswer

Spec == Init /\ [][Next]_vars

-----------------------------------------------------------------------------
(* Properties.                                                             *)

\* The three views of an open trade (the executor's position, the sizing cache
\* the table is drawn from, the dashboard's anchor link) are of the same trade
\* at every step, whichever of stop, take, cut and flip closed the last one:
\* each close site of cli/run.py has to undo all that _enter_sized did.
BooksAgree ==
    /\ DOMAIN books.sized = Held(books)
    /\ DOMAIN books.links = Held(books)
    /\ \A a \in Held(books) :
          LET pos == books.positions[a] IN
          /\ books.sized[a] = pos.id
          /\ books.links[a] = [auditId |-> pos.id, side |-> pos.side]

\* No trade is lost and none is closed twice: of the trades opened so far some
\* are one open position each, all others are closed, and the trade history has
\* one row for each of these, up to its capacity: never two for one trade, and
\* each under the audit id of the very trade that was closed.
TradesAccountedFor ==
    LET rows == books.history
        closed == (1..(nextId - 1)) \ HeldIds(books)
        known == Cardinality(closed)
    IN  /\ HeldIds(books) \subseteq 1..(nextId - 1)
        /\ Cardinality(HeldIds(books)) = Cardinality(Held(books))
        /\ DOMAIN rows = 1..(IF known < HistoryMax THEN known ELSE HistoryMax)
        /\ \A i \in DOMAIN rows : rows[i].of \in closed /\ rows[i].auditId = rows[i].of
        /\ \A i, j \in DOMAIN rows : rows[i].of = rows[j].of => i = j

\* A row of the trade history adds up: the funding it shows, read before the
\* close, is the funding that close() realised, although close() accrues once
\* more.  True because step() has ticked every position with this snapshot.
TradeRowsAddUp ==
    \A i \in DOMAIN books.history :
        LET t == books.history[i] IN
        t.realized = Bps * Direction(t.side) * (t.exitPrice - t.entryPrice) * t.qty
                        + t.funding - Fee(t.qty, t.exitPrice)

\* Funding is charged once for every minute a position is held, whatever the
\* order of the snapshots' timestamps and however often one repeats: what has
\* accrued lies between the least and the most the rates and marks allow for
\* the time since entry, and the funding clock never runs behind the entry.
FundingChargedOnce ==
    \A a \in Held(books) :
        LET pos == books.positions[a]
            minutes == pos.lastFundingTs - pos.entryTime
            flows == {-Direction(pos.side) * r * pos.qty * m :
                        r \in Rates, m \in Marks}
        IN  /\ minutes >= 0
            /\ \E f \in flows : f * minutes <= pos.accrued
            /\ \E f \in flows : f * minutes >= pos.accrued

\* Once the stops of an asset are checked no open position on it stands at or
\* beyond a level of its own in this tick's market, until the step() ends: the
\* positions the tick goes on to open included.
InsideLevels ==
    \A a \in (Held(books) \cap DOMAIN snapshots) \ unchecked :
        /\ ~StopHit(books.positions[a], snapshots[a].mark)
        /\ ~TakeHit(books.positions[a], snapshots[a].mark)

\* An answer is applied to trades it knows of: from the moment the agent has
\* read the portfolio until its answer is applied, every open trade is one it
\* read or one the answer itself opened.  A cut or a flip then never closes a
\* trade the agent has not seen, however long it thought.
AnswerKnowsBook ==
    (call \in {"read", "done"} \/ pc = "apply") => HeldIds(books) \subseteq seen

\* The count of open positions is within RiskConfig.max_positions, a flip at the
\* limit and several entries in one batch included.
PositionLimit == Cardinality(Held(books)) <= MaxPositions

\* When a trade is opened the whole portfolio, at the marks it then carries, is
\* within max_total_exposure_usd: the gate's projection is of the books the
\* trade really joins, after the flip's close and the batch's earlier entries.
ExposureWithinCap ==
    [][nextId' # nextId => Exposure(books'.positions) <= MaxExposure]_vars

\* Applying a decision never makes the account richer: fees and slippage are
\* against the trader on both fills, and a close realises no gain that the
\* tick's marks and funding had not put into the equity already.
TradingCosts ==
    [][pc = "apply" =>
        Equity(books'.balance, books'.positions)
            <= Equity(books.balance, books.positions)]_vars

\* The terms of an open trade, and of a closed one as far as they are shown.
OpenTrades(b) ==
    [a \in Held(b) |->
        LET pos == b.positions[a] IN
        [id |-> pos.id, side |-> pos.side, qty |-> pos.qty,
         entryPrice |-> pos.entryPrice, stop |-> pos.stop, take |-> pos.take]]
ClosedTrades(b) ==
    [i \in DOMAIN b.history |->
        LET t == b.history[i] IN
        [id |-> t.auditId, side |-> t.side, qty |-> t.qty,
         entryPrice |-> t.entryPrice]]

\* The loop keeps a book of trades (TradeBook): a step enters at most one trade,
\* within the limit, and closes at most one, on the same asset; the size, the
\* entry and the levels of an open trade stand until it is closed; and the row of
\* the history, put together from the position of before the close and the
\* dashboard's link, carries the number and the terms of the trade that was open,
\* and pushes out no row but the oldest of a full history.
Book == INSTANCE TradeBook WITH
            Limit <- MaxPositions,
            open <- OpenTrades(books),
            closed <- ClosedTrades(books)
KeepsBook == Book!Spec

-----------------------------------------------------------------------------
(* What the repository says and the code does not do.                      *)

\* step(): "Each tick we drain any decisions that just completed and apply
\* them": an answer only ever leaves its future by being drained.
AnswerNeverLost ==
    [][call = "done" /\ call' # "done" => pc = "drain"]_vars

\* Decision: a vetoed decision is recorded with its reason and "no fill is
\* produced".
VetoMeansNoFill ==
    [][pc = "apply" /\ verdict' = "vetoed" =>
        books'.positions = books.positions]_vars

\* step(): the trigger says which level fired, so the feed can tell "stopped
\* out" from "took profit".
TriggerNamesLevel ==
    \A i \in DOMAIN books.history : books.history[i].trigger = books.history[i].cause

\* record_close: "Close events also surface in recent_decisions".
ClosesSurface ==
    \A i \in DOMAIN books.history :
        \E e \in books.feed : e.key[1] = "close" /\ e.of = books.history[i].of
=============================================================================
