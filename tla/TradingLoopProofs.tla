------------------------- MODULE TradingLoopProofs -------------------------
(***************************************************************************)
(* Theorems about TradingLoop, for every universe of assets, every set of  *)
(* prices, timestamps, rates, slippages and plans, and every limit.        *)
(***************************************************************************)
EXTENDS TradingLoop, TLAPS, FiniteSetTheorems

-----------------------------------------------------------------------------
(* Dictionaries.                                                           *)

\* Setting an entry of a dictionary (dict.__setitem__) keeps it a dictionary.
LEMMA WithDict ==
    ASSUME NEW S, NEW T, NEW f, IsDict(f, S, T), NEW k \in S, NEW v \in T
    PROVE  /\ IsDict(With(f, k, v), S, T)
           /\ DOMAIN With(f, k, v) = DOMAIN f \cup {k}
           /\ With(f, k, v)[k] = v
           /\ \A x \in DOMAIN f : x # k => With(f, k, v)[x] = f[x]
BY DEF IsDict, With

\* Removing one (dict.pop with a default) keeps it a dictionary.
LEMMA WithoutDict ==
    ASSUME NEW S, NEW T, NEW f, IsDict(f, S, T), NEW k
    PROVE  /\ IsDict(Without(f, k), S, T)
           /\ DOMAIN Without(f, k) = DOMAIN f \ {k}
           /\ \A x \in DOMAIN f : x # k => Without(f, k)[x] = f[x]
BY DEF IsDict, Without, Restrict

\* A removal touches no other key.
LEMMA WithoutEntries ==
    ASSUME NEW f, NEW k
    PROVE  /\ DOMAIN Without(f, k) = DOMAIN f \ {k}
           /\ \A x \in DOMAIN f : x # k => Without(f, k)[x] = f[x]
BY DEF Without, Restrict

\* The empty dictionary is one, of any keys and values.
LEMMA NoEntriesDict ==
    ASSUME NEW S, NEW T
    PROVE  IsDict(NoEntries, S, T) /\ DOMAIN NoEntries = {}
BY DEF IsDict, NoEntries

-----------------------------------------------------------------------------
(* Positions.                                                              *)

\* A snapshot (MarketData) carries numbers.
LEMMA MarketType ==
    ASSUME NEW m \in MarketData
    PROVE  /\ m.mark \in Marks /\ m.mark \in Nat
           /\ m.ts \in Times /\ m.ts \in Nat
           /\ m.rate \in Int
<1>1. m.mark \in Marks /\ m.ts \in Times /\ m.rate \in Rates
  BY DEF MarketData
<1> QED
  BY <1>1, MarketAssumption

\* So does a position, and its quantity is positive.
LEMMA PositionType ==
    ASSUME NEW pos \in Position
    PROVE  /\ pos.id \in Ids /\ pos.side \in Sides
           /\ pos.qty \in Nat /\ pos.qty > 0
           /\ pos.entryPrice \in Int /\ pos.accrued \in Int
           /\ pos.stop \in Int /\ pos.take \in Int
           /\ pos.lastMark \in Nat
           /\ pos.lastFundingTs \in Nat
<1>1. /\ pos.lastMark \in Marks /\ pos.lastFundingTs \in Times
      /\ pos.qty \in Nat \ {0}
  BY DEF Position
<1>2. pos.lastMark \in Nat /\ pos.lastFundingTs \in Nat
  BY <1>1, MarketAssumption
<1> QED
  BY <1>1, <1>2 DEF Position

\* A plan puts the stop and the take at a distance from the entry.
LEMMA PlanType ==
    ASSUME NEW plan \in Plans
    PROVE  /\ plan.qty \in Nat
           /\ plan.stopDist \in Nat /\ plan.stopDist > 0
           /\ plan.takeDist \in Nat /\ plan.takeDist > 0
<1>1. plan \in [qty : Nat, stopDist : Nat \ {0}, takeDist : Nat \ {0}]
  BY PlanAssumption
<1> QED
  BY <1>1

\* Slippage is never negative (_side_slippage_bps).
LEMMA SlipType == \A slip \in Slips : slip \in Nat
BY MarketAssumption

\* A side only ever contributes a sign.
LEMMA DirectionType == \A side : Direction(side) \in {-1, 1}
BY DEF Direction

\* Accruing funding changes a position's mark, its funding and its funding
\* clock, and nothing else.
LEMMA AccrueType ==
    ASSUME NEW pos \in Position, NEW m \in MarketData
    PROVE  /\ AccrueFunding(pos, m) \in Position
           /\ AccrueFunding(pos, m).id = pos.id
           /\ AccrueFunding(pos, m).side = pos.side
<1> DEFINE elapsed == m.ts - pos.lastFundingTs
           flow == Direction(pos.side) * m.rate * pos.qty * m.mark * elapsed
<1>1. /\ m.ts \in Times /\ m.rate \in Int /\ m.mark \in Int /\ m.mark \in Marks
      /\ m.ts \in Int /\ pos.lastFundingTs \in Int
      /\ pos.qty \in Int /\ pos.accrued \in Int
  BY MarketType, PositionType
<1>2. elapsed \in Int /\ flow \in Int
  BY <1>1, DirectionType
<1>3. pos.accrued - flow \in Int
  BY <1>1, <1>2
<1> HIDE DEF flow
<1>4. AccrueFunding(pos, m) =
         IF elapsed <= 0 THEN [pos EXCEPT !.lastMark = m.mark]
         ELSE [pos EXCEPT !.lastMark = m.mark, !.lastFundingTs = m.ts,
                          !.accrued = pos.accrued - flow]
  BY DEF AccrueFunding, flow, Position
<1> QED
  BY <1>1, <1>3, <1>4 DEF Position

\* Ticking a position (executor.tick) keeps it one, of the same trade and side.
LEMMA TickType ==
    ASSUME NEW pos \in Position, NEW m \in MarketData
    PROVE  /\ Tick(pos, m) \in Position
           /\ Tick(pos, m).id = pos.id
           /\ Tick(pos, m).side = pos.side
<1>1. [pos EXCEPT !.lastMark = m.mark] \in Position
  BY DEF Position, MarketData
<1> QED
  BY <1>1, AccrueType DEF Tick, Position

\* What open_sized stores is a position, of the trade and side it was asked for.
LEMMA NewPositionType ==
    ASSUME NEW id \in Ids, NEW side \in Sides, NEW plan \in Plans, plan.qty > 0,
           NEW m \in MarketData, NEW slip \in Slips
    PROVE  /\ NewPosition(id, side, plan, m, slip) \in Position
           /\ NewPosition(id, side, plan, m, slip).id = id
           /\ NewPosition(id, side, plan, m, slip).side = side
<1>1. /\ plan.qty \in Nat \ {0} /\ plan.stopDist \in Int /\ plan.takeDist \in Int
      /\ m.mark \in Int /\ m.mark \in Marks /\ m.ts \in Times /\ slip \in Int
  BY MarketType, PlanType, SlipType
<1>2. /\ m.mark + Direction(side) * slip \in Int
      /\ m.mark - Direction(side) * plan.stopDist \in Int
      /\ m.mark + Direction(side) * plan.takeDist \in Int
  BY <1>1, DirectionType
<1> QED
  BY <1>1, <1>2 DEF NewPosition, EntryPrice, Position

\* Exit prices, fees and realised results are numbers.
LEMMA CashType ==
    ASSUME NEW pos \in Position, NEW m \in MarketData, NEW slip \in Slips
    PROVE  /\ ExitPrice(pos.side, m.mark, slip) \in Int
           /\ RealizedPnl(pos, ExitPrice(pos.side, m.mark, slip)) \in Int
           /\ \A q \in Nat : Fee(q, m.mark) \in Int
<1>1. /\ pos.qty \in Int /\ pos.entryPrice \in Int /\ pos.accrued \in Int
      /\ m.mark \in Int /\ slip \in Int /\ Bps \in Int /\ TakerBps \in Int
  BY MarketType, PositionType, SlipType, BpsAssumption, TakerAssumption
<1> DEFINE exit == m.mark - Direction(pos.side) * slip
<1>2. exit \in Int
  BY <1>1, DirectionType
<1>3. ExitPrice(pos.side, m.mark, slip) = exit
  BY DEF ExitPrice
<1> HIDE DEF exit
<1>4. /\ Bps * Direction(pos.side) * (exit - pos.entryPrice) * pos.qty \in Int
      /\ TakerBps * pos.qty * exit \in Int
  BY <1>1, <1>2, DirectionType
<1>5. \A q \in Nat : TakerBps * q * m.mark \in Int
  BY <1>1
<1> QED
  BY <1>1, <1>2, <1>3, <1>4, <1>5 DEF RealizedPnl, Fee

-----------------------------------------------------------------------------
(* Books: what a close and an open leave, field by field.                  *)

\* Every row of a deque that got one more is that row or one it had.
LEMMA AppendLeftRows ==
    ASSUME NEW rows, NEW row
    PROVE  \A i \in DOMAIN AppendLeft(rows, row) :
              \/ i = 1 /\ AppendLeft(rows, row)[i] = row
              \/ /\ i # 1 /\ i - 1 \in DOMAIN rows
                 /\ AppendLeft(rows, row)[i] = rows[i - 1]
BY DEF AppendLeft

\* It is longer by one, or full (deque(maxlen=_TRADE_HISTORY_MAX)).
LEMMA AppendLeftLength ==
    ASSUME NEW n \in 0..HistoryMax, NEW rows, DOMAIN rows = 1..n, NEW row
    PROVE  DOMAIN AppendLeft(rows, row)
             = 1..(IF n < HistoryMax THEN n + 1 ELSE HistoryMax)
<1>1. HistoryMax \in Nat /\ n \in Nat /\ n <= HistoryMax
  BY LimitAssumption
<1>2. DOMAIN AppendLeft(rows, row) = {j \in 1..HistoryMax : j = 1 \/ j - 1 \in 1..n}
  BY DEF AppendLeft
<1>3. CASE n < HistoryMax
  BY <1>1, <1>2, <1>3
<1>4. CASE ~(n < HistoryMax)
  BY <1>1, <1>2, <1>4
<1> QED
  BY <1>3, <1>4

\* A history with a row more is a history (SnapshotState.trade_history).
LEMMA AppendLeftHistory ==
    ASSUME NEW rows, IsHistory(rows), NEW row \in Trade
    PROVE  IsHistory(AppendLeft(rows, row))
<1> DEFINE longer == AppendLeft(rows, row)
<1>1. PICK n \in 0..HistoryMax : rows \in [1..n -> Trade]
  BY DEF IsHistory
<1>2. PICK k \in 0..HistoryMax : DOMAIN longer = 1..k
  <2>1. HistoryMax \in Nat
    BY LimitAssumption
  <2>2. (IF n < HistoryMax THEN n + 1 ELSE HistoryMax) \in 0..HistoryMax
    BY <1>1, <2>1
  <2> QED
    BY <1>1, <2>2, AppendLeftLength
<1>3. \A i \in DOMAIN longer :
         \/ longer[i] = row
         \/ i - 1 \in DOMAIN rows /\ longer[i] = rows[i - 1]
  BY AppendLeftRows
<1>4. longer = [i \in DOMAIN longer |-> longer[i]]
  BY DEF AppendLeft
<1> HIDE DEF longer
<1>5. longer \in [1..k -> Trade]
  <2>1. \A i \in 1..k : longer[i] \in Trade
    BY <1>1, <1>2, <1>3
  <2> QED
    BY <1>2, <1>4, <2>1
<1> QED
  BY <1>5 DEF IsHistory, longer

\* The row of the trade history for a close of pos at the market m.
Row(links, a, pos, m, slip, trigger, cause) ==
    LET exit == ExitPrice(pos.side, m.mark, slip) IN
    [auditId |-> IF a \in DOMAIN links THEN links[a].auditId ELSE NoAudit,
     side |-> pos.side, qty |-> pos.qty, entryPrice |-> pos.entryPrice,
     exitPrice |-> exit, realized |-> RealizedPnl(AccrueFunding(pos, m), exit),
     funding |-> pos.accrued, trigger |-> trigger, of |-> pos.id, cause |-> cause]

\* A close removes the position and what the sizing cache and the dashboard
\* hold of it, adds one row to the history, and leaves the other assets alone.
LEMMA CloseTradeEffect ==
    ASSUME NEW b, BooksTypeOK(b), NEW a \in Held(b), NEW m \in MarketData,
           NEW slip \in Slips, NEW trigger \in Triggers, NEW cause \in Triggers
    PROVE  LET c == CloseTrade(b, a, m, slip, trigger, cause) IN
           /\ BooksTypeOK(c)
           /\ c.positions = Without(b.positions, a)
           /\ c.sized = Without(b.sized, a)
           /\ c.links = Without(b.links, a)
           /\ c.history = AppendLeft(b.history,
                Row(b.links, a, b.positions[a], m, slip, trigger, cause))
           /\ Held(c) = Held(b) \ {a}
           /\ \A x \in Held(c) : c.positions[x] = b.positions[x]
<1> DEFINE c == CloseTrade(b, a, m, slip, trigger, cause)
           pos == b.positions[a]
           rolled == AccrueFunding(pos, m)
           exit == ExitPrice(pos.side, m.mark, slip)
           auditId == IF a \in DOMAIN b.links THEN b.links[a].auditId ELSE NoAudit
           row == [auditId |-> auditId, side |-> pos.side, qty |-> pos.qty,
                   entryPrice |-> pos.entryPrice, exitPrice |-> exit,
                   realized |-> RealizedPnl(rolled, exit), funding |-> pos.accrued,
                   trigger |-> trigger, of |-> pos.id, cause |-> cause]
           entry == [key |-> <<"close", a, m.ts>>, of |-> pos.id]
<1>1. /\ a \in Assets
      /\ pos \in Position
      /\ IsDict(b.positions, Assets, Position) /\ IsDict(b.sized, Assets, Ids)
      /\ IsDict(b.links, Assets, Link)
      /\ b.balance \in Int /\ IsHistory(b.history) /\ b.feed \subseteq FeedEntry
  BY DEF BooksTypeOK, IsDict, Held
<1>2. rolled \in Position /\ rolled.side = pos.side
  BY <1>1, AccrueType
<1>3. exit \in Int /\ RealizedPnl(rolled, exit) \in Int
  BY <1>1, <1>2, CashType
<1>4. auditId \in Ids \cup {NoAudit}
  BY <1>1 DEF IsDict, Link
<1>5. row \in Trade
  BY <1>1, <1>3, <1>4, PositionType DEF Trade, Position
<1>6. entry \in FeedEntry
  BY <1>1, MarketType, PositionType DEF FeedEntry, FeedKey
<1>0. row = Row(b.links, a, pos, m, slip, trigger, cause)
  BY Zenon DEF Row
<1> HIDE DEF row, entry, exit, rolled
<1>7. c = [balance |-> b.balance + RealizedPnl(rolled, exit),
           positions |-> Without(b.positions, a),
           sized |-> Without(b.sized, a),
           links |-> Without(b.links, a),
           history |-> AppendLeft(b.history, row),
           feed |-> Post(b.feed, entry)]
  <2> DEFINE b1 == ExecClose(b, a, m, slip)
             b2 == PopSized(b1, a)
  <2>0. b = [balance |-> b.balance, positions |-> b.positions, sized |-> b.sized,
             links |-> b.links, history |-> b.history, feed |-> b.feed]
    BY DEF BooksTypeOK
  <2>1. b1 = [balance |-> b.balance + RealizedPnl(rolled, exit),
              positions |-> Without(b.positions, a), sized |-> b.sized,
              links |-> b.links, history |-> b.history, feed |-> b.feed]
    <3>1. b1 = [b EXCEPT !.balance = b.balance + RealizedPnl(rolled, exit),
                         !.positions = Without(b.positions, a)]
      BY <1>2, Zenon DEF ExecClose, rolled, exit
    <3> QED
      BY <2>0, <3>1
  <2>2. b2 = [b1 EXCEPT !.sized = Without(b.sized, a)]
    BY <2>1 DEF PopSized
  <2> HIDE DEF b1, b2
  <2>3. RecordClose(b2, a, pos, m, slip, trigger, cause)
          = [b2 EXCEPT !.links = Without(b.links, a),
                       !.history = AppendLeft(b.history, row),
                       !.feed = Post(b.feed, entry)]
    BY <2>1, <2>2 DEF RecordClose, row, entry, rolled, exit
  <2>4. c = RecordClose(b2, a, pos, m, slip, trigger, cause)
    BY DEF CloseTrade, b1, b2
  <2> QED
    BY <2>1, <2>2, <2>3, <2>4
<1>8. b.balance + RealizedPnl(rolled, exit) \in Int
  BY <1>1, <1>3
<1>9. Post(b.feed, entry) \subseteq FeedEntry
  BY <1>1, <1>6 DEF Post
<1>10. /\ IsDict(Without(b.positions, a), Assets, Position)
       /\ IsDict(Without(b.sized, a), Assets, Ids)
       /\ IsDict(Without(b.links, a), Assets, Link)
  BY <1>1, WithoutDict
<1>11. BooksTypeOK(c)
  <2>1. IsHistory(AppendLeft(b.history, row))
    BY <1>1, <1>5, AppendLeftHistory
  <2> QED
    BY <1>7, <1>8, <1>9, <1>10, <2>1 DEF BooksTypeOK
<1>12. /\ Held(c) = Held(b) \ {a}
       /\ \A x \in Held(c) : c.positions[x] = b.positions[x]
  <2>1. Held(c) = DOMAIN Without(b.positions, a) /\ c.positions = Without(b.positions, a)
    BY <1>7 DEF Held
  <2>2. /\ DOMAIN Without(b.positions, a) = DOMAIN b.positions \ {a}
        /\ \A x \in DOMAIN b.positions :
              x # a => Without(b.positions, a)[x] = b.positions[x]
    <3> DEFINE f == b.positions
    <3>1. IsDict(f, Assets, Position)
      BY <1>1
    <3> HIDE DEF f
    <3>2. /\ DOMAIN Without(f, a) = DOMAIN f \ {a}
          /\ \A x \in DOMAIN f : x # a => Without(f, a)[x] = f[x]
      BY <3>1, WithoutDict
    <3> QED
      BY <3>2 DEF f
  <2> HIDE DEF c
  <2> QED
    BY <2>1, <2>2 DEF Held
<1>13. c.history = AppendLeft(b.history,
                     Row(b.links, a, b.positions[a], m, slip, trigger, cause))
  BY <1>0, <1>7
<1> QED
  BY <1>7, <1>11, <1>12, <1>13

\* An open adds the position and, under the same id, its sizing and its link.
LEMMA OpenTradeEffect ==
    ASSUME NEW b, BooksTypeOK(b), NEW a \in Assets, NEW id \in Ids,
           NEW side \in Sides, NEW plan \in Plans, plan.qty > 0,
           NEW m \in MarketData, NEW slip \in Slips
    PROVE  LET c == OpenTrade(b, a, id, side, plan, m, slip) IN
           /\ BooksTypeOK(c)
           /\ c.positions = With(b.positions, a, NewPosition(id, side, plan, m, slip))
           /\ c.sized = With(b.sized, a, id)
           /\ c.links = With(b.links, a, [auditId |-> id, side |-> side])
           /\ c.history = b.history
           /\ Held(c) = Held(b) \cup {a}
           /\ c.positions[a] = NewPosition(id, side, plan, m, slip)
           /\ \A x \in Held(b) : x # a => c.positions[x] = b.positions[x]
<1> DEFINE c == OpenTrade(b, a, id, side, plan, m, slip)
           pos == NewPosition(id, side, plan, m, slip)
           link == [auditId |-> id, side |-> side]
           entry == [key |-> <<"open", id>>, of |-> id]
           fee == Fee(plan.qty, m.mark)
<1>1. /\ IsDict(b.positions, Assets, Position) /\ IsDict(b.sized, Assets, Ids)
      /\ IsDict(b.links, Assets, Link)
      /\ b.balance \in Int /\ IsHistory(b.history) /\ b.feed \subseteq FeedEntry
  BY DEF BooksTypeOK
<1>2. pos \in Position
  BY NewPositionType
<1>3. link \in Link /\ entry \in FeedEntry
  BY DEF Link, FeedEntry, FeedKey
<1>4. fee \in Int
  BY <1>2, PlanType, CashType
<1> HIDE DEF pos, link, entry, fee
<1>5. c = [balance |-> b.balance - fee,
           positions |-> With(b.positions, a, pos),
           sized |-> With(b.sized, a, id),
           links |-> With(b.links, a, link),
           history |-> b.history,
           feed |-> Post(b.feed, entry)]
  <2> DEFINE b1 == ExecOpen(b, a, id, side, plan, m, slip)
             b2 == [b1 EXCEPT !.sized = With(b1.sized, a, id)]
  <2>0. b = [balance |-> b.balance, positions |-> b.positions, sized |-> b.sized,
             links |-> b.links, history |-> b.history, feed |-> b.feed]
    BY DEF BooksTypeOK
  <2>1. b1 = [balance |-> b.balance - fee,
              positions |-> With(b.positions, a, pos), sized |-> b.sized,
              links |-> b.links, history |-> b.history, feed |-> b.feed]
    <3>1. b1 = [b EXCEPT !.balance = b.balance - fee,
                         !.positions = With(b.positions, a, pos)]
      BY Zenon DEF ExecOpen, pos, fee
    <3> QED
      BY <2>0, <3>1
  <2> HIDE DEF b1
  <2>2. c = RecordOpen(b2, a, id, side)
    BY DEF OpenTrade, b1
  <2>3. RecordOpen(b2, a, id, side)
          = [b2 EXCEPT !.links = With(b.links, a, link),
                       !.feed = Post(b.feed, entry)]
    BY <2>1 DEF RecordOpen, link, entry
  <2> QED
    BY <2>1, <2>2, <2>3
<1>6. b.balance - fee \in Int
  BY <1>1, <1>4
<1>7. Post(b.feed, entry) \subseteq FeedEntry
  BY <1>1, <1>3 DEF Post
<1>8. /\ IsDict(With(b.positions, a, pos), Assets, Position)
      /\ IsDict(With(b.sized, a, id), Assets, Ids)
      /\ IsDict(With(b.links, a, link), Assets, Link)
  BY <1>1, <1>2, <1>3, WithDict
<1>9. BooksTypeOK(c)
  BY <1>1, <1>5, <1>6, <1>7, <1>8 DEF BooksTypeOK
<1>10. /\ Held(c) = Held(b) \cup {a}
       /\ c.positions[a] = pos
       /\ \A x \in Held(b) : x # a => c.positions[x] = b.positions[x]
  BY <1>1, <1>2, <1>5, WithDict DEF Held
<1> QED
  BY <1>5, <1>9, <1>10 DEF pos, link

\* A tick replaces one position by itself, marked and accrued.
LEMMA TickEffect ==
    ASSUME NEW b, BooksTypeOK(b), NEW a \in Held(b), NEW m \in MarketData
    PROVE  LET pos == Tick(b.positions[a], m)
               c == [b EXCEPT !.positions[a] = pos]
           IN  /\ BooksTypeOK(c)
               /\ c.sized = b.sized /\ c.links = b.links /\ c.history = b.history
               /\ Held(c) = Held(b)
               /\ c.positions[a] = pos
               /\ \A x \in Held(b) : x # a => c.positions[x] = b.positions[x]
<1> DEFINE pos == Tick(b.positions[a], m)
           f == b.positions
           g == [f EXCEPT ![a] = pos]
           c == [b EXCEPT !.positions[a] = pos]
<1>1. b = [balance |-> b.balance, positions |-> f, sized |-> b.sized,
           links |-> b.links, history |-> b.history, feed |-> b.feed]
  BY DEF BooksTypeOK
<1>2. /\ IsDict(f, Assets, Position) /\ IsDict(b.sized, Assets, Ids)
      /\ IsDict(b.links, Assets, Link)
      /\ b.balance \in Int /\ IsHistory(b.history) /\ b.feed \subseteq FeedEntry
  BY DEF BooksTypeOK
<1>3. a \in DOMAIN f /\ f[a] \in Position
  BY <1>2 DEF IsDict, Held
<1>4. pos \in Position
  BY <1>3, TickType
<1>5. c = [balance |-> b.balance, positions |-> g, sized |-> b.sized,
           links |-> b.links, history |-> b.history, feed |-> b.feed]
  <2>1. c = [b EXCEPT !.positions = g]
    BY Zenon
  <2> HIDE DEF c, g, f
  <2> QED
    BY <1>1, <2>1
<1> HIDE DEF pos, f
<1>6. /\ IsDict(g, Assets, Position) /\ DOMAIN g = DOMAIN f
      /\ g[a] = pos /\ \A x \in DOMAIN f : x # a => g[x] = f[x]
  BY <1>2, <1>3, <1>4 DEF IsDict
<1> HIDE DEF g, c
<1>7. BooksTypeOK(c)
  BY <1>2, <1>5, <1>6 DEF BooksTypeOK
<1>8. /\ c.positions = g /\ c.sized = b.sized /\ c.links = b.links
      /\ c.history = b.history
  BY <1>5
<1>9. Held(b) = DOMAIN f /\ Held(c) = DOMAIN g
  BY <1>8 DEF Held, f
<1> QED
  BY <1>6, <1>7, <1>8, <1>9 DEF c, pos, f

-----------------------------------------------------------------------------
(* What a step can do to the books: b before, c after, asset a.            *)

SameRest(b, c, a) == \A x \in Held(b) : x # a => c.positions[x] = b.positions[x]

\* One trade more is in the history: pos, closed in this tick's market.
RowAdded(b, c, a, pos) ==
    \E slip \in Slips, trigger \in Triggers, cause \in Triggers :
        c.history = AppendLeft(b.history,
                        Row(b.links, a, pos, snapshots[a], slip, trigger, cause))

\* The position on a is marked: it stays the same trade.
Kept(b, c, a) ==
    /\ Held(c) = Held(b) /\ c.sized = b.sized /\ c.links = b.links
    /\ c.history = b.history
    /\ c.positions[a] = Tick(b.positions[a], snapshots[a])
    /\ c.positions[a].id = b.positions[a].id
    /\ c.positions[a].side = b.positions[a].side
    /\ SameRest(b, c, a)

\* It is closed, as it was or as the tick left it.
Closed(b, c, a) ==
    /\ Held(c) = Held(b) \ {a}
    /\ c.sized = Without(b.sized, a)
    /\ c.links = Without(b.links, a)
    /\ \/ RowAdded(b, c, a, b.positions[a])
       \/ RowAdded(b, c, a, Tick(b.positions[a], snapshots[a]))
    /\ SameRest(b, c, a)

\* Trade id is opened on a, at the market m.
Opened(b, c, a, id, m) ==
    /\ a \notin Held(b)
    /\ Cardinality(Held(b)) < MaxPositions
    /\ Held(c) = Held(b) \cup {a}
    /\ c.sized = With(b.sized, a, id)
    /\ c.links = With(b.links, a, [auditId |-> id, side |-> c.positions[a].side])
    /\ c.history = b.history
    /\ \E side \in Sides, plan \in Plans, slip \in Slips :
          c.positions[a] = NewPosition(id, side, plan, m, slip) /\ plan.qty > 0
    /\ SameRest(b, c, a)

\* CheckPosition marks the position, and closes it if a level is hit: what it
\* leaves open is inside its levels.
LEMMA CheckPositionEffect ==
    ASSUME BooksTypeOK(books), IsDict(snapshots, Assets, MarketData),
           NEW a \in Held(books), CheckPosition(a)
    PROVE  /\ BooksTypeOK(books')
           /\ \/ /\ a \notin DOMAIN snapshots
                 /\ books' = books
              \/ /\ Kept(books, books', a)
                 /\ ~StopHit(books'.positions[a], snapshots[a].mark)
                 /\ ~TakeHit(books'.positions[a], snapshots[a].mark)
              \/ /\ Closed(books, books', a)
                 /\ RowAdded(books, books', a, Tick(books.positions[a], snapshots[a]))
<1>1. CASE a \notin DOMAIN snapshots
  BY <1>1 DEF CheckPosition
<1>2. CASE a \in DOMAIN snapshots
  <2> DEFINE m == snapshots[a]
             pos == Tick(books.positions[a], m)
             ticked == [books EXCEPT !.positions[a] = pos]
             trigger(slip) == InferTrigger(pos, ExitPrice(pos.side, m.mark, slip))
  <2>1. m \in MarketData
    BY <1>2 DEF IsDict
  <2>2. books.positions[a] \in Position
    BY DEF BooksTypeOK, IsDict, Held
  <2>3. pos.id = books.positions[a].id /\ pos.side = books.positions[a].side
    BY <2>1, <2>2, TickType
  <2>4. /\ BooksTypeOK(ticked)
        /\ ticked.sized = books.sized /\ ticked.links = books.links
        /\ ticked.history = books.history
        /\ Held(ticked) = Held(books)
        /\ ticked.positions[a] = pos
        /\ \A x \in Held(books) : x # a => ticked.positions[x] = books.positions[x]
    BY <2>1, TickEffect
  <2>5. \/ \E slip \in Slips, cause \in Triggers :
              books' = CloseTrade(ticked, a, m, slip, trigger(slip), cause)
        \/ /\ ~StopHit(pos, m.mark)
           /\ ~TakeHit(pos, m.mark)
           /\ books' = ticked
    BY <1>2, Zenon DEF CheckPosition, Triggers
  <2>6. \A slip : trigger(slip) \in Triggers
    BY DEF InferTrigger, Triggers
  <2> HIDE DEF m, pos, ticked, trigger
  <2>7. ASSUME NEW slip \in Slips, NEW cause \in Triggers,
               books' = CloseTrade(ticked, a, m, slip, trigger(slip), cause)
        PROVE  /\ BooksTypeOK(books') /\ Closed(books, books', a)
               /\ RowAdded(books, books', a, Tick(books.positions[a], snapshots[a]))
    <3>1. /\ BooksTypeOK(books')
          /\ books'.sized = Without(ticked.sized, a)
          /\ books'.links = Without(ticked.links, a)
          /\ books'.history = AppendLeft(ticked.history,
                Row(ticked.links, a, ticked.positions[a], m, slip, trigger(slip), cause))
          /\ Held(books') = Held(ticked) \ {a}
          /\ \A x \in Held(books') : books'.positions[x] = ticked.positions[x]
      <4>1. a \in Held(ticked) /\ trigger(slip) \in Triggers
        BY <2>4, <2>6
      <4> QED
        BY <2>1, <2>4, <2>7, <4>1, CloseTradeEffect
    <3>2. trigger(slip) \in Triggers
      BY <2>6
    <3>3. RowAdded(books, books', a, Tick(books.positions[a], snapshots[a]))
      BY <2>4, <3>1, <3>2 DEF RowAdded, m, pos
    <3> QED
      BY <2>4, <3>1, <3>3 DEF Closed, SameRest
  <2>8. ASSUME books' = ticked
        PROVE  Kept(books, books', a)
    BY <2>3, <2>4, <2>8 DEF Kept, SameRest, pos, m
  <2>9. CASE \E slip \in Slips, cause \in Triggers :
               books' = CloseTrade(ticked, a, m, slip, trigger(slip), cause)
    BY <2>7, <2>9
  <2>10. CASE ~StopHit(pos, m.mark) /\ ~TakeHit(pos, m.mark) /\ books' = ticked
    BY <2>4, <2>8, <2>10 DEF m
  <2> QED
    BY <2>5, <2>9, <2>10
<1> QED
  BY <1>1, <1>2

\* A close by a decision (a cut, or the first half of a flip).
LEMMA CloseEffect ==
    ASSUME NEW b, BooksTypeOK(b), NEW a \in Held(b), snapshots[a] \in MarketData,
           NEW slip \in Slips, NEW why \in Triggers
    PROVE  LET c == CloseTrade(b, a, snapshots[a], slip, why, why) IN
           BooksTypeOK(c) /\ Closed(b, c, a)
BY CloseTradeEffect DEF Closed, SameRest, RowAdded

\* _enter_sized leaves the books it is given alone, or opens one trade on an
\* asset without a position, within the limit on their count.
LEMMA EnterSizedEffect ==
    ASSUME NEW b, BooksTypeOK(b), NEW d \in Decision,
           IsDict(snapshots, Assets, MarketData), d.asset \in DOMAIN snapshots,
           nextId \in 1..(MaxOpens + 1), EnterSized(b, d)
    PROVE  /\ BooksTypeOK(books')
           /\ \/ books' = b /\ nextId' = nextId /\ seen' = seen
              \/ /\ Opened(b, books', d.asset, nextId, snapshots[d.asset])
                 /\ nextId \in Ids
                 /\ nextId' = nextId + 1
                 /\ seen' = seen \cup {nextId}
           /\ verdict' \in {"done", "vetoed"}
<1>1. CASE Refuse(b)
  BY <1>1 DEF Refuse
<1>2. CASE ~Refuse(b)
  <2> DEFINE a == d.asset
             m == snapshots[a]
  <2>1. /\ d.side # "none" /\ nextId <= MaxOpens
        /\ nextId' = nextId + 1 /\ seen' = seen \cup {nextId} /\ verdict' = "done"
        /\ \E plan \in Plans, slip \in Slips :
              /\ plan.qty > 0
              /\ GateApproves(b, a, plan.qty * m.mark)
              /\ books' = OpenTrade(b, a, nextId, d.side, plan, m, slip)
    BY <1>2 DEF EnterSized
  <2>2. PICK plan \in Plans, slip \in Slips :
              /\ plan.qty > 0
              /\ GateApproves(b, a, plan.qty * m.mark)
              /\ books' = OpenTrade(b, a, nextId, d.side, plan, m, slip)
    BY <2>1
  <2>3. a \notin Held(b) /\ Cardinality(Held(b)) < MaxPositions
    BY <2>2 DEF GateApproves
  <2>4. a \in Assets /\ m \in MarketData /\ d.side \in Sides
    BY <2>1 DEF Decision, IsDict
  <2>5. nextId \in Ids
    BY <2>1, LimitAssumption DEF Ids
  <2> DEFINE pos == NewPosition(nextId, d.side, plan, m, slip)
             link == [auditId |-> nextId, side |-> d.side]
  <2> HIDE DEF a, m
  <2>6. /\ BooksTypeOK(books')
        /\ books'.sized = With(b.sized, a, nextId)
        /\ books'.links = With(b.links, a, link)
        /\ books'.history = b.history
        /\ Held(books') = Held(b) \cup {a}
        /\ books'.positions[a] = pos
        /\ \A x \in Held(b) : x # a => books'.positions[x] = b.positions[x]
    BY <2>2, <2>4, <2>5, OpenTradeEffect
  <2>7. pos.side = d.side
    BY <2>2, <2>4, <2>5, NewPositionType
  <2> HIDE DEF pos
  <2>8. /\ books'.links = With(b.links, a, [auditId |-> nextId,
                                            side |-> books'.positions[a].side])
        /\ SameRest(b, books', a)
    BY <2>6, <2>7 DEF SameRest
  <2>9. \E side \in Sides, p \in Plans, s \in Slips :
           books'.positions[a] = NewPosition(nextId, side, p, m, s) /\ p.qty > 0
    BY <2>2, <2>4, <2>6 DEF pos
  <2>10. Opened(b, books', a, nextId, m)
    BY <2>3, <2>6, <2>8, <2>9 DEF Opened
  <2> QED
    BY <2>1, <2>5, <2>6, <2>10 DEF a, m
<1> QED
  BY <1>1, <1>2

\* The five branches of _apply: a decision changes nothing, or closes the
\* position on its asset, or opens one, or (a flip) does both in that order.
LEMMA ApplyEffect ==
    ASSUME TypeOK, NEW d \in Decision, ApplyDecision(d)
    PROVE  /\ BooksTypeOK(books')
           /\ verdict' \in {"done", "vetoed"}
           /\ \/ books' = books /\ nextId' = nextId /\ seen' = seen
              \/ /\ d.asset \in DOMAIN snapshots
                 /\ \E b : /\ BooksTypeOK(b)
                           /\ \/ b = books
                              \/ d.asset \in Held(books) /\ Closed(books, b, d.asset)
                           /\ \/ books' = b /\ nextId' = nextId /\ seen' = seen
                              \/ /\ Opened(b, books', d.asset, nextId,
                                           snapshots[d.asset])
                                 /\ nextId \in Ids
                                 /\ nextId' = nextId + 1
                                 /\ seen' = seen \cup {nextId}
<1> DEFINE a == d.asset
           Done(b) == /\ BooksTypeOK(books')
                      /\ verdict' \in {"done", "vetoed"}
                      /\ \/ books' = b /\ nextId' = nextId /\ seen' = seen
                         \/ /\ Opened(b, books', a, nextId, snapshots[a])
                            /\ nextId \in Ids
                            /\ nextId' = nextId + 1
                            /\ seen' = seen \cup {nextId}
<1>1. /\ BooksTypeOK(books) /\ IsDict(snapshots, Assets, MarketData)
      /\ nextId \in 1..(MaxOpens + 1)
  BY DEF TypeOK
<1>2. ASSUME NEW b, BooksTypeOK(b), a \in DOMAIN snapshots, EnterSized(b, d)
      PROVE  Done(b)
  BY <1>1, <1>2, EnterSizedEffect
<1>3. ASSUME NEW slip \in Slips, NEW why \in Triggers,
             a \in DOMAIN snapshots, a \in Held(books)
      PROVE  LET b == CloseTrade(books, a, snapshots[a], slip, why, why) IN
             BooksTypeOK(b) /\ Closed(books, b, a)
  <2>1. snapshots[a] \in MarketData
    BY <1>1, <1>3 DEF IsDict
  <2> QED
    BY <1>1, <1>3, <2>1, CloseEffect
<1>4. CASE ApplyUnseen(d)
  BY <1>1, <1>4 DEF ApplyUnseen, Refuse
<1>5. CASE ApplyHold(d)
  BY <1>1, <1>5 DEF ApplyHold, Fill
<1>6. CASE ApplyEnter(d)
  <2>1. CASE a \in Held(books)
    BY <1>1, <1>6, <2>1 DEF ApplyEnter, Refuse
  <2>2. CASE a \notin Held(books)
    <3>1. a \in DOMAIN snapshots /\ Done(books)
      BY <1>1, <1>2, <1>6, <2>2 DEF ApplyEnter
    <3> QED
      BY <1>1, <3>1
  <2> QED
    BY <2>1, <2>2
<1>7. CASE ApplyCut(d)
  <2>1. CASE a \notin Held(books)
    BY <1>1, <1>7, <2>1 DEF ApplyCut, Refuse
  <2>2. CASE a \in Held(books)
    <3>1. PICK slip \in Slips :
             Fill(CloseTrade(books, a, snapshots[a], slip, "cut", "cut"))
      BY <1>7, <2>2 DEF ApplyCut
    <3> DEFINE b == CloseTrade(books, a, snapshots[a], slip, "cut", "cut")
    <3>2. a \in DOMAIN snapshots
      BY <1>7 DEF ApplyCut
    <3>3. BooksTypeOK(b) /\ Closed(books, b, a)
      BY <1>3, <2>2, <3>2 DEF Triggers
    <3>4. books' = b /\ verdict' = "done" /\ nextId' = nextId /\ seen' = seen
      BY <3>1 DEF Fill
    <3> HIDE DEF b
    <3> QED
      BY <2>2, <3>2, <3>3, <3>4
  <2> QED
    BY <2>1, <2>2
<1>8. CASE ApplyFlip(d)
  <2>1. a \in DOMAIN snapshots
    BY <1>8 DEF ApplyFlip
  <2>2. CASE a \notin Held(books)
    <3>1. Done(books)
      BY <1>1, <1>2, <1>8, <2>1, <2>2 DEF ApplyFlip
    <3> QED
      BY <1>1, <2>1, <3>1
  <2>3. CASE a \in Held(books)
    <3>1. PICK slip \in Slips :
             EnterSized(CloseTrade(books, a, snapshots[a], slip, "flip", "flip"), d)
      BY <1>8, <2>3 DEF ApplyFlip
    <3> DEFINE b == CloseTrade(books, a, snapshots[a], slip, "flip", "flip")
    <3>2. BooksTypeOK(b) /\ Closed(books, b, a)
      BY <1>3, <2>1, <2>3 DEF Triggers
    <3> HIDE DEF b
    <3>3. Done(b)
      BY <1>2, <2>1, <3>1, <3>2 DEF b
    <3> QED
      BY <2>1, <2>3, <3>2, <3>3
  <2> QED
    BY <2>2, <2>3
<1> QED
  BY <1>4, <1>5, <1>6, <1>7, <1>8 DEF ApplyDecision

-----------------------------------------------------------------------------
(* Type correctness.                                                       *)

\* Strengthening: the positions left to check are open ones (step() walks a
\* list it took of portfolio.positions), and there are none after the stops.
UncheckedHeld ==
    /\ unchecked \subseteq Held(books)
    /\ pc # "stops" => unchecked = {}

TypeInv == TypeOK /\ UncheckedHeld

\* Every step of the loop and of the agent keeps the types: whatever the LLM
\* answers and the market does, no KeyError on an asset, no entry of the wrong
\* shape in any of the four dictionaries the close sites maintain.
LEMMA TypeStep ==
    ASSUME TypeInv, [Next]_vars
    PROVE  TypeInv'
<1> USE DEF TypeInv, UncheckedHeld
<1>0. /\ TypeOK /\ BooksTypeOK(books) /\ IsDict(snapshots, Assets, MarketData)
      /\ Held(books) \subseteq Assets
      /\ MaxOpens \in Nat /\ MaxDecisions \in Nat
  BY LimitAssumption DEF TypeOK, BooksTypeOK, IsDict, Held
<1>1. CASE Fetch
  <2>1. PICK fetched \in SUBSET Assets : snapshots' \in [fetched -> MarketData]
    BY <1>1 DEF Fetch
  <2>2. IsDict(snapshots', Assets, MarketData)
    BY <2>1 DEF IsDict
  <2> QED
    BY <1>0, <1>1, <2>2 DEF Fetch, TypeOK, BooksTypeOK, Held
<1>2. ASSUME NEW a \in Assets, CheckPosition(a) PROVE TypeInv'
  <2>1. /\ a \in Held(books) /\ pc = "stops" /\ unchecked' = unchecked \ {a}
        /\ UNCHANGED <<pc, snapshots, nextId, call, due, batch, verdict, seen>>
    BY <1>2 DEF CheckPosition
  <2>2. /\ BooksTypeOK(books')
        /\ \/ books' = books
           \/ Kept(books, books', a)
           \/ Closed(books, books', a)
    BY <1>0, <1>2, <2>1, CheckPositionEffect
  <2>3. Held(books) \ {a} \subseteq Held(books')
    BY <2>2 DEF Kept, Closed
  <2>4. TypeOK'
    BY <1>0, <2>1, <2>2 DEF TypeOK
  <2> QED
    BY <2>1, <2>3, <2>4 DEF Held
<1>3. CASE StopsChecked
  BY <1>0, <1>3 DEF StopsChecked, TypeOK, BooksTypeOK, Held
<1>4. CASE Drain
  BY <1>0, <1>4 DEF Drain, TypeOK, BooksTypeOK, Held
<1>5. ASSUME NEW d \in Decision, ApplyDecision(d) PROVE TypeInv'
  <2>1. /\ pc = "apply" /\ batch > 0 /\ batch' = batch - 1
        /\ UNCHANGED <<pc, snapshots, unchecked, call, due>>
    BY <1>5 DEF ApplyDecision, ApplyUnseen, ApplyEnter, ApplyCut, ApplyFlip,
                ApplyHold, Applying
  <2>2. /\ BooksTypeOK(books') /\ verdict' \in {"done", "vetoed"}
        /\ \/ nextId' = nextId /\ seen' = seen
           \/ nextId \in Ids /\ nextId' = nextId + 1 /\ seen' = seen \cup {nextId}
    BY <1>0, <1>5, ApplyEffect
  <2>3. nextId' \in 1..(MaxOpens + 1) /\ seen' \subseteq Ids
    <3>1. nextId \in 1..(MaxOpens + 1) /\ seen \subseteq Ids
      BY <1>0 DEF TypeOK
    <3>2. nextId \in Ids => nextId + 1 \in 1..(MaxOpens + 1)
      BY <1>0 DEF Ids
    <3> QED
      BY <2>2, <3>1, <3>2
  <2>4. batch' \in 0..MaxDecisions
    BY <1>0, <2>1 DEF TypeOK
  <2>5. TypeOK'
    BY <1>0, <2>1, <2>2, <2>3, <2>4 DEF TypeOK
  <2>6. unchecked' = {}
    BY <2>1
  <2> QED
    BY <2>5, <2>6 DEF Held
<1>6. CASE Applied
  BY <1>0, <1>6 DEF Applied, TypeOK, BooksTypeOK, Held
<1>7. CASE Launch
  BY <1>0, <1>7, NoEntriesDict DEF Launch, Thinking, TypeOK, BooksTypeOK, Held
<1>8. CASE AgentRead
  <2>1. HeldIds(books) \subseteq Ids
    BY <1>0 DEF HeldIds, Held, BooksTypeOK, IsDict, Position
  <2> QED
    BY <1>0, <1>8, <2>1 DEF AgentRead, TypeOK, BooksTypeOK, Held
<1>9. CASE AgentAnswer
  BY <1>0, <1>9 DEF AgentAnswer, TypeOK, BooksTypeOK, Held
<1>10. CASE UNCHANGED vars
  BY <1>0, <1>10 DEF vars, TypeOK, BooksTypeOK, Held
<1> QED
  BY <1>1, <1>2, <1>3, <1>4, <1>5, <1>6, <1>7, <1>8, <1>9, <1>10
     DEF Next, MainThread

\* The types hold when main() starts.
LEMMA TypeInit ==
    ASSUME Init
    PROVE  TypeInv
<1>1. BooksTypeOK(books)
  <2>1. /\ IsDict(NoEntries, Assets, Position) /\ IsDict(NoEntries, Assets, Ids)
        /\ IsDict(NoEntries, Assets, Link)
    BY NoEntriesDict
  <2>2. IsHistory(NoEntries)
    <3>1. 0 \in 0..HistoryMax /\ NoEntries \in [1..0 -> Trade]
      BY LimitAssumption DEF NoEntries
    <3> QED
      BY <3>1 DEF IsHistory
  <2> QED
    BY <2>1, <2>2, LimitAssumption DEF Init, BooksTypeOK
<1>2. IsDict(snapshots, Assets, MarketData)
  BY NoEntriesDict DEF Init
<1>3. 1 \in 1..(MaxOpens + 1) /\ 0 \in 0..MaxDecisions
  BY LimitAssumption
<1> QED
  BY <1>1, <1>2, <1>3 DEF Init, TypeInv, TypeOK, UncheckedHeld

\* Type correctness of the trading loop, with what it rests on.
THEOREM TypeInvariant == Spec => []TypeInv
BY TypeInit, TypeStep, PTL DEF Spec

\* In every reachable state TypeOK holds.
THEOREM TypeCorrect == Spec => []TypeOK
<1>1. TypeInv => TypeOK
  BY DEF TypeInv
<1> QED
  BY <1>1, TypeInvariant, PTL

-----------------------------------------------------------------------------
(* The three views of an open trade agree.                                 *)

\* BooksAgree, of any books.
Agree(b) ==
    /\ DOMAIN b.sized = Held(b)
    /\ DOMAIN b.links = Held(b)
    /\ \A x \in Held(b) :
          /\ b.sized[x] = b.positions[x].id
          /\ b.links[x] = [auditId |-> b.positions[x].id,
                           side |-> b.positions[x].side]

\* They agree after a mark,
LEMMA AgreeKept ==
    ASSUME NEW b, NEW c, NEW a, Agree(b), Kept(b, c, a)
    PROVE  Agree(c)
BY DEF Agree, Kept, SameRest

\* after a close, which undoes all that the open did,
LEMMA AgreeClosed ==
    ASSUME NEW b, NEW c, NEW a, Agree(b), Closed(b, c, a)
    PROVE  Agree(c)
<1> DEFINE sized == b.sized
           links == b.links
<1>2. c.sized = Without(sized, a) /\ c.links = Without(links, a)
  BY DEF Closed
<1>3. DOMAIN sized = Held(b) /\ DOMAIN links = Held(b)
  BY DEF Agree
<1>4. \A x \in Held(b) : /\ sized[x] = b.positions[x].id
                         /\ links[x] = [auditId |-> b.positions[x].id,
                                        side |-> b.positions[x].side]
  BY DEF Agree
<1> HIDE DEF sized, links
<1>5. /\ DOMAIN Without(sized, a) = DOMAIN sized \ {a}
      /\ DOMAIN Without(links, a) = DOMAIN links \ {a}
      /\ \A x \in DOMAIN sized : x # a => Without(sized, a)[x] = sized[x]
      /\ \A x \in DOMAIN links : x # a => Without(links, a)[x] = links[x]
  BY WithoutEntries
<1>6. /\ Held(c) = Held(b) \ {a}
      /\ \A x \in Held(b) : x # a => c.positions[x] = b.positions[x]
  BY DEF Closed, SameRest
<1> QED
  BY <1>2, <1>3, <1>4, <1>5, <1>6 DEF Agree

\* and after an open, which writes all three under the same id.
LEMMA AgreeOpened ==
    ASSUME NEW b, NEW c, NEW a \in Assets, NEW id \in Ids, NEW m \in MarketData,
           Agree(b), Opened(b, c, a, id, m)
    PROVE  Agree(c)
<1> DEFINE sized == b.sized
           links == b.links
           link == [auditId |-> id, side |-> c.positions[a].side]
<1>2. PICK side \in Sides, plan \in Plans, slip \in Slips :
         c.positions[a] = NewPosition(id, side, plan, m, slip) /\ plan.qty > 0
  BY DEF Opened
<1>3. c.positions[a].id = id /\ c.positions[a].side = side
  BY <1>2, NewPositionType
<1>5. c.sized = With(sized, a, id) /\ c.links = With(links, a, link)
  BY DEF Opened
<1>6. DOMAIN sized = Held(b) /\ DOMAIN links = Held(b)
  BY DEF Agree
<1>7. \A x \in Held(b) : /\ sized[x] = b.positions[x].id
                         /\ links[x] = [auditId |-> b.positions[x].id,
                                        side |-> b.positions[x].side]
  BY DEF Agree
<1>8. /\ Held(c) = Held(b) \cup {a}
      /\ \A x \in Held(b) : x # a => c.positions[x] = b.positions[x]
  BY DEF Opened, SameRest
<1>9. link = [auditId |-> c.positions[a].id, side |-> c.positions[a].side]
  BY <1>3
<1> HIDE DEF sized, links, link
<1>10. /\ DOMAIN With(sized, a, id) = DOMAIN sized \cup {a}
       /\ With(sized, a, id)[a] = id
       /\ \A x \in DOMAIN sized : x # a => With(sized, a, id)[x] = sized[x]
  BY DEF With
<1>11. /\ DOMAIN With(links, a, link) = DOMAIN links \cup {a}
       /\ With(links, a, link)[a] = link
       /\ \A x \in DOMAIN links : x # a => With(links, a, link)[x] = links[x]
  BY DEF With
<1> QED
  BY <1>3, <1>5, <1>6, <1>7, <1>8, <1>9, <1>10, <1>11 DEF Agree

\* The steps that change the books, whatever they are called.
LEMMA AgreeStep ==
    ASSUME TypeInv, Agree(books), [Next]_vars
    PROVE  Agree(books')
<1>0. /\ TypeOK /\ BooksTypeOK(books) /\ IsDict(snapshots, Assets, MarketData)
  BY DEF TypeInv, TypeOK
<1>1. ASSUME NEW a \in Assets, CheckPosition(a) PROVE Agree(books')
  <2>1. a \in Held(books)
    BY <1>1 DEF CheckPosition, TypeInv, UncheckedHeld
  <2> QED
    BY <1>0, <1>1, <2>1, CheckPositionEffect, AgreeKept, AgreeClosed
<1>2. ASSUME NEW d \in Decision, ApplyDecision(d) PROVE Agree(books')
  <2>1. CASE books' = books
    BY <2>1
  <2>2. CASE books' # books
    <3>1. d.asset \in DOMAIN snapshots /\ d.asset \in Assets
      BY <1>0, <1>2, <2>2, ApplyEffect DEF Decision
    <3>2. snapshots[d.asset] \in MarketData
      BY <1>0, <3>1 DEF IsDict
    <3>3. PICK b : /\ BooksTypeOK(b)
                   /\ \/ b = books
                      \/ Closed(books, b, d.asset)
                   /\ \/ books' = b
                      \/ /\ Opened(b, books', d.asset, nextId, snapshots[d.asset])
                         /\ nextId \in Ids
      BY <1>0, <1>2, <2>2, ApplyEffect
    <3>4. Agree(b)
      BY <1>0, <3>3, AgreeClosed
    <3> QED
      BY <3>1, <3>2, <3>3, <3>4, AgreeOpened
  <2> QED
    BY <2>1, <2>2
<1>3. CASE UNCHANGED books
  BY <1>3
<1>4. (Fetch \/ StopsChecked \/ Drain \/ Applied \/ Launch \/ AgentRead
        \/ AgentAnswer \/ UNCHANGED vars) => UNCHANGED books
  BY DEF Fetch, StopsChecked, Drain, Applied, Launch, AgentRead, AgentAnswer, vars
<1> QED
  BY <1>1, <1>2, <1>3, <1>4 DEF Next, MainThread

\* Portfolio, sizing cache and dashboard links always describe the same open
\* trades, for any universe and any sequence of stops, takes, cuts and flips.
THEOREM BooksAgreement == Spec => []BooksAgree
<1>1. Init => Agree(books)
  BY DEF Init, Agree, Held, NoEntries
<1>2. TypeInv /\ Agree(books) /\ [Next]_vars => Agree(books)'
  BY AgreeStep
<1>3. Agree(books) => BooksAgree
  BY DEF Agree, BooksAgree
<1> QED
  BY <1>1, <1>2, <1>3, TypeInvariant, PTL DEF Spec

-----------------------------------------------------------------------------
(* The limit on the count of positions.                                    *)

\* PositionLimit, of any books.
Within(b) == Cardinality(Held(b)) <= MaxPositions

\* The positions are finitely many: they are keyed by the universe.
LEMMA HeldFinite ==
    ASSUME NEW b, BooksTypeOK(b)
    PROVE  IsFiniteSet(Held(b)) /\ Cardinality(Held(b)) \in Nat
<1>1. Held(b) \subseteq Assets
  BY DEF BooksTypeOK, IsDict, Held
<1> QED
  BY <1>1, AssetsAssumption, FS_Subset, FS_CardinalityType

\* A close makes room,
LEMMA WithinClosed ==
    ASSUME NEW b, NEW c, NEW a, BooksTypeOK(b), Within(b), Closed(b, c, a)
    PROVE  Within(c)
<1> DEFINE S == Held(b)
<1>1. IsFiniteSet(S) /\ Cardinality(S) \in Nat
  BY HeldFinite
<1>2. Held(c) \subseteq S
  BY DEF Closed
<1> HIDE DEF S
<1>3. Cardinality(Held(c)) <= Cardinality(S) /\ Cardinality(Held(c)) \in Nat
  BY <1>1, <1>2, FS_Subset, FS_CardinalityType
<1>4. Cardinality(S) <= MaxPositions
  BY DEF Within, S
<1> QED
  BY <1>1, <1>3, <1>4, LimitAssumption DEF Within

\* and an open needs it: the gate reads the very books the trade joins.
LEMMA WithinOpened ==
    ASSUME NEW b, NEW c, NEW a, NEW id, NEW m, BooksTypeOK(b), Opened(b, c, a, id, m)
    PROVE  Within(c)
<1> DEFINE S == Held(b)
<1>1. IsFiniteSet(S) /\ Cardinality(S) \in Nat
  BY HeldFinite
<1>2. a \notin S /\ Cardinality(S) < MaxPositions /\ Held(c) = S \cup {a}
  BY DEF Opened
<1> HIDE DEF S
<1>3. Cardinality(S \cup {a}) = Cardinality(S) + 1
  BY <1>1, <1>2, FS_AddElement
<1> QED
  BY <1>1, <1>2, <1>3, LimitAssumption DEF Within

\* Every action of the loop and the agent keeps the count within the limit.
LEMMA WithinStep ==
    ASSUME TypeInv, Within(books), [Next]_vars
    PROVE  Within(books')
<1>0. /\ TypeOK /\ BooksTypeOK(books) /\ IsDict(snapshots, Assets, MarketData)
  BY DEF TypeInv, TypeOK
<1>1. ASSUME NEW a \in Assets, CheckPosition(a) PROVE Within(books')
  <2>1. a \in Held(books)
    BY <1>1 DEF CheckPosition, TypeInv, UncheckedHeld
  <2>2. CASE Closed(books, books', a)
    BY <1>0, <2>2, WithinClosed
  <2>3. CASE books' = books \/ Held(books') = Held(books)
    BY <2>3 DEF Within
  <2> QED
    BY <1>0, <1>1, <2>1, <2>2, <2>3, CheckPositionEffect DEF Kept
<1>2. ASSUME NEW d \in Decision, ApplyDecision(d) PROVE Within(books')
  <2>1. CASE books' = books
    BY <2>1
  <2>2. CASE books' # books
    <3>1. PICK b : /\ BooksTypeOK(b)
                   /\ \/ b = books
                      \/ Closed(books, b, d.asset)
                   /\ \/ books' = b
                      \/ Opened(b, books', d.asset, nextId, snapshots[d.asset])
      BY <1>0, <1>2, <2>2, ApplyEffect
    <3>2. Within(b)
      BY <1>0, <3>1, WithinClosed
    <3> QED
      BY <3>1, <3>2, WithinOpened
  <2> QED
    BY <2>1, <2>2
<1>3. CASE UNCHANGED books
  BY <1>3
<1>4. (Fetch \/ StopsChecked \/ Drain \/ Applied \/ Launch \/ AgentRead
        \/ AgentAnswer \/ UNCHANGED vars) => UNCHANGED books
  BY DEF Fetch, StopsChecked, Drain, Applied, Launch, AgentRead, AgentAnswer, vars
<1> QED
  BY <1>1, <1>2, <1>3, <1>4 DEF Next, MainThread

\* The portfolio never holds more than max_positions positions, whatever the
\* universe, the limit, the order of decisions in a batch and the flips in it.
THEOREM PositionLimitHolds == Spec => []PositionLimit
<1>1. Init => Within(books)
  <2>1. ASSUME Init PROVE Held(books) = {}
    BY <2>1, NoEntriesDict DEF Init, Held
  <2> QED
    BY <2>1, FS_EmptySet, LimitAssumption DEF Within
<1>2. TypeInv /\ Within(books) /\ [Next]_vars => Within(books)'
  BY WithinStep
<1>3. Within(books) => PositionLimit
  BY DEF Within, PositionLimit
<1> QED
  BY <1>1, <1>2, <1>3, TypeInvariant, PTL DEF Spec

-----------------------------------------------------------------------------
(* What the agent's answer knows.                                          *)

\* Strengthening: while decisions are applied no other call is under way.
AnswerAlone ==
    /\ pc = "apply" => call = "idle"
    /\ AnswerKnowsBook

\* Only a decision of the answer itself opens a trade between the agent's
\* reading of the portfolio and the end of its batch.
LEMMA AnswerStep ==
    ASSUME TypeInv, AnswerAlone, [Next]_vars
    PROVE  AnswerAlone'
<1> USE DEF AnswerAlone, AnswerKnowsBook, HeldIds
<1>0. /\ TypeOK /\ BooksTypeOK(books) /\ IsDict(snapshots, Assets, MarketData)
  BY DEF TypeInv, TypeOK
<1>1. CASE Fetch
  BY <1>1 DEF Fetch, Held
<1>2. ASSUME NEW a \in Assets, CheckPosition(a) PROVE AnswerAlone'
  <2>1. /\ a \in Held(books) /\ pc = "stops" /\ pc' = pc
        /\ call' = call /\ seen' = seen
    BY <1>2 DEF CheckPosition, TypeInv, UncheckedHeld
  <2>2. HeldIds(books') \subseteq HeldIds(books)
    BY <1>0, <1>2, <2>1, CheckPositionEffect DEF Kept, Closed, SameRest
  <2> QED
    BY <2>1, <2>2 DEF Held
<1>3. CASE StopsChecked
  BY <1>3 DEF StopsChecked, Held
<1>4. CASE Drain
  BY <1>0, <1>4 DEF Drain, Held
<1>5. ASSUME NEW d \in Decision, ApplyDecision(d) PROVE AnswerAlone'
  <2>1. pc = "apply" /\ pc' = pc /\ call' = call
    BY <1>5 DEF ApplyDecision, ApplyUnseen, ApplyEnter, ApplyCut, ApplyFlip,
                ApplyHold, Applying
  <2>2. HeldIds(books') \subseteq seen'
    <3>1. CASE books' = books /\ seen' = seen
      BY <2>1, <3>1
    <3>2. CASE ~(books' = books /\ seen' = seen)
      <4>1. d.asset \in DOMAIN snapshots /\ d.asset \in Assets
        BY <1>0, <1>5, <3>2, ApplyEffect DEF Decision
      <4>2. PICK b : /\ \/ b = books
                        \/ Closed(books, b, d.asset)
                     /\ \/ books' = b /\ seen' = seen
                        \/ /\ Opened(b, books', d.asset, nextId, snapshots[d.asset])
                           /\ nextId \in Ids
                           /\ seen' = seen \cup {nextId}
        BY <1>0, <1>5, <3>2, ApplyEffect
      <4>3. HeldIds(b) \subseteq seen
        BY <2>1, <4>2 DEF Closed, SameRest
      <4>4. ASSUME Opened(b, books', d.asset, nextId, snapshots[d.asset]),
                   nextId \in Ids
            PROVE  HeldIds(books') \subseteq HeldIds(b) \cup {nextId}
        <5>1. books'.positions[d.asset].id = nextId
          <6>1. snapshots[d.asset] \in MarketData
            BY <1>0, <4>1 DEF IsDict
          <6> QED
            BY <4>4, <6>1, NewPositionType DEF Opened
        <5> QED
          BY <4>4, <5>1 DEF Opened, SameRest
      <4> QED
        BY <4>2, <4>3, <4>4
    <3> QED
      BY <3>1, <3>2
  <2> QED
    BY <2>1, <2>2 DEF Held
<1>6. CASE Applied
  BY <1>6 DEF Applied, Held
<1>7. CASE Launch
  BY <1>7 DEF Launch, Thinking, Held
<1>8. CASE AgentRead
  BY <1>8 DEF AgentRead, Held
<1>9. CASE AgentAnswer
  BY <1>9 DEF AgentAnswer, Held
<1>10. CASE UNCHANGED vars
  BY <1>10 DEF vars, Held
<1> QED
  BY <1>1, <1>2, <1>3, <1>4, <1>5, <1>6, <1>7, <1>8, <1>9, <1>10
     DEF Next, MainThread

\* However long the agent thinks, and however many steps the loop makes
\* meanwhile, its answer meets only trades that it read or opened itself.
THEOREM AnswersKnowBooks == Spec => []AnswerKnowsBook
<1>1. Init => AnswerAlone
  BY DEF Init, AnswerAlone, AnswerKnowsBook
<1>2. TypeInv /\ AnswerAlone /\ [Next]_vars => AnswerAlone'
  BY AnswerStep
<1>3. AnswerAlone => AnswerKnowsBook
  BY DEF AnswerAlone
<1> QED
  BY <1>1, <1>2, <1>3, TypeInvariant, PTL DEF Spec

-----------------------------------------------------------------------------
(* Open positions are inside their levels.                                 *)

\* A position just opened is: its stop and take are each at least one tick away
\* from the mark it was sized at, on the two sides of it.
LEMMA NewPositionInside ==
    ASSUME NEW id, NEW side \in Sides, NEW plan \in Plans,
           NEW m \in MarketData, NEW slip \in Slips
    PROVE  LET pos == NewPosition(id, side, plan, m, slip) IN
           ~StopHit(pos, m.mark) /\ ~TakeHit(pos, m.mark)
<1> DEFINE pos == NewPosition(id, side, plan, m, slip)
<1>1. /\ plan.stopDist \in Nat /\ plan.stopDist > 0
      /\ plan.takeDist \in Nat /\ plan.takeDist > 0 /\ m.mark \in Nat
  BY PlanType, MarketType
<1>2. /\ pos.side = side
      /\ pos.stop = m.mark - Direction(side) * plan.stopDist
      /\ pos.take = m.mark + Direction(side) * plan.takeDist
  BY DEF NewPosition
<1> HIDE DEF pos
<1>3. CASE side = "long"
  <2>1. Direction(side) = 1
    BY <1>3 DEF Direction
  <2>2. pos.stop < m.mark /\ m.mark < pos.take /\ pos.stop \in Int /\ pos.take \in Int
    BY <1>1, <1>2, <2>1
  <2> QED
    BY <1>1, <1>2, <1>3, <2>2 DEF StopHit, TakeHit, pos
<1>4. CASE side # "long"
  <2>1. Direction(side) = -1
    BY <1>4 DEF Direction
  <2>2. pos.take < m.mark /\ m.mark < pos.stop /\ pos.stop \in Int /\ pos.take \in Int
    BY <1>1, <1>2, <2>1
  <2> QED
    BY <1>1, <1>2, <1>4, <2>2 DEF StopHit, TakeHit, pos
<1> QED
  BY <1>3, <1>4

\* Checking an asset puts it inside its levels, decisions only open positions
\* that are, and the market of the tick does not move under them.
LEMMA InsideStep ==
    ASSUME TypeInv, InsideLevels, [Next]_vars
    PROVE  InsideLevels'
<1> USE DEF InsideLevels
<1>0. /\ TypeOK /\ BooksTypeOK(books) /\ IsDict(snapshots, Assets, MarketData)
      /\ Held(books) \subseteq Assets
  BY DEF TypeInv, TypeOK, BooksTypeOK, IsDict, Held
<1>1. CASE Fetch
  BY <1>1 DEF Fetch, Held
<1>2. ASSUME NEW a \in Assets, CheckPosition(a) PROVE InsideLevels'
  <2>1. /\ a \in Held(books) /\ unchecked' = unchecked \ {a}
        /\ snapshots' = snapshots
    BY <1>2 DEF CheckPosition, TypeInv, UncheckedHeld
  <2>2. \/ a \notin DOMAIN snapshots /\ books' = books
        \/ /\ Kept(books, books', a)
           /\ ~StopHit(books'.positions[a], snapshots[a].mark)
           /\ ~TakeHit(books'.positions[a], snapshots[a].mark)
        \/ Closed(books, books', a)
    BY <1>0, <1>2, <2>1, CheckPositionEffect
  <2>3. Held(books)' = Held(books')
    BY DEF Held
  <2>4. ASSUME NEW x \in (Held(books') \cap DOMAIN snapshots) \ unchecked'
        PROVE  /\ ~StopHit(books'.positions[x], snapshots[x].mark)
               /\ ~TakeHit(books'.positions[x], snapshots[x].mark)
    <3>1. CASE x = a
      BY <2>2, <2>4, <3>1 DEF Closed
    <3>2. CASE x # a
      <4>1. x \in Held(books) /\ books'.positions[x] = books.positions[x]
        BY <2>2, <2>4, <3>2 DEF Kept, Closed, SameRest
      <4>2. x \notin unchecked
        BY <2>1, <2>4, <3>2
      <4> QED
        BY <2>4, <4>1, <4>2
    <3> QED
      BY <3>1, <3>2
  <2> QED
    BY <2>1, <2>3, <2>4
<1>3. CASE StopsChecked
  BY <1>3 DEF StopsChecked, Held
<1>4. CASE Drain
  BY <1>4 DEF Drain, Held
<1>5. ASSUME NEW d \in Decision, ApplyDecision(d) PROVE InsideLevels'
  <2>1. /\ pc = "apply" /\ snapshots' = snapshots /\ unchecked' = unchecked
        /\ unchecked = {}
    BY <1>5 DEF ApplyDecision, ApplyUnseen, ApplyEnter, ApplyCut, ApplyFlip,
                ApplyHold, Applying, TypeInv, UncheckedHeld
  <2>2. Held(books)' = Held(books')
    BY DEF Held
  <2> DEFINE Inside(b, x) == /\ ~StopHit(b.positions[x], snapshots[x].mark)
                             /\ ~TakeHit(b.positions[x], snapshots[x].mark)
  <2>3. \A x \in Held(books) \cap DOMAIN snapshots : Inside(books, x)
    BY <2>1
  <2>4. CASE books' = books
    BY <2>1, <2>2, <2>4 DEF Held
  <2>5. CASE books' # books
    <3>1. d.asset \in DOMAIN snapshots
      BY <1>0, <1>5, <2>5, ApplyEffect
    <3>2. PICK b : /\ \/ b = books
                      \/ Closed(books, b, d.asset)
                   /\ \/ books' = b
                      \/ Opened(b, books', d.asset, nextId, snapshots[d.asset])
      BY <1>0, <1>5, <2>5, ApplyEffect
    <3>3. \A x \in Held(b) \cap DOMAIN snapshots : Inside(b, x)
      BY <2>3, <3>2 DEF Closed, SameRest
    <3>4. ASSUME Opened(b, books', d.asset, nextId, snapshots[d.asset])
          PROVE  \A x \in Held(books') \cap DOMAIN snapshots : Inside(books', x)
      <4>1. Inside(books', d.asset)
        <5>1. snapshots[d.asset] \in MarketData
          BY <1>0, <3>1 DEF IsDict
        <5> QED
          BY <3>4, <5>1, NewPositionInside DEF Opened
      <4> HIDE DEF Inside
      <4>2. ASSUME NEW x \in Held(b) \cap DOMAIN snapshots, x # d.asset
            PROVE  Inside(books', x)
        BY <3>3, <3>4, <4>2 DEF Opened, SameRest, Inside
      <4> QED
        BY <3>4, <4>1, <4>2 DEF Opened
    <3>5. \A x \in Held(books') \cap DOMAIN snapshots : Inside(books', x)
      BY <3>2, <3>3, <3>4
    <3> QED
      BY <2>1, <2>2, <3>5
  <2> QED
    BY <2>4, <2>5
<1>6. CASE Applied
  BY <1>6 DEF Applied, Held
<1>7. CASE Launch
  BY <1>7, NoEntriesDict DEF Launch, Held
<1>8. CASE AgentRead
  BY <1>8 DEF AgentRead, Held
<1>9. CASE AgentAnswer
  BY <1>9 DEF AgentAnswer, Held
<1>10. CASE UNCHANGED vars
  BY <1>10 DEF vars, Held
<1> QED
  BY <1>1, <1>2, <1>3, <1>4, <1>5, <1>6, <1>7, <1>8, <1>9, <1>10
     DEF Next, MainThread

\* No checked position is ever held at or beyond its stop or take in the tick's
\* market, for any prices, any distances of the levels and any slippage.
THEOREM LevelsRespected == Spec => []InsideLevels
<1>1. Init => InsideLevels
  BY NoEntriesDict DEF Init, InsideLevels, Held
<1>2. TypeInv /\ InsideLevels /\ [Next]_vars => InsideLevels'
  BY InsideStep
<1> QED
  BY <1>1, <1>2, TypeInvariant, PTL DEF Spec

=============================================================================
