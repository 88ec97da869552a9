-------------------------- MODULE TradeRowsProofs --------------------------
(***************************************************************************)
(* Theorems about the trades TradingLoop has opened and the rows of its    *)
(* history: none is lost, what a row shows adds up, funding is charged     *)
(* once for each minute, and the loop keeps a book of them (TradeBook).    *)
(***************************************************************************)
EXTENDS TradingLoopProofs

-----------------------------------------------------------------------------
(* Trades and rows.                                                        *)

\* The length of the history after k closes.
Length(k) == IF k < HistoryMax THEN k ELSE HistoryMax

\* TradesAccountedFor of the books b: n is the id of the next trade, so that
\* n - 1 less the open trades have been closed.
Accounted(b, n) ==
    /\ \A x, y \in Held(b) : b.positions[x].id = b.positions[y].id => x = y
    /\ \A x \in Held(b) : b.positions[x].id < n
    /\ Cardinality(Held(b)) <= n - 1
    /\ DOMAIN b.history = 1..Length(n - 1 - Cardinality(Held(b)))
    /\ \A i \in DOMAIN b.history :
          /\ b.history[i].of < n /\ b.history[i].auditId = b.history[i].of
          /\ \A x \in Held(b) : b.positions[x].id # b.history[i].of
    /\ \A i, j \in DOMAIN b.history : b.history[i].of = b.history[j].of => i = j

\* A mark leaves the trades what they are,
LEMMA AccountedKept ==
    ASSUME NEW b, NEW c, NEW n, NEW a \in Held(b), Accounted(b, n), Kept(b, c, a)
    PROVE  Accounted(c, n)
<1>1. /\ Held(c) = Held(b) /\ c.history = b.history
      /\ \A x \in Held(b) : c.positions[x].id = b.positions[x].id
  BY DEF Kept, SameRest
<1> QED
  BY <1>1 DEF Accounted

\* a close turns a position into the first row, under the same id (record_close
\* takes it from the link, which BooksAgree says is that of the position),
LEMMA AccountedClosed ==
    ASSUME NEW b, NEW c, NEW n \in Nat, NEW a \in Held(b), BooksTypeOK(b),
           snapshots[a] \in MarketData,
           Accounted(b, n), Agree(b), Closed(b, c, a)
    PROVE  Accounted(c, n)
<1> DEFINE id == b.positions[a].id
           k == n - 1 - Cardinality(Held(b))
<1>1. b.positions[a] \in Position
  BY DEF BooksTypeOK, IsDict, Held
<1>2. Tick(b.positions[a], snapshots[a]).id = id
  <2> DEFINE pos == b.positions[a]
  <2>1. pos \in Position
    BY <1>1
  <2> HIDE DEF pos
  <2>2. Tick(pos, snapshots[a]).id = pos.id
    BY <2>1, TickType
  <2> QED
    BY <2>2 DEF pos
<1>3. a \in DOMAIN b.links /\ b.links[a].auditId = id
  <2>1. /\ a \in DOMAIN b.links
        /\ b.links[a] = [auditId |-> id, side |-> b.positions[a].side]
    BY DEF Agree
  <2> QED
    BY <2>1
<1>4. \E row : c.history = AppendLeft(b.history, row) /\ row.of = id /\ row.auditId = id
  <2>1. ASSUME NEW pos, pos.id = id, RowAdded(b, c, a, pos)
        PROVE  \E row : /\ c.history = AppendLeft(b.history, row)
                        /\ row.of = id /\ row.auditId = id
    <3>1. PICK slip \in Slips, trigger \in Triggers, cause \in Triggers :
            c.history = AppendLeft(b.history,
                Row(b.links, a, pos, snapshots[a], slip, trigger, cause))
      BY <2>1 DEF RowAdded
    <3>2. LET row == Row(b.links, a, pos, snapshots[a], slip, trigger, cause)
          IN  row.of = id /\ row.auditId = id
      BY <1>3, <2>1 DEF Row
    <3> QED
      BY <3>1, <3>2
  <2> QED
    BY <1>2, <2>1 DEF Closed
<1>5. PICK row : c.history = AppendLeft(b.history, row) /\ row.of = id /\ row.auditId = id
  BY <1>4
<1>6. /\ Held(c) = Held(b) \ {a}
      /\ \A x \in Held(c) : c.positions[x] = b.positions[x]
  BY DEF Closed, SameRest
<1>7. /\ Cardinality(Held(c)) = Cardinality(Held(b)) - 1
      /\ Cardinality(Held(b)) \in Nat /\ Cardinality(Held(c)) \in Nat
  <2>1. IsFiniteSet(Held(b)) /\ Cardinality(Held(b)) \in Nat
    BY HeldFinite
  <2>2. Cardinality(Held(c)) = Cardinality(Held(b)) - 1
    BY <1>6, <2>1, FS_RemoveElement
  <2>3. Cardinality(Held(c)) \in Nat
    BY <1>6, <2>1, FS_RemoveElement, FS_CardinalityType
  <2> QED
    BY <2>1, <2>2, <2>3
<1> HIDE DEF id
<1>8. /\ \A x \in Held(c) : b.positions[x].id # id
      /\ \A i \in DOMAIN b.history : b.history[i].of # id
      /\ id < n
  BY <1>6 DEF Accounted, id
<1>9. \A i \in DOMAIN c.history :
         \/ i = 1 /\ c.history[i].of = id /\ c.history[i].auditId = id
         \/ i # 1 /\ i - 1 \in DOMAIN b.history /\ c.history[i] = b.history[i - 1]
  <2>1. \A i \in DOMAIN c.history :
           \/ i = 1 /\ c.history[i] = row
           \/ i # 1 /\ i - 1 \in DOMAIN b.history /\ c.history[i] = b.history[i - 1]
    BY <1>5, AppendLeftRows
  <2> QED
    BY <1>5, <2>1
<1>10. DOMAIN c.history = 1..Length(n - 1 - Cardinality(Held(c)))
  <2>1. k \in Nat /\ HistoryMax \in Nat
    BY <1>7, LimitAssumption DEF Accounted
  <2>2. Length(k) \in 0..HistoryMax /\ DOMAIN b.history = 1..Length(k)
    BY <2>1 DEF Length, Accounted
  <2> DEFINE l == Length(k)
  <2>3. DOMAIN c.history = 1..(IF l < HistoryMax THEN l + 1 ELSE HistoryMax)
    <3> HIDE DEF l
    <3>1. l \in 0..HistoryMax /\ DOMAIN b.history = 1..l
      BY <2>2 DEF l
    <3> QED
      BY <1>5, <3>1, AppendLeftLength
  <2>4. n - 1 - Cardinality(Held(c)) = k + 1
    BY <1>7
  <2>5. Length(k + 1) = (IF l < HistoryMax THEN l + 1 ELSE HistoryMax)
    <3> HIDE DEF k
    <3> QED
      BY <2>1 DEF Length
  <2> QED
    BY <2>3, <2>4, <2>5
<1>11. \A i, j \in DOMAIN c.history : c.history[i].of = c.history[j].of => i = j
  <2> SUFFICES ASSUME NEW i \in DOMAIN c.history, NEW j \in DOMAIN c.history,
                      c.history[i].of = c.history[j].of
               PROVE  i = j
    OBVIOUS
  <2>1. i \in Int /\ j \in Int
    <3>1. DOMAIN c.history = {m \in 1..HistoryMax : m = 1 \/ m - 1 \in DOMAIN b.history}
      BY <1>5 DEF AppendLeft
    <3> QED
      BY <3>1
  <2>2. CASE i # 1 /\ j # 1
    <3>1. i - 1 = j - 1
      BY <1>9, <2>2 DEF Accounted
    <3> QED
      BY <2>1, <3>1
  <2>3. CASE i = 1 \/ j = 1
    BY <1>8, <1>9, <2>3
  <2> QED
    BY <2>2, <2>3
<1>12. \A i \in DOMAIN c.history :
          /\ c.history[i].of < n /\ c.history[i].auditId = c.history[i].of
          /\ \A x \in Held(c) : c.positions[x].id # c.history[i].of
  BY <1>6, <1>8, <1>9 DEF Accounted
<1>13. /\ \A x, y \in Held(c) : c.positions[x].id = c.positions[y].id => x = y
       /\ \A x \in Held(c) : c.positions[x].id < n
  BY <1>6 DEF Accounted
<1>14. Cardinality(Held(c)) <= n - 1
  BY <1>7 DEF Accounted
<1> QED
  BY <1>10, <1>11, <1>12, <1>13, <1>14 DEF Accounted

\* and an open takes the next id.
LEMMA AccountedOpened ==
    ASSUME NEW b, NEW c, NEW n \in Ids, NEW a, NEW m, BooksTypeOK(b),
           Accounted(b, n), Opened(b, c, a, n, m)
    PROVE  Accounted(c, n + 1)
<1>1. /\ a \notin Held(b)
      /\ Held(c) = Held(b) \cup {a} /\ c.history = b.history
      /\ c.positions[a].id = n
      /\ \A x \in Held(b) : c.positions[x] = b.positions[x]
  BY DEF Opened, SameRest, NewPosition
<1>2. /\ n \in Nat
      /\ \A x \in Held(b) : b.positions[x].id \in Nat
      /\ \A i \in DOMAIN b.history : b.history[i].of \in Nat
  <2>1. n \in Nat /\ \A x \in Held(b) : b.positions[x].id \in Nat
    BY LimitAssumption DEF Ids, BooksTypeOK, IsDict, Held, Position
  <2>2. \A i \in DOMAIN b.history : b.history[i] \in Trade
    BY DEF BooksTypeOK, IsHistory
  <2> QED
    BY <2>1, <2>2, LimitAssumption DEF Trade, Ids
<1>3. /\ Cardinality(Held(c)) = Cardinality(Held(b)) + 1
      /\ Cardinality(Held(b)) \in Nat
  BY <1>1, HeldFinite, FS_AddElement
<1>4. \A x \in Held(c) : c.positions[x].id < n + 1
  BY <1>1, <1>2 DEF Accounted
<1>5. \A i \in DOMAIN c.history :
         /\ c.history[i].of < n + 1 /\ c.history[i].of # n
         /\ c.history[i].auditId = c.history[i].of
  <2>1. \A i \in DOMAIN b.history :
           b.history[i].of < n /\ b.history[i].auditId = b.history[i].of
    BY DEF Accounted
  <2>2. \A i \in DOMAIN b.history :
           b.history[i].of < n + 1 /\ b.history[i].of # n
    BY <1>2, <2>1
  <2> QED
    BY <1>1, <2>1, <2>2
<1>6. \A x, y \in Held(c) : c.positions[x].id = c.positions[y].id => x = y
  <2>1. \A x \in Held(b) : c.positions[x].id # n
    BY <1>1, <1>2 DEF Accounted
  <2> QED
    BY <1>1, <2>1 DEF Accounted
<1>7. \A i \in DOMAIN c.history : \A x \in Held(c) :
         c.positions[x].id # c.history[i].of
  <2>1. \A i \in DOMAIN b.history : \A x \in Held(b) :
           b.positions[x].id # b.history[i].of
    BY DEF Accounted
  <2>2. \A i \in DOMAIN c.history : c.positions[a].id # c.history[i].of
    BY <1>1, <1>5
  <2> QED
    BY <1>1, <2>1, <2>2
<1>8. \A i, j \in DOMAIN c.history : c.history[i].of = c.history[j].of => i = j
  BY <1>1 DEF Accounted
<1>9. /\ (n + 1) - 1 - Cardinality(Held(c)) = n - 1 - Cardinality(Held(b))
      /\ Cardinality(Held(c)) <= (n + 1) - 1
  BY <1>2, <1>3 DEF Accounted
<1>10. DOMAIN c.history = 1..Length((n + 1) - 1 - Cardinality(Held(c)))
  BY <1>1, <1>9 DEF Accounted
<1> QED
  BY <1>4, <1>5, <1>6, <1>7, <1>8, <1>9, <1>10 DEF Accounted

-----------------------------------------------------------------------------
(* Funding.                                                                *)

\* The times of a position are naturals (Position.entry_ts, last_funding_ts).
LEMMA TimeType ==
    ASSUME NEW pos \in Position
    PROVE  pos.lastFundingTs \in Nat /\ pos.entryTime \in Nat
<1>1. pos.lastFundingTs \in Times /\ pos.entryTime \in Times
  BY DEF Position
<1> QED
  BY <1>1, MarketAssumption

\* FundingChargedOnce, of one position.
Charged(pos) ==
    LET minutes == pos.lastFundingTs - pos.entryTime
        flows == {-Direction(pos.side) * r * pos.qty * m : r \in Rates, m \in Marks}
    IN  /\ minutes >= 0
        /\ \E f \in flows : f * minutes <= pos.accrued
        /\ \E f \in flows : f * minutes >= pos.accrued

\* The flow f over M minutes, and g over e more: the smaller and the larger of
\* the two bound the sum.
LEMMA FlowBounds ==
    ASSUME NEW f \in Int, NEW g \in Int, NEW s \in Int, NEW M \in Nat, NEW e \in Nat
    PROVE  /\ f * M <= s => \/ f * (M + e) <= s + g * e
                            \/ g * (M + e) <= s + g * e
           /\ f * M >= s => \/ f * (M + e) >= s + g * e
                            \/ g * (M + e) >= s + g * e
<1>1. f * (M + e) = f * M + f * e /\ g * (M + e) = g * M + g * e
  OBVIOUS
<1>2. CASE f <= g
  <2>1. f * M <= g * M /\ f * e <= g * e
    BY <1>2
  <2> QED
    BY <1>1, <2>1
<1>3. CASE f > g
  <2>1. f * M >= g * M /\ f * e >= g * e
    BY <1>3
  <2> QED
    BY <1>1, <2>1
<1> QED
  BY <1>2, <1>3

\* A new position has been charged nothing for no time,
LEMMA ChargedNew ==
    ASSUME NEW m \in MarketData, NEW id \in Ids, NEW side \in Sides,
           NEW plan \in Plans, plan.qty > 0, NEW slip \in Slips
    PROVE  Charged(NewPosition(id, side, plan, m, slip))
<1> DEFINE pos == NewPosition(id, side, plan, m, slip)
           flow == -Direction(pos.side) * m.rate * pos.qty * m.mark
<1>1. pos.lastFundingTs = m.ts /\ pos.entryTime = m.ts /\ pos.accrued = 0
  BY DEF NewPosition
<1>2. m.rate \in Rates /\ m.mark \in Marks /\ m.ts \in Int
  BY MarketType DEF MarketData
<1>3. flow \in Int
  <2>1. pos \in Position
    BY NewPositionType
  <2>2. pos.qty \in Int /\ m.rate \in Int /\ m.mark \in Int /\ Direction(pos.side) \in Int
    BY <2>1, PositionType, MarketType, DirectionType
  <2> HIDE DEF pos
  <2> QED
    BY <2>2
<1>4. flow \in {-Direction(pos.side) * r * pos.qty * k : r \in Rates, k \in Marks}
  BY <1>2
<1> HIDE DEF pos, flow
<1>5. pos.lastFundingTs - pos.entryTime = 0 /\ flow * 0 = 0
  BY <1>1, <1>2, <1>3
<1> QED
  BY <1>1, <1>4, <1>5 DEF Charged, pos

\* and a tick charges for the time since the last accrual, if there is any.
LEMMA ChargedTick ==
    ASSUME NEW pos \in Position, NEW m \in MarketData, Charged(pos)
    PROVE  Charged(Tick(pos, m))
<1> DEFINE new == Tick(pos, m)
           flows == {-Direction(pos.side) * r * pos.qty * k : r \in Rates, k \in Marks}
           M == pos.lastFundingTs - pos.entryTime
           e == m.ts - pos.lastFundingTs
           g == -Direction(pos.side) * m.rate * pos.qty * m.mark
<1>1. /\ pos.side \in Sides /\ pos.qty \in Nat /\ pos.accrued \in Int
      /\ pos.lastFundingTs \in Nat /\ pos.entryTime \in Nat
      /\ m.ts \in Nat /\ m.rate \in Rates /\ m.rate \in Int /\ m.mark \in Marks
      /\ m.mark \in Nat /\ Direction(pos.side) \in Int
  <2>1. m.rate \in Rates
    BY DEF MarketData
  <2> QED
    BY <2>1, TimeType, PositionType, MarketType, DirectionType
<1>2. g \in flows /\ flows \subseteq Int
  <2>1. g \in flows
    BY <1>1
  <2>2. \A r \in Rates, k \in Marks : -Direction(pos.side) * r * pos.qty * k \in Int
    BY <1>1, MarketAssumption
  <2> QED
    BY <2>1, <2>2
<1>3. CASE m.ts <= pos.lastFundingTs
  <2>1. /\ new.side = pos.side /\ new.qty = pos.qty /\ new.accrued = pos.accrued
        /\ new.lastFundingTs = pos.lastFundingTs /\ new.entryTime = pos.entryTime
    BY <1>3 DEF Tick, Position
  <2> HIDE DEF new
  <2>2. flows = {-Direction(new.side) * r * new.qty * k : r \in Rates, k \in Marks}
    BY <2>1
  <2>3. /\ M >= 0
        /\ \E f \in flows : f * M <= pos.accrued
        /\ \E f \in flows : f * M >= pos.accrued
    BY DEF Charged
  <2>4. new.lastFundingTs - new.entryTime = M
    BY <2>1
  <2> HIDE DEF flows, M, e, g
  <2>5. /\ \E f \in flows : f * M <= new.accrued
        /\ \E f \in flows : f * M >= new.accrued
    BY <2>1, <2>3
  <2>6. Charged(new)
    BY <2>2, <2>3, <2>4, <2>5 DEF Charged
  <2> QED
    BY <2>6 DEF new
<1>4. CASE m.ts > pos.lastFundingTs
  <2>1. e > 0 /\ e \in Nat /\ ~(m.ts <= pos.lastFundingTs) /\ ~(e <= 0)
    BY <1>1, <1>4
  <2>2. new = [pos EXCEPT !.lastMark = m.mark, !.lastFundingTs = m.ts,
                          !.accrued = @ - Direction(pos.side) * m.rate * pos.qty
                                          * m.mark * e]
    BY <2>1 DEF Tick, AccrueFunding
  <2>3. /\ new.side = pos.side /\ new.qty = pos.qty /\ new.entryTime = pos.entryTime
        /\ new.lastFundingTs = m.ts
        /\ new.accrued = pos.accrued - Direction(pos.side) * m.rate * pos.qty
                                         * m.mark * e
    BY <2>2 DEF Position
  <2>4. new.accrued = pos.accrued + g * e
    <3> DEFINE X == Direction(pos.side) * m.rate * pos.qty * m.mark
    <3>1. X \in Int /\ g = -X
      BY <1>1
    <3>2. new.accrued = pos.accrued - X * e
      BY <2>3
    <3> HIDE DEF X, g, e, new
    <3> QED
      BY <1>1, <2>1, <3>1, <3>2
  <2>5. M \in Nat /\ new.lastFundingTs - new.entryTime = M + e
    <3>1. M >= 0
      BY DEF Charged
    <3> QED
      BY <1>1, <2>3, <3>1
  <2>6. PICK f1 \in flows : f1 * M <= pos.accrued
    BY DEF Charged
  <2>7. PICK f2 \in flows : f2 * M >= pos.accrued
    BY DEF Charged
  <2> HIDE DEF M, e, g, flows, new
  <2>8. f1 \in Int /\ f2 \in Int /\ g \in Int
    BY <1>2
  <2>9. \E f \in flows : f * (M + e) <= new.accrued
    BY <1>1, <1>2, <2>1, <2>4, <2>5, <2>6, <2>8, FlowBounds
  <2>10. \E f \in flows : f * (M + e) >= new.accrued
    BY <1>1, <1>2, <2>1, <2>4, <2>5, <2>7, <2>8, FlowBounds
  <2>11. flows = {-Direction(new.side) * r * new.qty * k : r \in Rates, k \in Marks}
    BY <2>3 DEF flows
  <2>12. M + e >= 0
    BY <2>1, <2>5
  <2> QED
    BY <2>5, <2>9, <2>10, <2>11, <2>12 DEF Charged, new
<1> QED
  BY <1>1, <1>3, <1>4
-----------------------------------------------------------------------------
(* What a row shows.                                                       *)

\* TradeRowsAddUp, of any row and of any history.
AddsUp(t) ==
    t.realized = Bps * Direction(t.side) * (t.exitPrice - t.entryPrice) * t.qty
                    + t.funding - Fee(t.qty, t.exitPrice)
AddUp(history) == \A i \in DOMAIN history : AddsUp(history[i])

\* The positions of b on S have accrued up to this tick's snapshots.
Ticked(b, S) ==
    \A a \in Held(b) \cap DOMAIN snapshots \cap S :
        snapshots[a].ts <= b.positions[a].lastFundingTs

\* The second accrual, in close(), adds nothing to a position that was ticked.
LEMMA RowAddsUp ==
    ASSUME NEW links, NEW a, NEW pos \in Position, NEW m \in MarketData,
           m.ts <= pos.lastFundingTs, NEW slip, NEW trigger, NEW cause
    PROVE  AddsUp(Row(links, a, pos, m, slip, trigger, cause))
<1> DEFINE row == Row(links, a, pos, m, slip, trigger, cause)
           exit == ExitPrice(pos.side, m.mark, slip)
           rolled == AccrueFunding(pos, m)
<1>1. m.ts \in Int /\ pos.lastFundingTs \in Int
  BY MarketType, TimeType
<1>2. rolled = [pos EXCEPT !.lastMark = m.mark]
  <2>1. m.ts - pos.lastFundingTs <= 0
    BY <1>1
  <2> QED
    BY <2>1 DEF AccrueFunding
<1>3. /\ rolled.side = pos.side /\ rolled.qty = pos.qty
      /\ rolled.entryPrice = pos.entryPrice /\ rolled.accrued = pos.accrued
  BY <1>2 DEF Position
<1>4. /\ row.side = pos.side /\ row.exitPrice = exit /\ row.qty = pos.qty
      /\ row.entryPrice = pos.entryPrice /\ row.funding = pos.accrued
      /\ row.realized = RealizedPnl(rolled, exit)
  BY DEF Row
<1> HIDE DEF row, exit, rolled
<1>5. row.realized = Bps * Direction(row.side) * (row.exitPrice - row.entryPrice)
                         * row.qty + row.funding - Fee(row.qty, row.exitPrice)
  BY <1>3, <1>4, Zenon DEF RealizedPnl
<1> QED
  BY <1>5 DEF AddsUp, row

\* A tick brings the funding clock to the snapshot's time, if it was behind.
LEMMA TickReaches ==
    ASSUME NEW pos \in Position, NEW m \in MarketData
    PROVE  m.ts <= Tick(pos, m).lastFundingTs
<1>1. m.ts \in Int /\ pos.lastFundingTs \in Int
  BY MarketType, TimeType
<1>2. CASE m.ts <= pos.lastFundingTs
  BY <1>2 DEF Tick, Position
<1>3. CASE ~(m.ts <= pos.lastFundingTs)
  <2>1. ~(m.ts - pos.lastFundingTs <= 0)
    BY <1>1, <1>3
  <2>2. Tick(pos, m).lastFundingTs = m.ts
    BY <1>3, <2>1 DEF Tick, AccrueFunding, Position
  <2> QED
    BY <1>1, <2>2
<1> QED
  BY <1>2, <1>3

-----------------------------------------------------------------------------
(* The three together.                                                     *)

\* What holds of the books b beside their types, before trade n; S are the
\* assets whose positions the tick has reached.
Rows(b, n, S) ==
    /\ Accounted(b, n)
    /\ \A a \in Held(b) : Charged(b.positions[a])
    /\ AddUp(b.history)
    /\ Ticked(b, S)

\* After a mark the position is charged and has reached the snapshot,
LEMMA RowsKept ==
    ASSUME NEW b, NEW c, NEW n, NEW S, NEW a \in Held(b), BooksTypeOK(b),
           snapshots[a] \in MarketData, Rows(b, n, S), Kept(b, c, a)
    PROVE  Rows(c, n, S \cup {a})
<1> DEFINE pos == b.positions[a]
           m == snapshots[a]
<1>1. pos \in Position
  BY DEF BooksTypeOK, IsDict, Held
<1>2. /\ Held(c) = Held(b) /\ c.history = b.history /\ c.positions[a] = Tick(pos, m)
      /\ \A x \in Held(b) : x # a => c.positions[x] = b.positions[x]
  BY DEF Kept, SameRest
<1>3. Accounted(c, n)
  BY AccountedKept DEF Rows
<1>4. \A x \in Held(b) : Charged(b.positions[x])
  BY DEF Rows
<1>5. Ticked(b, S) /\ AddUp(b.history)
  BY DEF Rows
<1> HIDE DEF pos, m
<1>6. Charged(Tick(pos, m)) /\ m.ts <= Tick(pos, m).lastFundingTs
  <2>1. m \in MarketData /\ Charged(pos)
    BY <1>4 DEF m, pos
  <2> QED
    BY <1>1, <2>1, ChargedTick, TickReaches
<1>7. \A x \in Held(c) : Charged(c.positions[x])
  BY <1>2, <1>4, <1>6
<1>8. Ticked(c, S \cup {a})
  <2>1. snapshots[a].ts <= c.positions[a].lastFundingTs
    BY <1>2, <1>6 DEF m
  <2>2. \A x \in Held(c) : x # a => x \in Held(b) /\ c.positions[x] = b.positions[x]
    BY <1>2
  <2>3. \A x \in Held(b) \cap DOMAIN snapshots \cap S :
           snapshots[x].ts <= b.positions[x].lastFundingTs
    BY <1>5 DEF Ticked
  <2>4. ASSUME NEW x \in Held(c) \cap DOMAIN snapshots \cap (S \cup {a})
        PROVE  snapshots[x].ts <= c.positions[x].lastFundingTs
    BY <2>1, <2>2, <2>3
  <2> QED
    BY <2>4 DEF Ticked
<1> QED
  BY <1>2, <1>3, <1>5, <1>7, <1>8 DEF Rows

\* after a close its row adds up, since the tick reached it before,
LEMMA RowsClosed ==
    ASSUME NEW b, NEW c, NEW n \in Nat, NEW S, NEW a \in Held(b), BooksTypeOK(b),
           snapshots[a] \in MarketData, Agree(b), Rows(b, n, S), Closed(b, c, a),
           \E pos \in Position :
              RowAdded(b, c, a, pos) /\ snapshots[a].ts <= pos.lastFundingTs
    PROVE  Rows(c, n, S \cup {a})
<1>1. Accounted(c, n)
  BY AccountedClosed DEF Rows
<1>2. /\ Held(c) = Held(b) \ {a}
      /\ \A x \in Held(c) : c.positions[x] = b.positions[x]
  BY DEF Closed, SameRest
<1>3. AddUp(c.history)
  <2>1. PICK pos \in Position, slip \in Slips, trigger \in Triggers,
             cause \in Triggers :
          /\ snapshots[a].ts <= pos.lastFundingTs
          /\ c.history = AppendLeft(b.history,
                 Row(b.links, a, pos, snapshots[a], slip, trigger, cause))
    BY DEF RowAdded
  <2> DEFINE row == Row(b.links, a, pos, snapshots[a], slip, trigger, cause)
  <2>2. AddsUp(row)
    BY <2>1, RowAddsUp
  <2>3. AddUp(b.history)
    BY DEF Rows
  <2>4. c.history = AppendLeft(b.history, row)
    BY <2>1
  <2> HIDE DEF row
  <2>5. \A i \in DOMAIN c.history :
           \/ c.history[i] = row
           \/ i - 1 \in DOMAIN b.history /\ c.history[i] = b.history[i - 1]
    BY <2>4, AppendLeftRows
  <2> QED
    BY <2>2, <2>3, <2>5 DEF AddUp
<1>4. \A x \in Held(c) : Charged(c.positions[x])
  BY <1>2 DEF Rows
<1>5. Ticked(c, S \cup {a})
  BY <1>2 DEF Rows, Ticked
<1> QED
  BY <1>1, <1>3, <1>4, <1>5 DEF Rows

\* and an opened position starts at the snapshot.
LEMMA RowsOpened ==
    ASSUME NEW b, NEW c, NEW n \in Ids, NEW S, NEW a, BooksTypeOK(b),
           snapshots[a] \in MarketData, Rows(b, n, S),
           Opened(b, c, a, n, snapshots[a])
    PROVE  Rows(c, n + 1, S)
<1> DEFINE m == snapshots[a]
<1>1. Accounted(c, n + 1)
  BY AccountedOpened DEF Rows
<1>2. /\ Held(c) = Held(b) \cup {a} /\ c.history = b.history
      /\ \A x \in Held(b) : x # a => c.positions[x] = b.positions[x]
  BY DEF Opened, SameRest
<1>3. PICK side \in Sides, plan \in Plans, slip \in Slips :
         c.positions[a] = NewPosition(n, side, plan, m, slip) /\ plan.qty > 0
  BY DEF Opened
<1>4. Charged(c.positions[a])
  BY <1>3, ChargedNew
<1>5. c.positions[a].lastFundingTs = m.ts /\ m.ts \in Int
  BY <1>3, MarketType DEF NewPosition
<1>6. /\ \A x \in Held(b) : Charged(b.positions[x])
      /\ AddUp(b.history) /\ Ticked(b, S)
  BY DEF Rows
<1>7. \A x \in Held(c) : Charged(c.positions[x])
  BY <1>2, <1>4, <1>6
<1>8. Ticked(c, S)
  <2>1. snapshots[a].ts <= c.positions[a].lastFundingTs
    BY <1>5
  <2>2. \A x \in Held(c) : x # a => x \in Held(b) /\ c.positions[x] = b.positions[x]
    BY <1>2
  <2>3. \A x \in Held(b) \cap DOMAIN snapshots \cap S :
           snapshots[x].ts <= b.positions[x].lastFundingTs
    BY <1>6 DEF Ticked
  <2> HIDE DEF m
  <2>4. ASSUME NEW x \in Held(c) \cap DOMAIN snapshots \cap S
        PROVE  snapshots[x].ts <= c.positions[x].lastFundingTs
    BY <2>1, <2>2, <2>3
  <2> QED
    BY <2>4 DEF Ticked
<1> QED
  BY <1>1, <1>2, <1>6, <1>7, <1>8 DEF Rows
-----------------------------------------------------------------------------
(* The invariant and the theorems.                                         *)

\* The inductive invariant: the books agree, and their rows and positions add up.
RowsInv == Agree(books) /\ Rows(books, nextId, Assets \ unchecked)

\* A step that leaves the books, the snapshots and the check list alone.
LEMMA RowsSame ==
    ASSUME RowsInv, UNCHANGED <<books, nextId, snapshots, unchecked>>
    PROVE  RowsInv'
<1>1. Agree(books)'
  BY DEF RowsInv, Agree, Held
<1>2. Accounted(books, nextId)'
  BY DEF RowsInv, Rows, Accounted, Held, Length
<1>3. (\A a \in Held(books) : Charged(books.positions[a]))'
  BY DEF RowsInv, Rows, Held, Charged
<1>4. AddUp(books.history)'
  BY DEF RowsInv, Rows, AddUp, AddsUp
<1>5. Ticked(books, Assets \ unchecked)'
  BY DEF RowsInv, Rows, Ticked, Held
<1> QED
  BY <1>1, <1>2, <1>3, <1>4, <1>5 DEF RowsInv, Rows

\* What was shown with this tick's snapshots holds in the next state, which
\* has the same.
LEMMA RowsNext ==
    ASSUME Agree(books'), Rows(books', nextId', Assets \ unchecked'),
           snapshots' = snapshots
    PROVE  RowsInv'
<1>1. Ticked(books', Assets \ unchecked')
  BY DEF Rows
<1>2. Ticked(books, Assets \ unchecked)'
  BY <1>1 DEF Ticked
<1>3. /\ Accounted(books', nextId') /\ AddUp(books'.history)
      /\ \A a \in Held(books') : Charged(books'.positions[a])
  BY DEF Rows
<1> QED
  BY <1>2, <1>3 DEF RowsInv, Rows

\* The tick of one position, which may close it.
LEMMA RowsCheck ==
    ASSUME TypeInv, RowsInv, Agree(books'), NEW a \in Assets, CheckPosition(a)
    PROVE  RowsInv'
<1> DEFINE S == Assets \ unchecked
<1>1. /\ BooksTypeOK(books) /\ IsDict(snapshots, Assets, MarketData)
      /\ a \in Held(books) /\ nextId \in Nat
  BY LimitAssumption DEF TypeInv, TypeOK, UncheckedHeld, CheckPosition
<1>2. /\ unchecked' = unchecked \ {a} /\ snapshots' = snapshots /\ nextId' = nextId
      /\ Assets \ unchecked' = S \cup {a}
  BY DEF CheckPosition
<1>3. Agree(books) /\ Rows(books, nextId, S)
  BY DEF RowsInv
<1> HIDE DEF S
<1>4. CASE a \notin DOMAIN snapshots
  <2>1. books' = books
    BY <1>4 DEF CheckPosition
  <2>2. Ticked(books', S \cup {a})
    BY <1>3, <1>4, <2>1 DEF Rows, Ticked
  <2>3. Rows(books', nextId', S \cup {a})
    BY <1>2, <1>3, <2>1, <2>2 DEF Rows
  <2> QED
    BY <1>2, <2>3, RowsNext
<1>5. CASE a \in DOMAIN snapshots
  <2>1. snapshots[a] \in MarketData
    BY <1>1, <1>5 DEF IsDict
  <2>2. \/ Kept(books, books', a)
        \/ /\ Closed(books, books', a)
           /\ RowAdded(books, books', a, Tick(books.positions[a], snapshots[a]))
    BY <1>1, <1>5, CheckPositionEffect
  <2>3. CASE Kept(books, books', a)
    <3>1. Rows(books', nextId, S \cup {a})
      BY <1>1, <1>3, <2>1, <2>3, RowsKept
    <3> QED
      BY <1>2, <3>1, RowsNext
  <2>4. CASE /\ Closed(books, books', a)
             /\ RowAdded(books, books', a, Tick(books.positions[a], snapshots[a]))
    <3> DEFINE pos == books.positions[a]
    <3>1. pos \in Position
      BY <1>1 DEF BooksTypeOK, IsDict, Held
    <3> HIDE DEF pos
    <3>2. /\ Tick(pos, snapshots[a]) \in Position
          /\ snapshots[a].ts <= Tick(pos, snapshots[a]).lastFundingTs
      BY <2>1, <3>1, TickType, TickReaches
    <3>3. \E p \in Position :
             RowAdded(books, books', a, p) /\ snapshots[a].ts <= p.lastFundingTs
      BY <2>4, <3>2 DEF pos
    <3>4. Rows(books', nextId, S \cup {a})
      BY <1>1, <1>3, <2>1, <2>4, <3>3, RowsClosed
    <3> QED
      BY <1>2, <3>4, RowsNext
  <2> QED
    BY <2>2, <2>3, <2>4
<1> QED
  BY <1>4, <1>5

\* A decision: the position it closes was ticked before, and is so no less
\* after the close and the entry of a flip.
LEMMA RowsApply ==
    ASSUME TypeInv, RowsInv, Agree(books'), NEW d \in Decision, ApplyDecision(d)
    PROVE  RowsInv'
<1> DEFINE a == d.asset
<1>1. /\ TypeOK /\ BooksTypeOK(books) /\ IsDict(snapshots, Assets, MarketData)
      /\ a \in Assets /\ nextId \in Nat
  BY LimitAssumption DEF TypeInv, TypeOK, Decision
<1>2. pc = "apply" /\ snapshots' = snapshots /\ unchecked' = unchecked
  BY DEF ApplyDecision, ApplyUnseen, ApplyEnter, ApplyCut, ApplyFlip, ApplyHold,
         Applying
<1>3. unchecked = {} /\ Assets \ unchecked = Assets
  BY <1>2 DEF TypeInv, UncheckedHeld
<1>4. Agree(books) /\ Rows(books, nextId, Assets)
  BY <1>3 DEF RowsInv
<1>5. CASE books' = books /\ nextId' = nextId
  BY <1>2, <1>5, RowsSame
<1>6. CASE ~(books' = books /\ nextId' = nextId)
  <2>1. a \in DOMAIN snapshots
    BY <1>1, <1>6, ApplyEffect
  <2>2. PICK b : /\ BooksTypeOK(b)
                 /\ \/ b = books
                    \/ a \in Held(books) /\ Closed(books, b, a)
                 /\ \/ books' = b /\ nextId' = nextId
                    \/ /\ Opened(b, books', a, nextId, snapshots[a])
                       /\ nextId \in Ids /\ nextId' = nextId + 1
    BY <1>1, <1>6, ApplyEffect
  <2>3. snapshots[a] \in MarketData
    BY <1>1, <2>1 DEF IsDict
  <2> HIDE DEF a
  <2>4. Rows(b, nextId, Assets)
    <3>1. CASE b = books
      BY <1>4, <3>1
    <3>2. CASE a \in Held(books) /\ Closed(books, b, a)
      <4> DEFINE pos == books.positions[a]
      <4>1. pos \in Position
        BY <1>1, <3>2 DEF BooksTypeOK, IsDict, Held
      <4>2. snapshots[a].ts <= pos.lastFundingTs
        BY <1>1, <1>4, <2>1, <3>2 DEF Rows, Ticked
      <4> HIDE DEF pos
      <4>3. /\ Tick(pos, snapshots[a]) \in Position
            /\ snapshots[a].ts <= Tick(pos, snapshots[a]).lastFundingTs
        BY <2>3, <4>1, TickType, TickReaches
      <4>4. \E p \in Position :
               RowAdded(books, b, a, p) /\ snapshots[a].ts <= p.lastFundingTs
        BY <3>2, <4>1, <4>2, <4>3 DEF Closed, pos
      <4>5. Rows(b, nextId, Assets \cup {a})
        BY <1>1, <1>4, <2>3, <3>2, <4>4, RowsClosed
      <4>6. Assets \cup {a} = Assets
        BY <1>1
      <4> QED
        BY <4>5, <4>6
    <3> QED
      BY <2>2, <3>1, <3>2
  <2>5. Rows(books', nextId', Assets)
    BY <2>2, <2>3, <2>4, RowsOpened
  <2>6. Assets \ unchecked' = Assets
    BY <1>2, <1>3
  <2> QED
    BY <1>2, <2>5, <2>6, RowsNext
<1> QED
  BY <1>5, <1>6

\* A fetch puts every position on the check list; the end of the step() takes
\* the snapshots away: nothing is claimed of any position.
LEMMA RowsFetch ==
    ASSUME RowsInv, \/ Fetch
                    \/ Launch
    PROVE  RowsInv'
<1>1. books' = books /\ nextId' = nextId
  BY DEF Fetch, Launch
<1>2. Ticked(books, Assets \ unchecked)'
  <2>1. CASE Fetch
    BY <2>1 DEF Fetch, Ticked, Held
  <2>2. CASE Launch
    BY <2>2, NoEntriesDict DEF Launch, Ticked
  <2> QED
    BY <2>1, <2>2
<1>3. /\ Agree(books) /\ Accounted(books, nextId) /\ AddUp(books.history)
      /\ \A a \in Held(books) : Charged(books.positions[a])
  BY DEF RowsInv, Rows
<1>4. /\ Agree(books') /\ Accounted(books', nextId') /\ AddUp(books'.history)
      /\ \A a \in Held(books') : Charged(books'.positions[a])
  BY <1>1, <1>3
<1> QED
  BY <1>2, <1>4 DEF RowsInv, Rows

\* Every step of the loop and of the agent.
LEMMA RowsStep ==
    ASSUME TypeInv, RowsInv, [Next]_vars
    PROVE  RowsInv'
<1>1. Agree(books')
  BY AgreeStep DEF RowsInv
<1>2. (StopsChecked \/ Drain \/ Applied \/ AgentRead \/ AgentAnswer
        \/ UNCHANGED vars) => UNCHANGED <<books, nextId, snapshots, unchecked>>
  BY DEF StopsChecked, Drain, Applied, AgentRead, AgentAnswer, vars
<1> QED
  BY <1>1, <1>2, RowsCheck, RowsApply, RowsFetch, RowsSame DEF Next, MainThread

\* Nothing is open and no row is shown at the start.
LEMMA RowsInit == Init => RowsInv
<1> SUFFICES ASSUME Init PROVE RowsInv
  OBVIOUS
<1>1. Held(books) = {} /\ DOMAIN books.history = {} /\ nextId = 1
  BY NoEntriesDict DEF Init, Held
<1>2. Agree(books)
  BY DEF Init, Agree, Held, NoEntries
<1>3. Cardinality(Held(books)) = 0 /\ 1..Length(1 - 1 - 0) = {}
  BY <1>1, FS_EmptySet, LimitAssumption DEF Length
<1>4. Accounted(books, nextId)
  BY <1>1, <1>3 DEF Accounted
<1> QED
  BY <1>1, <1>2, <1>4 DEF RowsInv, Rows, AddUp, Ticked

\* The invariant of the three theorems below.
LEMMA RowsInvariant == Spec => []RowsInv
BY RowsInit, RowsStep, TypeInvariant, PTL DEF Spec

\* One value for each element: as many values as elements.
LEMMA OneEach ==
    ASSUME NEW S, NEW f, DOMAIN f = S, IsFiniteSet(S), f = [x \in S |-> f[x]],
           \A x, y \in S : f[x] = f[y] => x = y
    PROVE  Cardinality({f[x] : x \in S}) = Cardinality(S)
<1> DEFINE T == {f[x] : x \in S}
<1>1. f \in Bijection(S, T)
  BY DEF Bijection, Injection, Surjection, IsInjective
<1> QED
  BY <1>1, FS_Bijection DEF ExistsBijection

\* No trade is lost and none is closed twice: the history has a row for each
\* closed trade, up to its capacity, under the audit id of the trade that was
\* closed, whatever the orders of stops, cuts and flips.
THEOREM TradesAccounted == Spec => []TradesAccountedFor
<1>1. TypeInv /\ RowsInv => TradesAccountedFor
  <2> SUFFICES ASSUME TypeInv, RowsInv PROVE TradesAccountedFor
    OBVIOUS
  <2> DEFINE held == Held(books)
             rows == books.history
             n == nextId
             closed == (1..(n - 1)) \ HeldIds(books)
             idOf == [x \in held |-> books.positions[x].id]
  <2>1. Accounted(books, n) /\ BooksTypeOK(books) /\ n \in Nat \ {0}
    BY LimitAssumption DEF RowsInv, Rows, TypeInv, TypeOK
  <2>2. /\ \A x \in held : books.positions[x].id \in Nat \ {0}
        /\ \A i \in DOMAIN rows : rows[i].of \in Nat \ {0}
    <3>1. \A i \in DOMAIN rows : rows[i] \in Trade
      BY <2>1 DEF BooksTypeOK, IsHistory
    <3>2. \A i \in DOMAIN rows : rows[i].of \in Ids
      BY <3>1 DEF Trade
    <3>3. \A x \in held : books.positions[x].id \in Ids
      BY <2>1 DEF BooksTypeOK, IsDict, Held, Position
    <3> QED
      BY <3>2, <3>3, LimitAssumption DEF Ids
  <2>3. HeldIds(books) \subseteq 1..(n - 1)
    BY <2>1, <2>2 DEF Accounted, HeldIds
  <2>4. Cardinality(HeldIds(books)) = Cardinality(held)
    <3>1. IsFiniteSet(held)
      BY <2>1, HeldFinite
    <3>2. HeldIds(books) = {idOf[x] : x \in held}
      BY DEF HeldIds
    <3>3. \A x, y \in held : idOf[x] = idOf[y] => x = y
      BY <2>1 DEF Accounted
    <3>4. DOMAIN idOf = held /\ idOf = [x \in held |-> idOf[x]]
      OBVIOUS
    <3> HIDE DEF idOf, held
    <3> QED
      BY <3>1, <3>2, <3>3, <3>4, OneEach
  <2>5. Cardinality(closed) = n - 1 - Cardinality(held)
    <3>2. IsFiniteSet(1..(n - 1)) /\ Cardinality(1..(n - 1)) = n - 1
      <4> DEFINE k == n - 1
      <4>1. k \in Nat
        BY <2>1
      <4> HIDE DEF k
      <4>2. IsFiniteSet(1..k) /\ Cardinality(1..k) = k
        BY <4>1, FS_Interval
      <4> QED
        BY <4>2 DEF k
    <3>3. (1..(n - 1)) \cap HeldIds(books) = HeldIds(books)
      BY <2>3
    <3>4. Cardinality(closed) = Cardinality(1..(n - 1))
                                - Cardinality((1..(n - 1)) \cap HeldIds(books))
      BY <3>2, FS_Difference
    <3> QED
      BY <2>4, <3>2, <3>3, <3>4
  <2>6. \A i \in DOMAIN rows : rows[i].of \in closed /\ rows[i].auditId = rows[i].of
    BY <2>1, <2>2 DEF Accounted, HeldIds
  <2>7. /\ DOMAIN rows = 1..Length(n - 1 - Cardinality(held))
        /\ \A i, j \in DOMAIN rows : rows[i].of = rows[j].of => i = j
    BY <2>1 DEF Accounted
  <2> QED
    BY <2>3, <2>4, <2>5, <2>6, <2>7 DEF TradesAccountedFor, Length
<1> QED
  BY <1>1, TypeInvariant, RowsInvariant, PTL

\* Each row of the history adds up, although its funding is read before the
\* close accrues again: the tick of the same step came first.
THEOREM RowsAddUp == Spec => []TradeRowsAddUp
<1>1. RowsInv => TradeRowsAddUp
  BY DEF RowsInv, Rows, AddUp, AddsUp, TradeRowsAddUp
<1> QED
  BY <1>1, RowsInvariant, PTL

\* What has accrued on a position is what its minutes allow, for timestamps of
\* any order, any rates and any marks.
THEOREM FundingOnce == Spec => []FundingChargedOnce
<1>1. RowsInv => FundingChargedOnce
  BY DEF RowsInv, Rows, Charged, FundingChargedOnce
<1> QED
  BY <1>1, RowsInvariant, PTL

-----------------------------------------------------------------------------
(* The book of trades: TradingLoop implements TradeBook.                   *)

\* The book counts as the loop does: TradeBook has its own copy of Cardinality.
LEMMA BookCardinality == \A S : Book!Cardinality(S) = Cardinality(S)
BY DEF Book!Cardinality, Cardinality

\* A mark changes no terms: the tick moves the mark, the funding and its clock.
LEMMA TickKeepsTerms ==
    ASSUME NEW pos \in Position, NEW m \in MarketData
    PROVE  /\ Tick(pos, m).id = pos.id /\ Tick(pos, m).side = pos.side
           /\ Tick(pos, m).qty = pos.qty /\ Tick(pos, m).entryPrice = pos.entryPrice
           /\ Tick(pos, m).stop = pos.stop /\ Tick(pos, m).take = pos.take
BY DEF Tick, AccrueFunding, Position

\* What the book shows of a mark is nothing,
LEMMA BookKept ==
    ASSUME NEW b, NEW c, BooksTypeOK(b), NEW a \in Held(b),
           snapshots[a] \in MarketData, Kept(b, c, a)
    PROVE  OpenTrades(c) = OpenTrades(b) /\ ClosedTrades(c) = ClosedTrades(b)
<1> DEFINE pos == b.positions[a]
           marked == c.positions[a]
<1>1. pos \in Position
  BY DEF BooksTypeOK, IsDict, Held
<1>2. marked = Tick(pos, snapshots[a])
  BY DEF Kept
<1> HIDE DEF pos, marked
<1>3. /\ marked.id = pos.id /\ marked.side = pos.side /\ marked.qty = pos.qty
      /\ marked.entryPrice = pos.entryPrice
      /\ marked.stop = pos.stop /\ marked.take = pos.take
  BY <1>1, <1>2, TickKeepsTerms
<1>4. \A x \in Held(b) : OpenTrades(c)[x] = OpenTrades(b)[x]
  <2> SUFFICES ASSUME NEW x \in Held(b) PROVE OpenTrades(c)[x] = OpenTrades(b)[x]
    OBVIOUS
  <2>1. CASE x = a
    BY <1>3, <2>1 DEF OpenTrades, Kept, pos, marked
  <2>2. CASE x # a
    <3>1. c.positions[x] = b.positions[x]
      BY <2>2 DEF Kept, SameRest
    <3> QED
      BY <3>1 DEF OpenTrades, Kept
  <2> QED
    BY <2>1, <2>2
<1>5. /\ Held(c) = Held(b) /\ c.history = b.history
  BY DEF Kept
<1>6. OpenTrades(c) = OpenTrades(b)
  BY <1>4, <1>5 DEF OpenTrades
<1> QED
  BY <1>5, <1>6 DEF ClosedTrades

\* of a close that the trade goes from the open to the closed, as it was,
LEMMA BookClosed ==
    ASSUME NEW b, NEW c, BooksTypeOK(b), Agree(b), NEW a \in Held(b),
           snapshots[a] \in MarketData, Closed(b, c, a)
    PROVE  /\ DOMAIN OpenTrades(c) = DOMAIN OpenTrades(b) \ {a}
           /\ \A x \in DOMAIN OpenTrades(b) \ {a} : OpenTrades(c)[x] = OpenTrades(b)[x]
           /\ ClosedTrades(c)
                = Book!Latest(ClosedTrades(b), Book!Shown(OpenTrades(b)[a]))
<1>1. Held(c) = Held(b) \ {a} /\ \A x \in Held(b) \ {a} : c.positions[x] = b.positions[x]
  BY DEF Closed, SameRest
<1>2. /\ DOMAIN OpenTrades(c) = DOMAIN OpenTrades(b) \ {a}
      /\ \A x \in DOMAIN OpenTrades(b) \ {a} : OpenTrades(c)[x] = OpenTrades(b)[x]
  BY <1>1 DEF OpenTrades
<1> DEFINE pos == b.positions[a]
           shown == [id |-> pos.id, side |-> pos.side, qty |-> pos.qty,
                     entryPrice |-> pos.entryPrice]
<1>3. pos \in Position
  BY DEF BooksTypeOK, IsDict, Held
<1>4. a \in DOMAIN b.links /\ b.links[a].auditId = pos.id
  <2>1. DOMAIN b.links = Held(b)
    BY DEF Agree
  <2>2. b.links[a] = [auditId |-> pos.id, side |-> pos.side]
    BY DEF Agree
  <2>3. b.links[a].auditId = pos.id
    BY <2>2
  <2> QED
    BY <2>1, <2>3
<1>5. Book!Shown(OpenTrades(b)[a]) = shown
  BY DEF Book!Shown, OpenTrades
<1>6. \/ RowAdded(b, c, a, pos)
      \/ RowAdded(b, c, a, Tick(pos, snapshots[a]))
  BY DEF Closed
<1> DEFINE Shows(row) == [id |-> row.auditId, side |-> row.side, qty |-> row.qty,
                          entryPrice |-> row.entryPrice]
<1>7. ASSUME NEW p, p.side = pos.side, p.qty = pos.qty, p.entryPrice = pos.entryPrice,
             NEW slip, NEW trigger, NEW cause
      PROVE  Shows(Row(b.links, a, p, snapshots[a], slip, trigger, cause)) = shown
  BY <1>4, <1>7 DEF Row
<1>8. ASSUME NEW p, p.side = pos.side, p.qty = pos.qty, p.entryPrice = pos.entryPrice,
             RowAdded(b, c, a, p)
      PROVE  \E row : c.history = AppendLeft(b.history, row) /\ Shows(row) = shown
  <2> HIDE DEF pos, shown, Shows
  <2> QED
    BY <1>7, <1>8 DEF RowAdded
<1>9. \E row : c.history = AppendLeft(b.history, row) /\ Shows(row) = shown
  <2>1. /\ Tick(pos, snapshots[a]).side = pos.side
        /\ Tick(pos, snapshots[a]).qty = pos.qty
        /\ Tick(pos, snapshots[a]).entryPrice = pos.entryPrice
    <3> HIDE DEF pos
    <3> QED BY <1>3, TickKeepsTerms
  <2> HIDE DEF pos, shown, Shows
  <2> QED
    BY <1>6, <1>8, <2>1
<1>10. ClosedTrades(b) = [i \in DOMAIN b.history |-> Shows(b.history[i])]
       /\ ClosedTrades(c) = [i \in DOMAIN c.history |-> Shows(c.history[i])]
  BY DEF ClosedTrades
<1> HIDE DEF Shows, shown, pos
<1>11. ClosedTrades(c) = Book!Latest(ClosedTrades(b), shown)
  <2>1. PICK row : c.history = AppendLeft(b.history, row) /\ Shows(row) = shown
    BY <1>9
  <2>2. DOMAIN c.history = {j \in 1..HistoryMax : j = 1 \/ j - 1 \in DOMAIN b.history}
    BY <2>1 DEF AppendLeft
  <2>3. \A i \in DOMAIN c.history :
           Shows(c.history[i]) = IF i = 1 THEN shown ELSE ClosedTrades(b)[i - 1]
    <3>1. \A i \in DOMAIN c.history :
             \/ i = 1 /\ c.history[i] = row
             \/ /\ i # 1 /\ i - 1 \in DOMAIN b.history
                /\ c.history[i] = b.history[i - 1]
      BY <2>1, AppendLeftRows
    <3> QED
      BY <1>10, <2>1, <3>1
  <2>4. DOMAIN ClosedTrades(b) = DOMAIN b.history
    BY <1>10
  <2> QED
    BY <1>10, <2>2, <2>3, <2>4 DEF Book!Latest
<1> QED
  BY <1>2, <1>5, <1>11

\* and of an open one trade more, under the number the trade was given.
LEMMA BookOpened ==
    ASSUME NEW b, NEW c, NEW a, NEW id \in Ids, NEW m \in MarketData,
           Opened(b, c, a, id, m)
    PROVE  /\ DOMAIN OpenTrades(b) = Held(b)
           /\ a \notin Held(b) /\ Cardinality(Held(b)) < MaxPositions
           /\ DOMAIN OpenTrades(c) = Held(b) \cup {a}
           /\ OpenTrades(c)[a].id = id
           /\ \A x \in Held(b) : OpenTrades(c)[x] = OpenTrades(b)[x]
           /\ ClosedTrades(c) = ClosedTrades(b)
<1>1. /\ Held(c) = Held(b) \cup {a} /\ c.history = b.history /\ a \notin Held(b)
      /\ Cardinality(Held(b)) < MaxPositions
      /\ \A x \in Held(b) : c.positions[x] = b.positions[x]
  BY DEF Opened, SameRest
<1>2. c.positions[a].id = id
  BY NewPositionType DEF Opened
<1> QED
  BY <1>1, <1>2 DEF OpenTrades, ClosedTrades

\* The tick of a position is a stutter of the book or an Exit.
LEMMA BookCheck ==
    ASSUME TypeInv, Agree(books), NEW a \in Assets, CheckPosition(a)
    PROVE  [Book!Next]_(Book!vars)
<1>1. /\ BooksTypeOK(books) /\ IsDict(snapshots, Assets, MarketData)
      /\ a \in Held(books) /\ nextId' = nextId
  BY DEF TypeInv, TypeOK, UncheckedHeld, CheckPosition
<1>2. CASE a \notin DOMAIN snapshots
  <2>1. books' = books
    BY <1>2 DEF CheckPosition
  <2> QED
    BY <1>1, <2>1 DEF Book!vars
<1>3. CASE a \in DOMAIN snapshots
  <2>1. snapshots[a] \in MarketData
    BY <1>1, <1>3 DEF IsDict
  <2>2. Kept(books, books', a) \/ Closed(books, books', a)
    BY <1>1, <1>3, CheckPositionEffect
  <2>3. CASE Kept(books, books', a)
    <3>1. OpenTrades(books') = OpenTrades(books) /\ ClosedTrades(books') = ClosedTrades(books)
      BY <1>1, <2>1, <2>3, BookKept
    <3> QED
      BY <1>1, <3>1 DEF Book!vars
  <2>4. CASE Closed(books, books', a)
    <3>1. /\ DOMAIN OpenTrades(books') = DOMAIN OpenTrades(books) \ {a}
          /\ \A x \in DOMAIN OpenTrades(books) \ {a} :
                OpenTrades(books')[x] = OpenTrades(books)[x]
          /\ ClosedTrades(books')
                = Book!Latest(ClosedTrades(books), Book!Shown(OpenTrades(books)[a]))
      BY <1>1, <2>1, <2>4, BookClosed
    <3>2. a \in DOMAIN OpenTrades(books)
      BY <1>1 DEF OpenTrades
    <3>3. Book!Exit(a)
      BY <1>1, <3>1, <3>2 DEF Book!Exit, Book!OthersStand
    <3> QED
      BY <3>2, <3>3 DEF Book!Next
  <2> QED
    BY <2>2, <2>3, <2>4
<1> QED
  BY <1>2, <1>3

\* What a decision leaves, from the books b it opens in: those it found, or those
\* of the close it began with.  A close is an Exit, an open an Enter, and both
\* a Switch.
LEMMA BookTrades ==
    ASSUME BooksTypeOK(books), Agree(books), NEW a, snapshots[a] \in MarketData,
           NEW b,
           \/ b = books
           \/ a \in Held(books) /\ Closed(books, b, a),
           \/ books' = b /\ nextId' = nextId
           \/ /\ Opened(b, books', a, nextId, snapshots[a])
              /\ nextId \in Ids /\ nextId' = nextId + 1
    PROVE  [Book!Next]_(Book!vars)
<1> DEFINE before == OpenTrades(books)
           between == OpenTrades(b)
           after == OpenTrades(books')
<1>1. /\ OpenTrades(books)' = after
      /\ ClosedTrades(books)' = ClosedTrades(books')
  BY DEF OpenTrades, ClosedTrades, Held
<1>2. DOMAIN before = Held(books) /\ DOMAIN between = Held(b)
  BY DEF OpenTrades
<1>3. ASSUME a \in Held(books), Closed(books, b, a)
      PROVE  /\ DOMAIN between = DOMAIN before \ {a}
             /\ \A x \in DOMAIN before \ {a} : between[x] = before[x]
             /\ ClosedTrades(b)
                  = Book!Latest(ClosedTrades(books), Book!Shown(before[a]))
  BY <1>3, BookClosed
<1>4. ASSUME Opened(b, books', a, nextId, snapshots[a]), nextId \in Ids
      PROVE  /\ a \notin DOMAIN between /\ Cardinality(DOMAIN between) < MaxPositions
             /\ DOMAIN after = DOMAIN between \cup {a}
             /\ after[a].id = nextId
             /\ \A x \in DOMAIN between : after[x] = between[x]
             /\ ClosedTrades(books') = ClosedTrades(b)
  <2>1. a \notin Held(b) /\ Cardinality(Held(b)) < MaxPositions
    BY <1>4, BookOpened
  <2>2. DOMAIN after = Held(b) \cup {a}
    BY <1>4, BookOpened
  <2>3. after[a].id = nextId
    <3>1. books'.positions[a].id = nextId /\ a \in Held(books')
      BY <1>4, NewPositionType DEF Opened
    <3> QED
      BY <3>1 DEF OpenTrades
  <2>4. \A x \in Held(b) : after[x] = between[x]
    BY <1>4, BookOpened
  <2>5. ClosedTrades(books') = ClosedTrades(b)
    BY <1>4, BookOpened
  <2> QED
    BY <1>2, <2>1, <2>2, <2>3, <2>4, <2>5
<1>5. ASSUME Opened(b, books', a, nextId, snapshots[a]), nextId \in Ids,
             nextId' = nextId + 1,
             \A x \in DOMAIN before \ {a} : after[x] = before[x]
      PROVE  Book!New(a)
  <2>1. OpenTrades(books)'[a].id = nextId
    BY <1>1, <1>4, <1>5
  <2>2. Book!OthersStand(a)
    BY <1>1, <1>5 DEF Book!OthersStand
  <2> QED
    BY <1>5, <2>1, <2>2 DEF Book!New
<1>6. CASE b = books /\ books' = b /\ nextId' = nextId
  BY <1>6 DEF Book!vars
<1>7. CASE /\ a \in Held(books) /\ Closed(books, b, a)
           /\ books' = b /\ nextId' = nextId
  <2>1. Book!Exit(a)
    BY <1>1, <1>2, <1>3, <1>7 DEF Book!Exit, Book!OthersStand
  <2> QED
    BY <1>2, <1>7, <2>1 DEF Book!Next
<1>8. CASE /\ b = books /\ nextId' = nextId + 1 /\ nextId \in Ids
           /\ Opened(b, books', a, nextId, snapshots[a])
  <2>1. Book!New(a)
    BY <1>2, <1>4, <1>5, <1>8
  <2>2. /\ a \notin DOMAIN before /\ Cardinality(DOMAIN before) < MaxPositions
        /\ DOMAIN after = DOMAIN before \cup {a}
        /\ ClosedTrades(books') = ClosedTrades(books)
    BY <1>4, <1>8
  <2>3. Book!Enter(a)
    BY <1>1, <2>1, <2>2, BookCardinality DEF Book!Enter
  <2>4. a \in DOMAIN after \ DOMAIN before
    BY <2>2
  <2> QED
    BY <1>1, <2>3, <2>4 DEF Book!Next
<1>9. CASE /\ a \in Held(books) /\ Closed(books, b, a)
           /\ nextId' = nextId + 1 /\ nextId \in Ids
           /\ Opened(b, books', a, nextId, snapshots[a])
  <2>1. /\ DOMAIN after = DOMAIN before
        /\ \A x \in DOMAIN before \ {a} : after[x] = before[x]
    BY <1>2, <1>3, <1>4, <1>9
  <2>2. Book!Switch(a)
    <3>1. Book!New(a)
      BY <1>5, <1>9, <2>1
    <3>2. ClosedTrades(books')
            = Book!Latest(ClosedTrades(books), Book!Shown(before[a]))
      BY <1>3, <1>4, <1>9
    <3>3. a \in DOMAIN before /\ Cardinality(DOMAIN before \ {a}) < MaxPositions
      BY <1>2, <1>3, <1>4, <1>9
    <3> QED
      BY <1>1, <2>1, <3>1, <3>2, <3>3, BookCardinality DEF Book!Switch
  <2> QED
    BY <1>2, <1>9, <2>2 DEF Book!Next
<1> QED
  BY <1>6, <1>7, <1>8, <1>9

\* A decision is a stutter, an Enter, an Exit, or both at once: a Switch.
LEMMA BookApply ==
    ASSUME TypeInv, Agree(books), NEW d \in Decision, ApplyDecision(d)
    PROVE  [Book!Next]_(Book!vars)
<1> DEFINE a == d.asset
<1>1. /\ TypeOK /\ BooksTypeOK(books) /\ IsDict(snapshots, Assets, MarketData)
  BY DEF TypeInv, TypeOK
<1>2. CASE books' = books /\ nextId' = nextId
  BY <1>2 DEF Book!vars
<1>3. CASE ~(books' = books /\ nextId' = nextId)
  <2>1. a \in DOMAIN snapshots
    BY <1>1, <1>3, ApplyEffect
  <2>2. PICK b : /\ \/ b = books
                    \/ a \in Held(books) /\ Closed(books, b, a)
                 /\ \/ books' = b /\ nextId' = nextId
                    \/ /\ Opened(b, books', a, nextId, snapshots[a])
                       /\ nextId \in Ids /\ nextId' = nextId + 1
    BY <1>1, <1>3, ApplyEffect
  <2>3. snapshots[a] \in MarketData
    BY <1>1, <2>1 DEF IsDict
  <2> QED
    BY <1>1, <2>2, <2>3, BookTrades
<1> QED
  BY <1>2, <1>3

\* Every step of the loop and of the agent is a step of the book or a stutter.
LEMMA BookStep ==
    ASSUME TypeInv, Agree(books), [Next]_vars
    PROVE  [Book!Next]_(Book!vars)
<1>1. (Fetch \/ StopsChecked \/ Drain \/ Applied \/ Launch \/ AgentRead
        \/ AgentAnswer \/ UNCHANGED vars) => UNCHANGED <<books, nextId>>
  BY DEF Fetch, StopsChecked, Drain, Applied, Launch, AgentRead, AgentAnswer, vars
<1>2. UNCHANGED <<books, nextId>> => UNCHANGED Book!vars
  BY DEF Book!vars
<1> QED
  BY <1>1, <1>2, BookCheck, BookApply DEF Next, MainThread

\* The trading loop implements the book of trades, for any universe, limits,
\* markets and answers of the agent: no step opens or closes two trades, changes
\* the terms of an open one, or shows a closed one under another's number.
THEOREM BookKeeping == Spec => KeepsBook
<1>1. Init => Book!Init
  BY NoEntriesDict DEF Init, Book!Init, OpenTrades, ClosedTrades, Held
<1>2. TypeInv /\ Agree(books) /\ [Next]_vars => [Book!Next]_(Book!vars)
  BY BookStep
<1>3. Init => Agree(books)
  BY DEF Init, Agree, Held, NoEntries
<1>4. TypeInv /\ Agree(books) /\ [Next]_vars => Agree(books)'
  BY AgreeStep
<1> QED
  BY <1>1, <1>2, <1>3, <1>4, TypeInvariant, PTL DEF Spec, KeepsBook, Book!Spec
=============================================================================
