---------------------------- MODULE EquityProofs ----------------------------
(***************************************************************************)
(* Theorems about the sums over the portfolio in TradingLoop: the exposure *)
(* the gate caps, and the equity no decision makes larger.                 *)
(***************************************************************************)
EXTENDS TradeRowsProofs

-----------------------------------------------------------------------------
(* Sums over finite sets.  The fold behind SumFunction is a recursive      *)
(* function; the library's induction principles take an operator, so this  *)
(* is done with sets of subsets and their least elements.                  *)

\* Induction over the subsets of a finite set, from their well-foundedness: what
\* holds of T as soon as it holds of every smaller subset holds of all.
LEMMA SubsetInduction ==
    ASSUME NEW S, IsFiniteSet(S), NEW Good,
           \A T \in SUBSET S : (\A U \in SUBSET T : U # T => U \in Good) => T \in Good
    PROVE  \A T \in SUBSET S : T \in Good
<1> DEFINE Bad == (SUBSET S) \ Good
<1> SUFFICES ASSUME Bad # {} PROVE FALSE
  OBVIOUS
<1>1. Bad \subseteq FiniteSubsetsOf(S)
  BY FS_FiniteSubsetsOfFinite
<1>2. PICK T \in Bad : \A U \in Bad : ~(<<U, T>> \in StrictSubsetOrdering(S))
  <2> HIDE DEF Bad
  <2> QED BY <1>1, WFMin, FS_StrictSubsetOrderingWellFounded
<1>3. \A U \in SUBSET T : U # T => U \in Good
  BY <1>2 DEF StrictSubsetOrdering
<1>4. T \in SUBSET S /\ T \notin Good
  OBVIOUS
<1> HIDE DEF Bad
<1> QED BY <1>3, <1>4

\* The element the fold takes next, and the equation of the fold over S.
Pick(s) == CHOOSE x \in s : TRUE
Folds(f, S, g) ==
    g = [s \in SUBSET S |-> IF s = {} THEN 0 ELSE f[Pick(s)] + g[s \ {Pick(s)}]]

\* The choice is one of the set,
LEMMA PickIn == ASSUME NEW s, s # {} PROVE Pick(s) \in s
  BY DEF Pick

\* and SumFunctionOnSet is the value at S of a solution of the equation.
LEMMA SumUnfold ==
    ASSUME NEW f, NEW S
    PROVE SumFunctionOnSet(f, S) = (CHOOSE g : Folds(f, S, g))[S]
  BY DEF SumFunctionOnSet, FoldFunctionOnSet, MapThenFoldSet, Folds, Pick

\* A solution on a larger set agrees with one on S,
LEMMA FoldsUnique ==
    ASSUME NEW f, NEW S, NEW T, IsFiniteSet(S), S \subseteq T,
           NEW g, NEW h, Folds(f, S, g), Folds(f, T, h)
    PROVE  g[S] = h[S]
<1> DEFINE Same == {s \in SUBSET S : g[s] = h[s]}
<1>1. ASSUME NEW s \in SUBSET S, \A t \in SUBSET s : t # s => t \in Same
      PROVE  s \in Same
  <2>1. /\ g[s] = IF s = {} THEN 0 ELSE f[Pick(s)] + g[s \ {Pick(s)}]
        /\ h[s] = IF s = {} THEN 0 ELSE f[Pick(s)] + h[s \ {Pick(s)}]
    BY DEF Folds
  <2>2. s # {} => s \ {Pick(s)} \in Same
    BY <1>1, PickIn
  <2> QED BY <2>1, <2>2
<1>2. \A s \in SUBSET S : s \in Same
  <2> HIDE DEF Same
  <2> QED BY <1>1, SubsetInduction
<1> QED BY <1>2

\* and there is one: built from those of the smaller sets.
LEMMA FoldsExists ==
    ASSUME NEW f, NEW S, IsFiniteSet(S)
    PROVE  \E g : Folds(f, S, g)
<1> DEFINE Defined == {T \in SUBSET S : \E g : Folds(f, T, g)}
           G(U) == CHOOSE g : Folds(f, U, g)
<1>1. ASSUME NEW T \in SUBSET S, \A U \in SUBSET T : U # T => U \in Defined
      PROVE  T \in Defined
  <2> DEFINE value(s) == IF s = {} THEN 0
                         ELSE f[Pick(s)] + G(s \ {Pick(s)})[s \ {Pick(s)}]
             h == [s \in SUBSET T |-> value(s)]
  <2>1. ASSUME NEW U \in SUBSET T, U # T PROVE Folds(f, U, G(U)) /\ IsFiniteSet(U)
    BY <1>1, <2>1, FS_Subset
  <2>2. ASSUME NEW s \in SUBSET T, s # {}
        PROVE h[s \ {Pick(s)}] = G(s \ {Pick(s)})[s \ {Pick(s)}]
    <3> DEFINE u == s \ {Pick(s)}
               w == u \ {Pick(u)}
    <3>0. u \in SUBSET T /\ u # T
      BY <2>2, PickIn
    <3>1. Folds(f, u, G(u))
      BY <2>1, <3>0
    <3>2. G(u)[u] = IF u = {} THEN 0 ELSE f[Pick(u)] + G(u)[w]
      <4> HIDE DEF G, u, w
      <4> QED BY <3>1 DEF Folds, w
    <3>3. h[u] = IF u = {} THEN 0 ELSE f[Pick(u)] + G(w)[w]
      BY <3>0
    <3>4. CASE u = {}
      <4> HIDE DEF u, w, G, h
      <4> QED BY <3>2, <3>3, <3>4 DEF u
    <3>5. CASE u # {}
      <4>1. w \in SUBSET T /\ w # T /\ w \subseteq u
        BY <3>0
      <4>2. Folds(f, w, G(w)) /\ IsFiniteSet(w)
        BY <2>1, <4>1
      <4>3. G(w)[w] = G(u)[w]
        <5> HIDE DEF G, u, w
        <5> QED BY <3>1, <4>1, <4>2, FoldsUnique
      <4> HIDE DEF w, G, h
      <4> QED BY <3>2, <3>3, <4>3
    <3> QED BY <3>4, <3>5
  <2>3. \A s \in SUBSET T : value(s) = IF s = {} THEN 0 ELSE f[Pick(s)] + h[s \ {Pick(s)}]
    <3> HIDE DEF h, G
    <3> QED BY <2>2
  <2>4. h = [s \in SUBSET T |-> value(s)]
    OBVIOUS
  <2>5. Folds(f, T, h)
    <3> HIDE DEF h, value
    <3> QED BY <2>3, <2>4 DEF Folds
  <2> QED BY <2>5
<1>2. \A T \in SUBSET S : T \in Defined
  <2> HIDE DEF Defined
  <2> QED BY <1>1, SubsetInduction
<1> QED BY <1>2

\* So that the sum satisfies its equation,
LEMMA SumStep ==
    ASSUME NEW f, NEW S, IsFiniteSet(S)
    PROVE  SumFunctionOnSet(f, S) =
             IF S = {} THEN 0 ELSE f[Pick(S)] + SumFunctionOnSet(f, S \ {Pick(S)})
<1> DEFINE G(U) == CHOOSE g : Folds(f, U, g)
           w == S \ {Pick(S)}
<1>1. Folds(f, S, G(S))
  BY FoldsExists
<1>2. IsFiniteSet(w) /\ Folds(f, w, G(w)) /\ w \subseteq S
  <2>1. IsFiniteSet(w) /\ w \subseteq S
    BY FS_RemoveElement
  <2> HIDE DEF w
  <2> QED BY <2>1, FoldsExists
<1>3. G(S)[w] = G(w)[w]
  <2> HIDE DEF G, w
  <2> QED BY <1>1, <1>2, FoldsUnique, Zenon
<1>4. G(S)[S] = IF S = {} THEN 0 ELSE f[Pick(S)] + G(S)[w]
  <2> HIDE DEF G
  <2> QED BY <1>1 DEF Folds
<1>5. SumFunctionOnSet(f, S) = G(S)[S] /\ SumFunctionOnSet(f, w) = G(w)[w]
  BY SumUnfold
<1> HIDE DEF G
<1> QED BY <1>3, <1>4, <1>5

\* a sum of integers is one,
LEMMA SumType ==
    ASSUME NEW f, NEW S, IsFiniteSet(S), \A x \in S : f[x] \in Int
    PROVE  SumFunctionOnSet(f, S) \in Int
<1> DEFINE Good == {T \in SUBSET S : SumFunctionOnSet(f, T) \in Int}
<1>1. ASSUME NEW T \in SUBSET S, \A U \in SUBSET T : U # T => U \in Good
      PROVE  T \in Good
  <2>1. IsFiniteSet(T) /\ (T # {} => Pick(T) \in T)
    BY FS_Subset, PickIn
  <2>2. T # {} => SumFunctionOnSet(f, T \ {Pick(T)}) \in Int
    BY <1>1, <2>1
  <2>3. SumFunctionOnSet(f, T) =
           IF T = {} THEN 0 ELSE f[Pick(T)] + SumFunctionOnSet(f, T \ {Pick(T)})
    BY <2>1, SumStep
  <2> QED BY <2>1, <2>2, <2>3
<1>2. \A T \in SUBSET S : T \in Good
  <2> HIDE DEF Good
  <2> QED BY <1>1, SubsetInduction
<1> QED BY <1>2

\* whichever element is taken first,
LEMMA SumRemove ==
    ASSUME NEW f, NEW S, IsFiniteSet(S), \A x \in S : f[x] \in Int, NEW y \in S
    PROVE  SumFunctionOnSet(f, S) = f[y] + SumFunctionOnSet(f, S \ {y})
<1> DEFINE Sum(T) == SumFunctionOnSet(f, T)
           Good == {T \in SUBSET S : \A x \in T : Sum(T) = f[x] + Sum(T \ {x})}
<1>0. \A U \in SUBSET S : IsFiniteSet(U) /\ Sum(U) \in Int
  BY FS_Subset, SumType
<1>1. ASSUME NEW T \in SUBSET S, \A U \in SUBSET T : U # T => U \in Good
      PROVE  T \in Good
  <2> SUFFICES ASSUME NEW x \in T PROVE Sum(T) = f[x] + Sum(T \ {x})
    OBVIOUS
  <2> DEFINE p == Pick(T)
  <2>1. p \in T
    BY PickIn
  <2>2. Sum(T) = f[p] + Sum(T \ {p})
    BY <1>0, SumStep
  <2>3. CASE p = x
    BY <2>2, <2>3
  <2>4. CASE p # x
    <3>1. Sum(T \ {p}) = f[x] + Sum((T \ {p}) \ {x})
      BY <1>1, <2>1, <2>4
    <3>2. Sum(T \ {x}) = f[p] + Sum((T \ {x}) \ {p})
      BY <1>1, <2>1, <2>4
    <3>3. Sum((T \ {p}) \ {x}) = Sum((T \ {x}) \ {p})
      <4>1. (T \ {p}) \ {x} = (T \ {x}) \ {p}
        OBVIOUS
      <4> HIDE DEF Sum
      <4> QED BY <4>1, Zenon
    <3>4. /\ Sum(T \ {x}) \in Int /\ Sum(T \ {p}) \in Int
          /\ Sum((T \ {x}) \ {p}) \in Int /\ f[x] \in Int /\ f[p] \in Int
      BY <1>0, <2>1
    <3> HIDE DEF Sum, p
    <3> QED BY <2>2, <3>1, <3>2, <3>3, <3>4
  <2> QED BY <2>3, <2>4
<1>2. \A T \in SUBSET S : T \in Good
  <2> HIDE DEF Good
  <2> QED BY <1>1, SubsetInduction
<1> QED BY <1>2

\* and only the values on the set count.
LEMMA SumSame ==
    ASSUME NEW f, NEW g, NEW S, IsFiniteSet(S), \A x \in S : f[x] = g[x]
    PROVE  SumFunctionOnSet(f, S) = SumFunctionOnSet(g, S)
<1> DEFINE Good == {T \in SUBSET S : SumFunctionOnSet(f, T) = SumFunctionOnSet(g, T)}
<1>1. ASSUME NEW T \in SUBSET S, \A U \in SUBSET T : U # T => U \in Good
      PROVE  T \in Good
  <2>1. IsFiniteSet(T) /\ (T # {} => Pick(T) \in T)
    BY FS_Subset, PickIn
  <2>2. T # {} => T \ {Pick(T)} \in Good
    BY <1>1, <2>1
  <2>3. /\ SumFunctionOnSet(f, T) =
              IF T = {} THEN 0 ELSE f[Pick(T)] + SumFunctionOnSet(f, T \ {Pick(T)})
        /\ SumFunctionOnSet(g, T) =
              IF T = {} THEN 0 ELSE g[Pick(T)] + SumFunctionOnSet(g, T \ {Pick(T)})
    BY <2>1, SumStep
  <2> QED BY <2>1, <2>2, <2>3
<1>2. \A T \in SUBSET S : T \in Good
  <2> HIDE DEF Good
  <2> QED BY <1>1, SubsetInduction
<1> QED BY <1>2

\* A dictionary with one entry more has a sum larger by that entry.
LEMMA SumGrows ==
    ASSUME NEW f, NEW g, NEW a, IsFiniteSet(DOMAIN f), a \notin DOMAIN f,
           DOMAIN g = DOMAIN f \cup {a}, g[a] \in Int,
           \A x \in DOMAIN f : f[x] \in Int /\ g[x] = f[x]
    PROVE  /\ SumFunction(f) \in Int
           /\ SumFunction(g) = SumFunction(f) + g[a]
<1> DEFINE D == DOMAIN f
           E == DOMAIN g
<1>1. IsFiniteSet(E)
  BY FS_AddElement
<1>2. SumFunctionOnSet(f, D) \in Int
  BY SumType
<1>3. SumFunctionOnSet(g, E) = g[a] + SumFunctionOnSet(g, E \ {a})
  BY <1>1, SumRemove
<1>4. SumFunctionOnSet(g, E \ {a}) = SumFunctionOnSet(g, D)
  <2>1. E \ {a} = D
    OBVIOUS
  <2> HIDE DEF D, E
  <2> QED
    BY <2>1, Zenon
<1>5. SumFunctionOnSet(f, D) = SumFunctionOnSet(g, D)
  BY SumSame
<1>6. SumFunction(f) = SumFunctionOnSet(f, D) /\ SumFunction(g) = SumFunctionOnSet(g, E)
  BY DEF SumFunction
<1> HIDE DEF D, E
<1> QED
  BY <1>2, <1>3, <1>4, <1>5, <1>6

-----------------------------------------------------------------------------
(* Portfolios that differ by one position.                                 *)

\* PortfolioState.positions of any books.
IsPortfolio(p) == IsDict(p, Assets, Position)

\* q is p with the position pos on a.
OneMore(p, q, a, pos) ==
    /\ a \notin DOMAIN p
    /\ DOMAIN q = DOMAIN p \cup {a}
    /\ q[a] = pos
    /\ \A x \in DOMAIN p : q[x] = p[x]

\* A portfolio holds finitely many positions, each of the right shape.
LEMMA PortfolioFinite ==
    ASSUME NEW p, IsPortfolio(p)
    PROVE  IsFiniteSet(DOMAIN p) /\ \A x \in DOMAIN p : p[x] \in Position
BY AssetsAssumption, FS_Subset DEF IsPortfolio, IsDict

\* Opening adds the new position, and nothing else changes in the portfolio;
\* the fee is charged on the notional at the mark.
LEMMA OpenAdds ==
    ASSUME NEW b, BooksTypeOK(b), NEW a \in Assets, a \notin Held(b), NEW id \in Ids,
           NEW side \in Sides, NEW plan \in Plans, plan.qty > 0,
           NEW m \in MarketData, NEW slip \in Slips
    PROVE  LET c == OpenTrade(b, a, id, side, plan, m, slip) IN
           /\ OneMore(b.positions, c.positions, a, NewPosition(id, side, plan, m, slip))
           /\ c.balance = b.balance - Fee(plan.qty, m.mark)
<1> DEFINE c == OpenTrade(b, a, id, side, plan, m, slip)
           new == NewPosition(id, side, plan, m, slip)
<1>1. /\ DOMAIN c.positions = DOMAIN b.positions \cup {a}
      /\ c.positions[a] = new
      /\ \A x \in DOMAIN b.positions : x # a => c.positions[x] = b.positions[x]
  <2>1. c.positions = With(b.positions, a, new)
    BY DEF OpenTrade, ExecOpen, RecordOpen, BooksTypeOK
  <2> HIDE DEF c, new
  <2> QED
    BY <2>1 DEF With
<1>2. c.balance = b.balance - Fee(plan.qty, m.mark)
  BY DEF OpenTrade, ExecOpen, RecordOpen, BooksTypeOK
<1> HIDE DEF c
<1>3. OneMore(b.positions, c.positions, a, NewPosition(id, side, plan, m, slip))
  BY <1>1 DEF OneMore, Held
<1> QED
  BY <1>2, <1>3 DEF c

\* Closing takes the position away and credits what it realised.
LEMMA CloseRemoves ==
    ASSUME NEW b, BooksTypeOK(b), NEW a \in Held(b), NEW m \in MarketData,
           NEW slip \in Slips, NEW trigger \in Triggers, NEW cause \in Triggers
    PROVE  LET c == CloseTrade(b, a, m, slip, trigger, cause)
               pos == b.positions[a]
               exit == ExitPrice(AccrueFunding(pos, m).side, m.mark, slip)
           IN  /\ OneMore(c.positions, b.positions, a, pos)
               /\ c.balance = b.balance + RealizedPnl(AccrueFunding(pos, m), exit)
<1> DEFINE c == CloseTrade(b, a, m, slip, trigger, cause)
           pos == b.positions[a]
           exit == ExitPrice(AccrueFunding(pos, m).side, m.mark, slip)
<1>1. /\ Held(c) = Held(b) \ {a}
      /\ \A x \in Held(c) : c.positions[x] = b.positions[x]
  BY CloseTradeEffect
<1>2. c.balance = b.balance + RealizedPnl(AccrueFunding(pos, m), exit)
  BY DEF CloseTrade, ExecClose, RecordClose, PopSized, BooksTypeOK
<1> HIDE DEF c, exit
<1>3. OneMore(c.positions, b.positions, a, pos)
  BY <1>1 DEF OneMore, Held
<1> QED
  BY <1>2, <1>3 DEF c, exit

-----------------------------------------------------------------------------
(* The sums over such portfolios.                                          *)

\* One position more adds its notional at its last mark to the exposure,
LEMMA ExposureOneMore ==
    ASSUME NEW p, IsPortfolio(p), NEW q, NEW a, NEW pos \in Position,
           OneMore(p, q, a, pos)
    PROVE  /\ Exposure(p) \in Int
           /\ Exposure(q) = Exposure(p) + pos.qty * pos.lastMark
<1> DEFINE f == [x \in DOMAIN p |-> p[x].qty * p[x].lastMark]
           g == [x \in DOMAIN q |-> q[x].qty * q[x].lastMark]
<1>1. IsFiniteSet(DOMAIN p) /\ \A x \in DOMAIN p : p[x] \in Position
  BY PortfolioFinite
<1>2. \A y \in Position : y.qty * y.lastMark \in Int
  BY PositionType
<1>3. /\ DOMAIN f = DOMAIN p /\ a \notin DOMAIN f /\ DOMAIN g = DOMAIN f \cup {a}
      /\ g[a] = pos.qty * pos.lastMark /\ g[a] \in Int
      /\ \A x \in DOMAIN f : f[x] \in Int /\ g[x] = f[x]
  BY <1>1, <1>2 DEF OneMore
<1>4. /\ SumFunction(f) \in Int
      /\ SumFunction(g) = SumFunction(f) + g[a]
  <2> HIDE DEF f, g
  <2> QED BY <1>1, <1>3, SumGrows
<1> QED
  BY <1>3, <1>4 DEF Exposure

\* What a position is worth above its entry.
Worth(pos) == UnrealizedPnl(pos) + pos.accrued

\* It is a number;
LEMMA WorthType ==
    ASSUME NEW pos \in Position
    PROVE  Worth(pos) \in Int
<1>1. /\ pos.qty \in Int /\ pos.lastMark \in Int /\ pos.entryPrice \in Int
      /\ pos.accrued \in Int /\ Direction(pos.side) \in Int /\ Bps \in Int
  BY PositionType, DirectionType, BpsAssumption
<1>2. Direction(pos.side) * (pos.lastMark - pos.entryPrice) \in Int
  BY <1>1
<1> QED
  BY <1>1, <1>2 DEF Worth, UnrealizedPnl

\* and what it is worth, and the cash it took, to the equity.
LEMMA EquityOneMore ==
    ASSUME NEW p, IsPortfolio(p), NEW q, NEW a, NEW pos \in Position,
           OneMore(p, q, a, pos), NEW old \in Int, NEW new \in Int
    PROVE  /\ Equity(old, p) \in Int
           /\ Equity(new, q) = Equity(old, p) + (new - old) + Worth(pos)
<1> DEFINE f == [x \in DOMAIN p |-> UnrealizedPnl(p[x]) + p[x].accrued]
           g == [x \in DOMAIN q |-> UnrealizedPnl(q[x]) + q[x].accrued]
<1>1. IsFiniteSet(DOMAIN p) /\ \A x \in DOMAIN p : p[x] \in Position
  BY PortfolioFinite
<1>2. \A y \in Position : UnrealizedPnl(y) + y.accrued \in Int
  BY WorthType DEF Worth
<1>3. /\ DOMAIN f = DOMAIN p /\ a \notin DOMAIN f /\ DOMAIN g = DOMAIN f \cup {a}
      /\ g[a] = UnrealizedPnl(pos) + pos.accrued /\ g[a] \in Int
      /\ \A x \in DOMAIN f : f[x] \in Int /\ g[x] = f[x]
  BY <1>1, <1>2 DEF OneMore
<1>4. /\ SumFunction(f) \in Int
      /\ SumFunction(g) = SumFunction(f) + g[a]
  <2> HIDE DEF f, g
  <2> QED BY <1>1, <1>3, SumGrows
<1>5. Equity(old, p) = old + SumFunction(f) /\ Equity(new, q) = new + SumFunction(g)
  BY DEF Equity
<1>6. g[a] = Worth(pos)
  BY <1>3 DEF Worth
<1> HIDE DEF f, g
<1> QED
  BY <1>3, <1>4, <1>5, <1>6

-----------------------------------------------------------------------------
(* Exposure: the gate's projection is of the books the trade joins.        *)

\* A decision leaves the books it finds, or those of the close it begins with,
\* or opens in them a trade that the gate approved.
LEMMA ApplyTrades ==
    ASSUME TypeOK, NEW d \in Decision, ApplyDecision(d)
    PROVE  /\ books' # books => d.asset \in DOMAIN snapshots
           /\ \E b :
                /\ \/ b = books
                   \/ /\ d.asset \in DOMAIN snapshots
                      /\ d.asset \in Held(books)
                      /\ \E slip \in Slips, why \in Triggers :
                           b = CloseTrade(books, d.asset, snapshots[d.asset], slip,
                                          why, why)
                /\ \/ books' = b /\ nextId' = nextId
                   \/ /\ d.asset \in DOMAIN snapshots
                      /\ d.side \in Sides
                      /\ nextId \in Ids
                      /\ \E plan \in Plans, slip \in Slips :
                           /\ plan.qty > 0
                           /\ GateApproves(b, d.asset,
                                           plan.qty * snapshots[d.asset].mark)
                           /\ books' = OpenTrade(b, d.asset, nextId, d.side, plan,
                                                 snapshots[d.asset], slip)
<1> DEFINE a == d.asset
           m == snapshots[a]
           Opens(b) == \E plan \in Plans, slip \in Slips :
                           /\ plan.qty > 0
                           /\ GateApproves(b, a, plan.qty * m.mark)
                           /\ books' = OpenTrade(b, a, nextId, d.side, plan, m, slip)
           After(b) == \/ books' = b /\ nextId' = nextId
                       \/ /\ a \in DOMAIN snapshots
                          /\ d.side \in Sides
                          /\ nextId \in Ids
                          /\ Opens(b)
           Shut(b) == /\ a \in DOMAIN snapshots
                      /\ a \in Held(books)
                      /\ \E slip \in Slips, why \in Triggers :
                            b = CloseTrade(books, a, m, slip, why, why)
           Goal == /\ books' # books => a \in DOMAIN snapshots
                   /\ \E b : (b = books \/ Shut(b)) /\ After(b)
<1> SUFFICES Goal
  OBVIOUS
<1>0. nextId \in 1..(MaxOpens + 1) /\ d.side \in Sides \cup {"none"} /\ MaxOpens \in Nat
  BY LimitAssumption DEF TypeOK, Decision
<1>1. ASSUME NEW b, a \in DOMAIN snapshots, EnterSized(b, d) PROVE After(b)
  <2>1. CASE Refuse(b)
    BY <2>1 DEF Refuse
  <2>2. CASE ~Refuse(b)
    <3>1. d.side # "none" /\ nextId <= MaxOpens /\ Opens(b)
      BY <1>1, <2>2 DEF EnterSized
    <3> HIDE DEF Opens
    <3> QED
      BY <1>0, <1>1, <3>1 DEF Ids
  <2> QED
    BY <2>1, <2>2
<1>2. CASE ApplyUnseen(d) \/ ApplyHold(d)
  BY <1>2 DEF ApplyUnseen, ApplyHold, Refuse, Fill
<1>3. CASE ApplyEnter(d)
  <2>1. a \in DOMAIN snapshots
    BY <1>3 DEF ApplyEnter
  <2>2. After(books)
    <3>1. Refuse(books) => After(books)
      BY DEF Refuse
    <3> HIDE DEF After
    <3> QED
      BY <1>1, <1>3, <2>1, <3>1 DEF ApplyEnter
  <2> HIDE DEF After, Shut
  <2> QED
    BY <2>1, <2>2
<1>4. ASSUME NEW slip \in Slips, NEW why \in Triggers,
             a \in DOMAIN snapshots, a \in Held(books)
      PROVE  Shut(CloseTrade(books, a, m, slip, why, why))
  BY <1>4
<1>5. CASE ApplyCut(d)
  <2>1. a \in DOMAIN snapshots
    BY <1>5 DEF ApplyCut
  <2>2. CASE a \notin Held(books)
    BY <1>5, <2>1, <2>2 DEF ApplyCut, Refuse
  <2>3. CASE a \in Held(books)
    <3>1. PICK slip \in Slips : Fill(CloseTrade(books, a, m, slip, "cut", "cut"))
      BY <1>5, <2>3 DEF ApplyCut
    <3> DEFINE b == CloseTrade(books, a, m, slip, "cut", "cut")
    <3>2. Shut(b)
      <4> HIDE DEF Shut
      <4> QED BY <1>4, <2>1, <2>3 DEF Triggers
    <3>3. After(b)
      BY <3>1 DEF Fill
    <3> HIDE DEF b, Shut, After
    <3> QED
      BY <2>1, <3>2, <3>3
  <2> QED
    BY <2>2, <2>3
<1>6. CASE ApplyFlip(d)
  <2>1. a \in DOMAIN snapshots
    BY <1>6 DEF ApplyFlip
  <2>2. CASE a \notin Held(books)
    <3>1. After(books)
      <4> HIDE DEF After
      <4> QED BY <1>1, <1>6, <2>1, <2>2 DEF ApplyFlip
    <3> HIDE DEF After, Shut
    <3> QED
      BY <2>1, <3>1
  <2>3. CASE a \in Held(books)
    <3>1. PICK slip \in Slips :
             EnterSized(CloseTrade(books, a, m, slip, "flip", "flip"), d)
      BY <1>6, <2>3 DEF ApplyFlip
    <3> DEFINE b == CloseTrade(books, a, m, slip, "flip", "flip")
    <3>2. Shut(b)
      <4> HIDE DEF Shut
      <4> QED BY <1>4, <2>1, <2>3 DEF Triggers
    <3>3. After(b)
      <4> HIDE DEF After
      <4> QED BY <1>1, <2>1, <3>1
    <3> HIDE DEF b, Shut, After
    <3> QED
      BY <2>1, <3>2, <3>3
  <2> QED
    BY <2>2, <2>3
<1> HIDE DEF Goal
<1> QED
  BY <1>2, <1>3, <1>5, <1>6 DEF ApplyDecision

\* The books a decision opens in are well typed, and its asset is not held there.
LEMMA ShutType ==
    ASSUME TypeOK, NEW a \in DOMAIN snapshots, a \in Held(books),
           NEW slip \in Slips, NEW why \in Triggers
    PROVE  /\ snapshots[a] \in MarketData
           /\ BooksTypeOK(CloseTrade(books, a, snapshots[a], slip, why, why))
<1>1. snapshots[a] \in MarketData /\ BooksTypeOK(books)
  BY DEF TypeOK, IsDict
<1> QED
  BY <1>1, CloseEffect

\* A step that opens a trade ends within the cap.
LEMMA OpeningWithinCap ==
    ASSUME TypeInv, [Next]_vars, nextId' # nextId
    PROVE  Exposure(books'.positions) <= MaxExposure
<1>1. PICK d \in Decision : ApplyDecision(d)
  BY DEF Next, MainThread, vars, Fetch, CheckPosition, StopsChecked, Drain, Applied,
         Launch, AgentRead, AgentAnswer
<1> DEFINE a == d.asset
           m == snapshots[a]
<1>2. TypeOK /\ BooksTypeOK(books)
  BY DEF TypeInv, TypeOK
<1>3. PICK b : /\ \/ b = books
                  \/ /\ a \in DOMAIN snapshots
                     /\ a \in Held(books)
                     /\ \E slip \in Slips, why \in Triggers :
                          b = CloseTrade(books, a, m, slip, why, why)
               /\ a \in DOMAIN snapshots
               /\ d.side \in Sides
               /\ nextId \in Ids
               /\ \E plan \in Plans, slip \in Slips :
                     /\ plan.qty > 0
                     /\ GateApproves(b, a, plan.qty * m.mark)
                     /\ books' = OpenTrade(b, a, nextId, d.side, plan, m, slip)
  BY <1>1, <1>2, ApplyTrades
<1>4. BooksTypeOK(b)
  BY <1>2, <1>3, ShutType
<1>5. PICK plan \in Plans, slip \in Slips :
         /\ plan.qty > 0
         /\ GateApproves(b, a, plan.qty * m.mark)
         /\ books' = OpenTrade(b, a, nextId, d.side, plan, m, slip)
  BY <1>3
<1> DEFINE pos == NewPosition(nextId, d.side, plan, m, slip)
<1>6. /\ a \notin Held(b) /\ a \in Assets /\ m \in MarketData
      /\ Exposure(b.positions) + plan.qty * m.mark <= MaxExposure
  BY <1>2, <1>3, <1>5 DEF GateApproves, TypeOK, IsDict
<1>7. OneMore(b.positions, books'.positions, a, pos) /\ IsPortfolio(b.positions)
  <2>1. OneMore(b.positions, books'.positions, a, pos)
    BY <1>3, <1>4, <1>5, <1>6, OpenAdds
  <2> QED
    BY <1>4, <2>1 DEF IsPortfolio, BooksTypeOK
<1>8. pos \in Position /\ pos.qty = plan.qty /\ pos.lastMark = m.mark
  <2>1. pos \in Position
    BY <1>3, <1>5, <1>6, NewPositionType
  <2> QED
    BY <2>1 DEF NewPosition
<1> HIDE DEF pos, a, m
<1>9. Exposure(books'.positions) = Exposure(b.positions) + pos.qty * pos.lastMark
  BY <1>7, <1>8, ExposureOneMore
<1> QED
  BY <1>6, <1>8, <1>9

\* Whenever a trade is opened, by an entry or by the second half of a flip, the
\* portfolio it joins is then within max_total_exposure_usd.
THEOREM ExposureCapped == Spec => ExposureWithinCap
<1>1. TypeInv /\ [Next]_vars
        => [nextId' # nextId => Exposure(books'.positions) <= MaxExposure]_vars
  BY OpeningWithinCap
<1> QED
  BY <1>1, TypeInvariant, PTL DEF Spec, ExposureWithinCap

-----------------------------------------------------------------------------
(* Equity: what a decision costs.                                          *)

\* A position whose asset is past its check has been marked by this tick.
Marked(b, S) ==
    \A a \in Held(b) \cap DOMAIN snapshots \cap S :
        b.positions[a].lastMark = snapshots[a].mark

\* Those past their check are the positions not in unchecked.
MarkedInv == Marked(books, Assets \ unchecked)

\* The check of a position marks it, or closes it.
LEMMA MarkedCheck ==
    ASSUME TypeInv, MarkedInv, NEW a \in Assets, CheckPosition(a)
    PROVE  MarkedInv'
<1>1. /\ a \in Held(books) /\ unchecked' = unchecked \ {a}
      /\ snapshots' = snapshots
  BY DEF CheckPosition, TypeInv, UncheckedHeld
<1>2. \/ a \notin DOMAIN snapshots /\ books' = books
      \/ Kept(books, books', a)
      \/ Closed(books, books', a)
  BY <1>1, CheckPositionEffect DEF TypeInv, TypeOK
<1>3. ASSUME NEW x \in Held(books'), x \in DOMAIN snapshots, x \notin unchecked',
             x \in Assets
      PROVE  books'.positions[x].lastMark = snapshots[x].mark
  <2>1. CASE x # a
    <3>1. x \in Held(books) /\ books'.positions[x] = books.positions[x]
      BY <1>2, <1>3, <2>1 DEF Kept, Closed, SameRest
    <3> QED
      BY <1>1, <1>3, <2>1, <3>1 DEF MarkedInv, Marked
  <2>2. CASE x = a
    <3>1. books'.positions[a] = Tick(books.positions[a], snapshots[a])
      BY <1>2, <1>3, <2>2 DEF Kept, Closed
    <3>2. books.positions[a] \in Position
      BY <1>1 DEF TypeInv, TypeOK, BooksTypeOK, IsDict, Held
    <3>3. Tick(books.positions[a], snapshots[a]).lastMark = snapshots[a].mark
      BY <3>2 DEF Position, Tick, AccrueFunding
    <3> QED
      BY <2>2, <3>1, <3>2, <3>3
  <2> QED
    BY <2>1, <2>2
<1>4. Held(books)' = Held(books')
  BY DEF Held
<1> QED
  BY <1>1, <1>3, <1>4 DEF MarkedInv, Marked

\* A decision opens at the mark of the snapshot, and leaves the other positions.
LEMMA MarkedApply ==
    ASSUME TypeInv, MarkedInv, NEW d \in Decision, ApplyDecision(d)
    PROVE  MarkedInv'
<1> DEFINE a == d.asset
<1>1. /\ snapshots' = snapshots /\ unchecked' = unchecked /\ TypeOK
  BY DEF ApplyDecision, ApplyUnseen, ApplyEnter, ApplyCut, ApplyFlip,
         ApplyHold, Applying, TypeInv
<1>2. Held(books)' = Held(books')
  BY DEF Held
<1>3. CASE books' = books
  BY <1>1, <1>2, <1>3 DEF MarkedInv, Marked
<1>4. CASE books' # books
  <2>1. PICK b : /\ \/ b = books
                    \/ Closed(books, b, a)
                 /\ \/ books' = b
                    \/ Opened(b, books', a, nextId, snapshots[a])
    BY <1>1, <1>4, ApplyEffect
  <2>2. ASSUME NEW x \in Held(books'), x \in DOMAIN snapshots, x \notin unchecked,
               x \in Assets
        PROVE  books'.positions[x].lastMark = snapshots[x].mark
    <3>1. CASE x \in Held(b) /\ books'.positions[x] = b.positions[x]
      <4>1. x \in Held(books) /\ b.positions[x] = books.positions[x]
        BY <2>1, <3>1 DEF Closed, SameRest
      <4> QED
        BY <2>2, <3>1, <4>1 DEF MarkedInv, Marked
    <3>2. CASE ~(x \in Held(b) /\ books'.positions[x] = b.positions[x])
      <4>1. x = a /\ Opened(b, books', a, nextId, snapshots[a])
        BY <2>1, <2>2, <3>2 DEF Opened, SameRest
      <4> QED
        BY <4>1 DEF Opened, NewPosition
    <3> QED
      BY <3>1, <3>2
  <2> QED
    BY <1>1, <1>2, <2>2 DEF MarkedInv, Marked
<1> QED
  BY <1>3, <1>4

\* A fetch makes all positions unchecked; the end of the step() drops the
\* snapshots; the other steps touch neither.
LEMMA MarkedStep ==
    ASSUME TypeInv, MarkedInv, [Next]_vars
    PROVE  MarkedInv'
<1>1. CASE Fetch
  <2>1. Held(books)' = Held(books) /\ unchecked' = Held(books)
    BY <1>1 DEF Fetch, Held
  <2> QED
    BY <2>1 DEF MarkedInv, Marked
<1>2. CASE Launch
  <2>1. DOMAIN snapshots' = {}
    <3>1. snapshots' = NoEntries
      BY <1>2 DEF Launch
    <3> QED
      BY <3>1 DEF NoEntries
  <2> QED
    BY <2>1 DEF MarkedInv, Marked
<1>3. CASE \/ StopsChecked \/ Drain \/ Applied \/ AgentRead \/ AgentAnswer
           \/ UNCHANGED vars
  <2>1. UNCHANGED <<books, snapshots, unchecked>>
    BY <1>3 DEF StopsChecked, Drain, Applied, AgentRead, AgentAnswer, vars
  <2> QED
    BY <2>1 DEF MarkedInv, Marked, Held
<1> QED
  BY <1>1, <1>2, <1>3, MarkedCheck, MarkedApply DEF Next, MainThread

\* In every reachable state.
LEMMA MarkedInvariant == Spec => []MarkedInv
<1>1. Init => MarkedInv
  BY NoEntriesDict DEF Init, MarkedInv, Marked
<1> QED
  BY <1>1, MarkedStep, TypeInvariant, PTL DEF Spec

\* Slippage is against the trader at the entry.
LEMMA SlippedEntry ==
    ASSUME NEW D \in {-1, 1}, NEW q \in Nat, NEW m \in Nat, NEW s \in Nat
    PROVE  Bps * D * (m - (m + D * s)) * q = -(Bps * s * q)
<1>1. Bps \in Nat
  BY BpsAssumption
<1> QED
  BY <1>1

\* The fee never makes up for the slippage, even where it drives the price of
\* the exit below zero.
LEMMA FeeBound ==
    ASSUME NEW D \in {-1, 1}, NEW q \in Nat, NEW m \in Nat, NEW s \in Nat
    PROVE  -(TakerBps * q * (m - D * s)) <= Bps * s * q
<1>0. Bps \in Nat /\ TakerBps \in Nat /\ TakerBps <= Bps
  BY BpsAssumption, TakerAssumption, FeeAssumption
<1> DEFINE sq == s * q
           mq == m * q
<1>1. /\ sq \in Nat /\ mq \in Nat
      /\ Bps * s * q = Bps * sq
      /\ TakerBps * q * (m - D * s) = TakerBps * mq - D * (TakerBps * sq)
  BY <1>0
<1>2. /\ Bps * sq \in Nat /\ TakerBps * sq \in Nat /\ TakerBps * mq \in Nat
      /\ TakerBps * sq <= Bps * sq
  <2> HIDE DEF sq, mq
  <2> QED
    BY <1>0, <1>1
<1> HIDE DEF sq, mq
<1> QED
  BY <1>1, <1>2

\* What closing a position at its own mark, funding paid up, gives is no more
\* than it was worth.
LEMMA CloseCosts ==
    ASSUME NEW pos \in Position, NEW m \in MarketData, NEW slip \in Slips,
           m.ts <= pos.lastFundingTs, pos.lastMark = m.mark
    PROVE  LET exit == ExitPrice(AccrueFunding(pos, m).side, m.mark, slip) IN
           /\ RealizedPnl(AccrueFunding(pos, m), exit) \in Int
           /\ RealizedPnl(AccrueFunding(pos, m), exit) <= Worth(pos)
<1> DEFINE D == Direction(pos.side)
           q == pos.qty
           e == pos.entryPrice
           price == m.mark
           exit == price - D * slip
<1>1. /\ q \in Nat /\ e \in Int /\ pos.accrued \in Int
      /\ D \in {-1, 1} /\ price \in Nat /\ slip \in Nat
      /\ m.ts \in Nat /\ pos.lastFundingTs \in Nat
  BY PositionType, DirectionType, MarketType, SlipType
<1>2. m.ts - pos.lastFundingTs <= 0
  BY <1>1
<1>3. LET c == AccrueFunding(pos, m) IN
      /\ c.side = pos.side /\ c.qty = pos.qty /\ c.entryPrice = pos.entryPrice
      /\ c.accrued = pos.accrued
  BY <1>2 DEF AccrueFunding, Position
<1>4. /\ ExitPrice(AccrueFunding(pos, m).side, m.mark, slip) = exit
      /\ RealizedPnl(AccrueFunding(pos, m), exit)
           = Bps * D * (exit - e) * q + pos.accrued - TakerBps * q * exit
  BY <1>3 DEF ExitPrice, RealizedPnl, Fee
<1>5. Worth(pos) = Bps * D * (price - e) * q + pos.accrued
  BY DEF Worth, UnrealizedPnl
<1>6. /\ Bps * D * (price - D * slip - e) * q = Bps * D * (price - e) * q - Bps * slip * q
      /\ -(TakerBps * q * (price - D * slip)) <= Bps * slip * q
  <2> HIDE DEF D, q, e, price
  <2>1. Bps * D * (price - D * slip - e) * q = Bps * D * (price - e) * q - Bps * slip * q
    <3>1. Bps \in Nat
      BY BpsAssumption
    <3> QED
      BY <1>1, <3>1
  <2>2. -(TakerBps * q * (price - D * slip)) <= Bps * slip * q
    BY <1>1, FeeBound, Zenon
  <2> QED
    BY <2>1, <2>2
<1>7. RealizedPnl(AccrueFunding(pos, m), exit) \in Int
  BY <1>4, CashType, AccrueType
<1> DEFINE gain == Bps * D * (price - e) * q
           loss == Bps * slip * q
           fee == TakerBps * q * exit
<1>8. gain \in Int /\ loss \in Int /\ fee \in Int
  <2> HIDE DEF D
  <2> QED
    BY <1>1, BpsAssumption, TakerAssumption
<1>9. RealizedPnl(AccrueFunding(pos, m), exit) = gain - loss + pos.accrued - fee
  BY <1>4, <1>6
<1>10. -fee <= loss
  BY <1>6
<1>11. Worth(pos) = gain + pos.accrued
  BY <1>5
<1>12. RealizedPnl(AccrueFunding(pos, m), exit) <= Worth(pos)
  <2> HIDE DEF gain, loss, fee, exit, D
  <2> QED
    BY <1>1, <1>8, <1>9, <1>10, <1>11
<1> QED
  BY <1>4, <1>7, <1>12

\* And a position just opened is worth no more than nothing.
LEMMA OpenCosts ==
    ASSUME NEW id \in Ids, NEW side \in Sides, NEW plan \in Plans,
           NEW m \in MarketData, NEW slip \in Slips
    PROVE  Worth(NewPosition(id, side, plan, m, slip)) <= 0
<1> DEFINE D == Direction(side)
<1>1. /\ plan.qty \in Nat /\ D \in {-1, 1} /\ m.mark \in Nat /\ slip \in Nat
  BY PlanType, DirectionType, MarketType, SlipType
<1>2. Worth(NewPosition(id, side, plan, m, slip))
        = Bps * D * (m.mark - (m.mark + D * slip)) * plan.qty + 0
  BY DEF Worth, UnrealizedPnl, NewPosition, EntryPrice
<1>3. Bps * D * (m.mark - (m.mark + D * slip)) * plan.qty = -(Bps * slip * plan.qty)
  <2> HIDE DEF D
  <2> QED
    BY <1>1, SlippedEntry, Zenon
<1>4. Bps * slip * plan.qty \in Nat
  BY <1>1, BpsAssumption
<1> QED
  BY <1>2, <1>3, <1>4

\* A close, in the market that marked the position, loses equity at most,
LEMMA EquityClosed ==
    ASSUME NEW b, BooksTypeOK(b), NEW a \in Held(b), NEW m \in MarketData,
           NEW slip \in Slips, NEW why \in Triggers,
           m.ts <= b.positions[a].lastFundingTs, b.positions[a].lastMark = m.mark
    PROVE  LET c == CloseTrade(b, a, m, slip, why, why) IN
           Equity(c.balance, c.positions) <= Equity(b.balance, b.positions)
<1> DEFINE c == CloseTrade(b, a, m, slip, why, why)
           pos == b.positions[a]
           realized == RealizedPnl(AccrueFunding(pos, m),
                           ExitPrice(AccrueFunding(pos, m).side, m.mark, slip))
<1>1. OneMore(c.positions, b.positions, a, pos) /\ c.balance = b.balance + realized
  BY CloseRemoves
<1>2. pos \in Position /\ b.balance \in Int
  BY DEF BooksTypeOK, IsDict, Held
<1>3. BooksTypeOK(c)
  BY CloseTradeEffect
<1>4. realized \in Int /\ realized <= Worth(pos)
  <2> HIDE DEF pos
  <2> QED
    BY <1>2, CloseCosts DEF pos
<1>5. IsPortfolio(c.positions) /\ c.balance \in Int
  <2> HIDE DEF c
  <2> QED
    BY <1>3 DEF BooksTypeOK, IsPortfolio
<1> HIDE DEF c, pos, realized
<1>6. /\ Equity(c.balance, c.positions) \in Int
      /\ Equity(b.balance, b.positions)
           = Equity(c.balance, c.positions) + (b.balance - c.balance) + Worth(pos)
  <2> DEFINE p == c.positions
             q == b.positions
             before == c.balance
             after == b.balance
  <2>1. IsPortfolio(p) /\ OneMore(p, q, a, pos) /\ before \in Int /\ after \in Int
    BY <1>1, <1>2, <1>5
  <2> HIDE DEF p, q, before, after
  <2>2. /\ Equity(before, p) \in Int
        /\ Equity(after, q) = Equity(before, p) + (after - before) + Worth(pos)
    BY <1>2, <2>1, EquityOneMore
  <2> QED
    BY <2>2 DEF p, q, before, after
<1>7. Equity(c.balance, c.positions) <= Equity(b.balance, b.positions)
  BY <1>1, <1>2, <1>4, <1>5, <1>6, WorthType
<1> QED
  BY <1>7 DEF c

\* and so does an open.
LEMMA EquityOpened ==
    ASSUME NEW b, BooksTypeOK(b), NEW a \in Assets, a \notin Held(b), NEW id \in Ids,
           NEW side \in Sides, NEW plan \in Plans, plan.qty > 0,
           NEW m \in MarketData, NEW slip \in Slips
    PROVE  LET c == OpenTrade(b, a, id, side, plan, m, slip) IN
           Equity(c.balance, c.positions) <= Equity(b.balance, b.positions)
<1> DEFINE c == OpenTrade(b, a, id, side, plan, m, slip)
           pos == NewPosition(id, side, plan, m, slip)
           fee == Fee(plan.qty, m.mark)
<1>1. OneMore(b.positions, c.positions, a, pos) /\ c.balance = b.balance - fee
  BY OpenAdds
<1>2. pos \in Position
  BY NewPositionType
<1>3. Worth(pos) <= 0
  BY OpenCosts
<1>4. fee \in Nat
  BY PlanType, MarketType, TakerAssumption DEF Fee
<1>5. IsPortfolio(b.positions) /\ b.balance \in Int
  BY DEF BooksTypeOK, IsPortfolio
<1> HIDE DEF c, pos, fee
<1>6. c.balance \in Int
  BY <1>1, <1>4, <1>5
<1>7. /\ Equity(b.balance, b.positions) \in Int
      /\ Equity(c.balance, c.positions)
           = Equity(b.balance, b.positions) + (c.balance - b.balance) + Worth(pos)
  <2> DEFINE p == b.positions
             q == c.positions
             before == b.balance
             after == c.balance
  <2>1. IsPortfolio(p) /\ OneMore(p, q, a, pos) /\ before \in Int /\ after \in Int
    BY <1>1, <1>5, <1>6
  <2> HIDE DEF p, q, before, after
  <2>2. /\ Equity(before, p) \in Int
        /\ Equity(after, q) = Equity(before, p) + (after - before) + Worth(pos)
    <3>1. Equity(before, p) \in Int
      BY <1>2, <2>1, EquityOneMore
    <3>2. \A x \in Position, u, v \in Int :
             IsPortfolio(p) /\ OneMore(p, q, a, x) =>
                Equity(v, q) = Equity(u, p) + (v - u) + Worth(x)
      BY EquityOneMore
    <3> QED
      BY <1>2, <2>1, <3>1, <3>2
  <2> QED
    BY <2>2 DEF p, q, before, after
<1>8. Equity(c.balance, c.positions) <= Equity(b.balance, b.positions)
  BY <1>1, <1>2, <1>3, <1>4, <1>5, <1>6, <1>7, WorthType
<1> QED
  BY <1>8 DEF c

\* The equity of well-typed books is a number.
LEMMA EquityInt ==
    ASSUME NEW b, BooksTypeOK(b)
    PROVE  Equity(b.balance, b.positions) \in Int
<1> DEFINE p == b.positions
           f == [x \in DOMAIN p |-> UnrealizedPnl(p[x]) + p[x].accrued]
<1>1. IsFiniteSet(DOMAIN p) /\ \A x \in DOMAIN p : p[x] \in Position
  BY PortfolioFinite DEF BooksTypeOK, IsPortfolio
<1>2. \A y \in Position : UnrealizedPnl(y) + y.accrued \in Int
  BY WorthType DEF Worth
<1>3. DOMAIN f = DOMAIN p /\ \A x \in DOMAIN p : f[x] \in Int
  BY <1>1, <1>2
<1>4. SumFunction(f) \in Int
  <2> HIDE DEF f, p
  <2> QED
    BY <1>1, <1>3, SumType DEF SumFunction
<1>5. b.balance \in Int
  BY DEF BooksTypeOK
<1> QED
  BY <1>4, <1>5 DEF Equity

\* While a batch is applied every open position has been marked and charged by
\* the tick of this very step, so that a decision realises nothing new.
LEMMA ApplyingCosts ==
    ASSUME TypeInv, RowsInv, MarkedInv, pc = "apply", NEW d \in Decision,
           ApplyDecision(d)
    PROVE  Equity(books'.balance, books'.positions)
             <= Equity(books.balance, books.positions)
<1> DEFINE a == d.asset
           m == snapshots[a]
           E(b) == Equity(b.balance, b.positions)
<1>1. TypeOK /\ BooksTypeOK(books) /\ unchecked = {} /\ Held(books) \subseteq Assets
  BY DEF TypeInv, TypeOK, UncheckedHeld, BooksTypeOK, IsDict, Held
<1>2. PICK b : /\ \/ b = books
                  \/ /\ a \in DOMAIN snapshots
                     /\ a \in Held(books)
                     /\ \E slip \in Slips, why \in Triggers :
                          b = CloseTrade(books, a, m, slip, why, why)
               /\ \/ books' = b
                  \/ /\ a \in DOMAIN snapshots
                     /\ d.side \in Sides
                     /\ nextId \in Ids
                     /\ \E plan \in Plans, slip \in Slips :
                          /\ plan.qty > 0
                          /\ GateApproves(b, a, plan.qty * m.mark)
                          /\ books' = OpenTrade(b, a, nextId, d.side, plan, m, slip)
  BY <1>1, ApplyTrades
<1>3. BooksTypeOK(b)
  BY <1>1, <1>2, ShutType
<1>4. a \in DOMAIN snapshots => m \in MarketData /\ a \in Assets
  BY <1>1 DEF TypeOK, IsDict
<1>5. E(b) <= E(books)
  <2>1. CASE b = books
    BY <1>1, <2>1, EquityInt
  <2>2. CASE b # books
    <3>1. /\ a \in DOMAIN snapshots /\ a \in Held(books) /\ a \in Assets
      BY <1>2, <1>4, <2>2
    <3>2. /\ m.ts <= books.positions[a].lastFundingTs
          /\ books.positions[a].lastMark = m.mark
      BY <1>1, <3>1 DEF RowsInv, Rows, Ticked, MarkedInv, Marked
    <3>3. PICK slip \in Slips, why \in Triggers :
             b = CloseTrade(books, a, m, slip, why, why)
      BY <1>2, <2>2
    <3> HIDE DEF a, m
    <3> QED
      BY <1>1, <1>4, <3>1, <3>2, <3>3, EquityClosed
  <2> QED
    BY <2>1, <2>2
<1>6. E(books') <= E(b)
  <2>1. CASE books' = b
    BY <1>3, <2>1, EquityInt
  <2>2. CASE books' # b
    <3>1. PICK plan \in Plans, slip \in Slips :
             /\ plan.qty > 0
             /\ GateApproves(b, a, plan.qty * m.mark)
             /\ books' = OpenTrade(b, a, nextId, d.side, plan, m, slip)
      BY <1>2, <2>2
    <3>2. /\ a \in DOMAIN snapshots /\ d.side \in Sides /\ nextId \in Ids
          /\ a \notin Held(b)
      BY <1>2, <2>2, <3>1 DEF GateApproves
    <3> HIDE DEF a, m
    <3> QED
      BY <1>3, <1>4, <3>1, <3>2, EquityOpened
  <2> QED
    BY <2>1, <2>2
<1>7. BooksTypeOK(books')
  BY <1>1, ApplyEffect
<1>8. E(books) \in Int /\ E(b) \in Int /\ E(books') \in Int
  BY <1>1, <1>3, <1>7, EquityInt
<1> HIDE DEF E
<1>9. E(books') <= E(books)
  BY <1>5, <1>6, <1>8
<1> QED
  BY <1>9 DEF E

\* No decision makes the account richer, whatever the market, the plan and the
\* slippage: neither a fill nor the funding of a close adds to the equity.
THEOREM TradingCostsHold == Spec => TradingCosts
<1>1. TypeInv /\ RowsInv /\ MarkedInv /\ [Next]_vars
        => [pc = "apply" => Equity(books'.balance, books'.positions)
                              <= Equity(books.balance, books.positions)]_vars
  <2> SUFFICES ASSUME TypeInv, RowsInv, MarkedInv, Next, pc = "apply"
               PROVE  Equity(books'.balance, books'.positions)
                        <= Equity(books.balance, books.positions)
    OBVIOUS
  <2>1. CASE \E d \in Decision : ApplyDecision(d)
    BY <2>1, ApplyingCosts
  <2>2. CASE ~\E d \in Decision : ApplyDecision(d)
    <3>1. books' = books
      BY <2>2 DEF Next, MainThread, Fetch, CheckPosition, StopsChecked, Drain, Applied,
                  Launch, AgentRead, AgentAnswer
    <3>2. Equity(books.balance, books.positions) \in Int
      BY EquityInt DEF TypeInv, TypeOK
    <3> QED
      BY <3>1, <3>2
  <2> QED
    BY <2>1, <2>2
<1> QED
  BY <1>1, TypeInvariant, RowsInvariant, MarkedInvariant, PTL DEF Spec, TradingCosts
=============================================================================
