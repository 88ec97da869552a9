--------------------------- MODULE AgentCallProofs ---------------------------
(***************************************************************************)
(* Theorems about AgentCall, for every universe of assets and either       *)
(* synthesizer.                                                            *)
(***************************************************************************)
EXTENDS AgentCall, TLAPS, FiniteSetTheorems

Pcs == {"none", "answer", "error", "queued", "lookup", "pass", "iterate", "wire"}
Work == [pass : 0..Passes, size : Nat, items : SUBSET Assets]
View == [balance : Nat, listed : SUBSET Assets]

\* The rule knows every position, as it saw them all at once and none is
\* opened since.  An iteration counts on the size it began with: closes only
\* shrink the dictionary, and as long as it has that size nothing was closed,
\* so that what was read is still there.
AgentInv ==
    /\ TypeOK
    /\ kind = "rule" => pc \notin {"pass", "iterate", "wire"}
    /\ kind = "rule" /\ pc \in {"lookup", "answer"} => open \subseteq view.listed
    /\ pc = "queued" => view.listed = {}
    /\ pc = "iterate" =>
        /\ Cardinality(open) <= work.size
        /\ Cardinality(open) = work.size => work.items \subseteq open

\* Sets of assets are finite (--coins).
LEMMA FiniteAssets ==
    ASSUME AgentAssumption, NEW s \in SUBSET Assets
    PROVE  IsFiniteSet(s) /\ Cardinality(s) \in Nat
BY FS_Subset, FS_CardinalityType DEF AgentAssumption

\* Closing a position makes the dictionary smaller by one (del positions[a]).
LEMMA OneLess ==
    ASSUME AgentAssumption, NEW s \in SUBSET Assets, NEW a \in s
    PROVE  Cardinality(s \ {a}) = Cardinality(s) - 1
BY FiniteAssets, FS_RemoveElement

\* A change of the positions keeps them within the universe.
LEMMA FillType ==
    ASSUME AgentAssumption, open \in SUBSET Assets, fills \in Nat,
           NEW s \in SUBSET Assets, Fill(s)
    PROVE  open' = s /\ fills' \in Nat
<1>1. Cardinality(open \ s) \in Nat /\ Cardinality(s \ open) \in Nat
  BY FiniteAssets
<1> QED
  BY <1>1 DEF Fill

\* What the type invariant says of the call's record and view (_AsyncAgent).
LEMMA TypeFacts ==
    ASSUME TypeOK
    PROVE  /\ work \in Work /\ view \in View /\ pc \in Pcs
           /\ open \in SUBSET Assets /\ fills \in Nat /\ cands \in SUBSET Assets
           /\ view.listed \in SUBSET Assets
BY DEF TypeOK, Work, View, Pcs, Settled

-----------------------------------------------------------------------------
(* Type correctness.                                                       *)

\* The main thread (step(), main()).
LEMMA MainType ==
    ASSUME AgentAssumption, TypeOK,
           \/ MainStep \/ FallDue \/ Interrupt
           \/ \E a \in Assets : StopOut(a)
    PROVE  TypeOK'
<1> USE DEF TypeOK, Settled, book, job
<1>1. NoWork \in Work /\ NoView \in View
  BY DEF NoWork, NoView, Work, View, Passes
<1>2. CASE EndTick
  BY <1>2 DEF EndTick
<1>3. CASE PollAnswer
  <2>1. PICK s \in SUBSET (open \cup Entries) : Fill(s)
    BY <1>3 DEF PollAnswer
  <2>2. s \in SUBSET Assets
    BY DEF Entries
  <2>3. open' \in SUBSET Assets /\ fills' \in Nat
    BY <2>1, <2>2, FillType
  <2> QED
    BY <1>1, <1>3, <2>3 DEF PollAnswer, Drained, Forget, Work, View
<1>4. CASE PollError
  BY <1>1, <1>4 DEF PollError, Drained, Forget, Work, View
<1>5. CASE PollPending
  BY <1>5 DEF PollPending
<1>6. CASE EndStep
  BY <1>6 DEF EndStep
<1>7. ASSUME NEW c \in SUBSET Assets, Launch(c)
      PROVE  TypeOK'
  BY <1>1, <1>7 DEF Launch, Work, View
<1>8. CASE FallDue
  BY <1>8 DEF FallDue
<1>9. CASE Interrupt
  BY <1>1, <1>9 DEF Interrupt, Forget, Work, View
<1>10. ASSUME NEW a \in Assets, StopOut(a)
       PROVE  TypeOK'
  <2>1. Fill(open \ {a}) /\ open \ {a} \in SUBSET Assets
    BY <1>10 DEF StopOut
  <2>2. open' \in SUBSET Assets /\ fills' \in Nat
    BY <2>1, FillType
  <2> QED
    BY <1>10, <2>2 DEF StopOut
<1> QED
  BY <1>2, <1>3, <1>4, <1>5, <1>6, <1>7, <1>8, <1>9, <1>10 DEF MainStep

\* The thread of the agent (decide()).
LEMMA AgentType ==
    ASSUME AgentAssumption, TypeOK, AgentStep \/ Respond
    PROVE  TypeOK'
<1>1. /\ work \in Work /\ view \in View /\ open \in SUBSET Assets /\ fills \in Nat
      /\ Cardinality(open) \in Nat
  BY TypeFacts, FiniteAssets
<1>2. NoWork \in Work /\ NoView \in View
  BY DEF NoWork, NoView, Work, View, Passes
<1>3. UNCHANGED <<kind, main, due, open, fills, cands>>
  BY DEF AgentStep, Respond, BeginRule, LookUp, EndRule, BeginPrompt, BeginPass,
     ReadItem, IterationRaises, EndPass, ByAgent, book
<1>4. ASSUME pc' \in Pcs, work' \in Work, view' \in View
      PROVE  TypeOK'
  BY <1>3, <1>4 DEF TypeOK, Pcs, Work, View, Settled
<1>5. CASE BeginRule
  BY <1>1, <1>2, <1>4, <1>5 DEF BeginRule, Pcs, NoWork, NoView, Work, View, Passes
<1>6. ASSUME NEW a \in Assets, LookUp(a)
      PROVE  TypeOK'
  BY <1>1, <1>2, <1>4, <1>6, TypeFacts DEF LookUp, Raise, Pcs, Work
<1>7. CASE EndRule
  BY <1>1, <1>4, <1>7 DEF EndRule, Pcs
<1>8. CASE BeginPrompt
  BY <1>1, <1>4, <1>8 DEF BeginPrompt, Pcs, NoView, View
<1>9. CASE BeginPass
  BY <1>1, <1>4, <1>9 DEF BeginPass, Pcs, Work, Passes
<1>10. ASSUME NEW a \in Assets, ReadItem(a)
       PROVE  TypeOK'
  BY <1>1, <1>4, <1>10, TypeFacts DEF ReadItem, Work
<1>11. CASE IterationRaises
  BY <1>2, <1>4, <1>11 DEF IterationRaises, Raise, Pcs
<1>12. CASE EndPass
  <2>1. pc' \in Pcs
    BY <1>12 DEF EndPass, Pcs
  <2>2. work' = work /\ (view' = view \/ view' = [view EXCEPT !.listed = work.items])
    BY <1>12 DEF EndPass
  <2>3. view' \in View
    BY <2>2, <1>1 DEF View, Work
  <2> QED
    BY <1>1, <1>4, <2>1, <2>2, <2>3
<1>13. CASE Respond
  BY <1>1, <1>2, <1>4, <1>13 DEF Respond, Raise, Pcs
<1> QED
  BY <1>5, <1>6, <1>7, <1>8, <1>9, <1>10, <1>11, <1>12, <1>13 DEF AgentStep

\* Every step keeps the types (step(), decide()).
LEMMA TypeStep ==
    ASSUME AgentAssumption, TypeOK, [Next]_vars
    PROVE  TypeOK'
<1>1. CASE Next
  BY <1>1, MainType, AgentType DEF Next
<1>2. CASE UNCHANGED vars
  BY <1>2 DEF vars, book, job, TypeOK
<1> QED
  BY <1>1, <1>2

-----------------------------------------------------------------------------
(* The invariant.                                                          *)

\* The invariant holds when main() starts.
LEMMA Initially ==
    ASSUME AgentAssumption, Init
    PROVE  AgentInv
BY DEF Init, AgentInv, TypeOK, Settled, NoWork, NoView, Passes

\* The main thread closes positions while a call runs, and opens them only when
\* none does.
LEMMA MainKeeps ==
    ASSUME AgentAssumption, AgentInv,
           \/ MainStep \/ FallDue \/ Interrupt
           \/ \E a \in Assets : StopOut(a)
    PROVE  AgentInv'
<1>1. TypeOK /\ TypeOK'
  BY MainType DEF AgentInv
<1>2. ASSUME UNCHANGED <<kind, open, pc, work, view>>
      PROVE  AgentInv'
  BY <1>1, <1>2 DEF AgentInv
<1>3. ASSUME pc' \in {"none", "queued"}, view' = NoView
      PROVE  AgentInv'
  BY <1>1, <1>3 DEF AgentInv, NoView
<1>4. CASE EndTick \/ PollPending \/ EndStep \/ FallDue
  BY <1>2, <1>4 DEF EndTick, PollPending, EndStep, FallDue, book, job
<1>5. CASE PollAnswer \/ PollError
  BY <1>3, <1>5 DEF PollAnswer, PollError, Drained, Forget
<1>6. ASSUME NEW c \in SUBSET Assets, Launch(c)
      PROVE  AgentInv'
  BY <1>3, <1>6 DEF Launch
<1>7. CASE Interrupt
  BY <1>2, <1>3, <1>7 DEF Interrupt, Forget, book, job
<1>8. ASSUME NEW a \in Assets, StopOut(a)
      PROVE  AgentInv'
  <2>1. /\ a \in open /\ open' = open \ {a}
        /\ UNCHANGED <<kind, pc, work, view>>
    BY <1>8 DEF StopOut, Fill, job
  <2>2. open \in SUBSET Assets /\ Cardinality(open) \in Nat
    BY <1>1, TypeFacts, FiniteAssets
  <2>3. Cardinality(open') = Cardinality(open) - 1
    BY <2>1, <2>2, OneLess
  <2>4. work.size \in Nat
    BY <1>1 DEF TypeOK
  <2> QED
    BY <1>1, <2>1, <2>2, <2>3, <2>4 DEF AgentInv
<1> QED
  BY <1>4, <1>5, <1>6, <1>7, <1>8 DEF MainStep

\* The agent reads and changes no position.
LEMMA AgentKeeps ==
    ASSUME AgentAssumption, AgentInv, AgentStep \/ Respond
    PROVE  AgentInv'
<1>1. TypeOK /\ TypeOK'
  BY AgentType DEF AgentInv
<1>2. UNCHANGED <<kind, open>>
  BY DEF AgentStep, Respond, BeginRule, LookUp, EndRule, BeginPrompt, BeginPass,
     ReadItem, IterationRaises, EndPass, ByAgent, book
<1>3. work \in Work /\ view \in View /\ Cardinality(open) \in Nat
  BY <1>1, TypeFacts, FiniteAssets
<1>4. ASSUME Raise
      PROVE  AgentInv'
  BY <1>1, <1>2, <1>4 DEF AgentInv, Raise
<1>5. CASE BeginRule
  BY <1>1, <1>2, <1>5 DEF AgentInv, BeginRule, NoView
<1>6. ASSUME NEW a \in Assets, LookUp(a)
      PROVE  AgentInv'
  BY <1>1, <1>2, <1>4, <1>6 DEF AgentInv, LookUp
<1>7. CASE EndRule
  BY <1>1, <1>2, <1>7 DEF AgentInv, EndRule
<1>8. CASE BeginPrompt
  BY <1>1, <1>2, <1>8 DEF AgentInv, BeginPrompt
<1>9. CASE BeginPass
  BY <1>1, <1>2, <1>3, <1>9 DEF AgentInv, BeginPass
<1>10. ASSUME NEW a \in Assets, ReadItem(a)
       PROVE  AgentInv'
  <2>1. /\ pc = "iterate" /\ a \in open /\ UNCHANGED <<pc, view>>
        /\ work' = [work EXCEPT !.items = @ \cup {a}]
    BY <1>10 DEF ReadItem
  <2>2. work'.size = work.size /\ work'.items = work.items \cup {a}
    BY <2>1, <1>3 DEF Work
  <2> QED
    BY <1>1, <1>2, <2>1, <2>2 DEF AgentInv
<1>11. CASE IterationRaises
  BY <1>4, <1>11 DEF IterationRaises
<1>12. CASE EndPass
  BY <1>1, <1>2, <1>12 DEF AgentInv, EndPass
<1>13. CASE Respond
  BY <1>1, <1>2, <1>4, <1>13 DEF AgentInv, Respond
<1> QED
  BY <1>5, <1>6, <1>7, <1>8, <1>9, <1>10, <1>11, <1>12, <1>13 DEF AgentStep

\* Every step keeps the invariant, whichever thread makes it.
LEMMA InvStep ==
    ASSUME AgentAssumption, AgentInv, [Next]_vars
    PROVE  AgentInv'
<1>1. CASE Next
  BY <1>1, MainKeeps, AgentKeeps DEF Next
<1>2. CASE UNCHANGED vars
  BY <1>2, TypeStep DEF vars, book, job, AgentInv
<1> QED
  BY <1>1, <1>2

\* It holds throughout (step() and decide() side by side).
LEMMA Invariant ==
    ASSUME AgentAssumption
    PROVE  Spec => []AgentInv
<1>1. Init => AgentInv
  BY Initially
<1>2. AgentInv /\ [Next]_vars => AgentInv'
  BY InvStep
<1> QED
  BY <1>1, <1>2, PTL DEF Spec

\* Type correctness of the call beside the loop.
THEOREM AgentTypeCorrect ==
    ASSUME AgentAssumption
    PROVE  Spec => []TypeOK
<1>1. AgentInv => TypeOK
  BY DEF AgentInv
<1> QED
  BY <1>1, Invariant, PTL

\* What the rule proposes to enter is not held when it is applied, however many
\* ticks lie between (RuleSynthesizer.decide, step).
THEOREM EntersFreshHolds ==
    ASSUME AgentAssumption
    PROVE  Spec => []EntersFresh
<1>1. AgentInv => EntersFresh
  BY DEF AgentInv, EntersFresh, Entries
<1> QED
  BY <1>1, Invariant, PTL

-----------------------------------------------------------------------------
(* The refinement.                                                         *)

\* The outline of a call, state by state of its future and its thread.
LEMMA CallIs ==
    /\ pc = "none" => call = "none"
    /\ pc \in {"queued", "pass", "iterate"} => call = "asked"
    /\ pc \in {"lookup", "wire"} => call = "read"
    /\ pc = "answer" => call = "told"
    /\ pc = "error" => call = "failed"
BY DEF call

\* The same after the step.
LEMMA CallIsNext ==
    /\ pc' = "none" => call' = "none"
    /\ pc' \in {"queued", "pass", "iterate"} => call' = "asked"
    /\ pc' \in {"lookup", "wire"} => call' = "read"
    /\ pc' = "answer" => call' = "told"
    /\ pc' = "error" => call' = "failed"
BY DEF call

\* A step that touches neither book nor view is not seen from outside.
LEMMA Same ==
    ASSUME UNCHANGED <<open, pc, view>>
    PROVE  UNCHANGED Abstract!vars
<1>1. call' = call /\ listed' = listed
  BY DEF call, listed
<1> QED
  BY <1>1 DEF Abstract!vars

\* The main thread asks, trades, takes the answer, cancels.
LEMMA MainRefines ==
    ASSUME AgentAssumption, AgentInv,
           \/ MainStep \/ FallDue \/ Interrupt
           \/ \E a \in Assets : StopOut(a)
    PROVE  [Abstract!Next]_(Abstract!vars)
<1>1. TypeOK /\ TypeOK' /\ open \in SUBSET Assets /\ open' \in SUBSET Assets
  BY MainType DEF AgentInv, TypeOK
<1>2. CASE EndTick \/ PollPending \/ EndStep \/ FallDue
  BY <1>2, Same DEF EndTick, PollPending, EndStep, FallDue, book, job
<1>3. CASE PollAnswer \/ PollError
  <2>1. pc \in {"answer", "error"} /\ pc' = "none" /\ view' = NoView
    BY <1>3 DEF PollAnswer, PollError, Drained, Forget
  <2>2. call \in {"told", "failed"} /\ call' = "none" /\ listed' = {}
    BY <2>1, CallIs, CallIsNext DEF listed, NoView
  <2>3. Abstract!Take
    BY <1>1, <2>2 DEF Abstract!Take
  <2> QED
    BY <2>3 DEF Abstract!Next
<1>4. ASSUME NEW c \in SUBSET Assets, Launch(c)
      PROVE  [Abstract!Next]_(Abstract!vars)
  <2>1. pc \in Settled /\ pc' = "queued" /\ view' = NoView /\ open' = open
    BY <1>4 DEF Launch, InFlight, book
  <2>2. /\ call \in {"none", "told", "failed"} /\ call' = "asked"
        /\ listed' = {}
    BY <2>1, CallIs, CallIsNext DEF listed, NoView, Settled
  <2>3. Abstract!Ask
    BY <2>1, <2>2 DEF Abstract!Ask
  <2> QED
    BY <2>3 DEF Abstract!Next
<1>5. CASE Interrupt
  <2>1. CASE pc = "queued"
    <3>1. pc' = "none" /\ view' = NoView /\ open' = open /\ view.listed = {}
      BY <1>5, <2>1 DEF Interrupt, Forget, book, AgentInv
    <3>2. call = "asked" /\ call' = "none" /\ listed' = listed
      BY <2>1, <3>1, CallIs, CallIsNext DEF listed, NoView
    <3>3. Abstract!Cancel
      BY <3>1, <3>2 DEF Abstract!Cancel
    <3> QED
      BY <3>3 DEF Abstract!Next
  <2>2. CASE pc # "queued"
    BY <1>5, <2>2, Same DEF Interrupt, book, job
  <2> QED
    BY <2>1, <2>2
<1>6. ASSUME NEW a \in Assets, StopOut(a)
      PROVE  [Abstract!Next]_(Abstract!vars)
  <2>1. open' = open \ {a} /\ UNCHANGED <<pc, view>>
    BY <1>6 DEF StopOut, Fill, job
  <2>2. call' = call /\ listed' = listed
    BY <2>1 DEF call, listed
  <2>3. Abstract!Trade
    BY <1>1, <2>1, <2>2 DEF Abstract!Trade
  <2> QED
    BY <2>3 DEF Abstract!Next
<1> QED
  BY <1>2, <1>3, <1>4, <1>5, <1>6 DEF MainStep

\* The rule reads at its first step.  The model's prompt is read at the step
\* that ends the last iteration: its list is then all of the positions.
LEMMA AgentRefines ==
    ASSUME AgentAssumption, AgentInv, AgentStep \/ Respond
    PROVE  [Abstract!Next]_(Abstract!vars)
<1>1. UNCHANGED open
  BY DEF AgentStep, Respond, BeginRule, LookUp, EndRule, BeginPrompt, BeginPass,
     ReadItem, IterationRaises, EndPass, ByAgent, book
<1>2. work \in Work /\ view \in View
  BY TypeFacts DEF AgentInv
<1>3. ASSUME pc \in {"queued", "lookup", "pass", "iterate", "wire"}, Raise
      PROVE  [Abstract!Next]_(Abstract!vars)
  <2>1. call \in {"asked", "read"} /\ call' = "failed" /\ listed' = {}
    BY <1>3, CallIs, CallIsNext DEF Raise, NoView, listed
  <2>2. Abstract!Fail
    BY <1>1, <2>1 DEF Abstract!Fail
  <2> QED
    BY <2>2 DEF Abstract!Next
<1>4. ASSUME pc \in {"lookup", "wire"}, pc' = "answer", view' = view
      PROVE  [Abstract!Next]_(Abstract!vars)
  <2>1. call = "read" /\ call' = "told" /\ listed' = listed
    BY <1>4, CallIs, CallIsNext DEF listed
  <2>2. Abstract!Tell
    BY <1>1, <2>1 DEF Abstract!Tell
  <2> QED
    BY <2>2 DEF Abstract!Next
<1>5. ASSUME pc \in {"queued", "iterate"}, pc' \in {"lookup", "wire"},
             view'.listed = open
      PROVE  [Abstract!Next]_(Abstract!vars)
  <2>1. call = "asked" /\ call' = "read" /\ listed' = open
    BY <1>5, CallIs, CallIsNext DEF listed
  <2>2. Abstract!Read
    BY <1>1, <2>1 DEF Abstract!Read
  <2> QED
    BY <2>2 DEF Abstract!Next
<1>6. ASSUME pc \in {"queued", "pass", "iterate"},
             pc' \in {"queued", "pass", "iterate"}, view'.listed = view.listed
      PROVE  [Abstract!Next]_(Abstract!vars)
  <2>1. call' = call /\ listed' = listed
    BY <1>6, CallIs, CallIsNext DEF listed
  <2> QED
    BY <1>1, <2>1 DEF Abstract!vars
<1>7. CASE BeginRule
  BY <1>5, <1>7 DEF BeginRule, NoView
<1>8. ASSUME NEW a \in Assets, LookUp(a)
      PROVE  [Abstract!Next]_(Abstract!vars)
  BY <1>1, <1>3, <1>8, Same DEF LookUp
<1>9. CASE EndRule
  BY <1>4, <1>9 DEF EndRule
<1>10. CASE BeginPrompt
  BY <1>6, <1>10 DEF BeginPrompt, NoView, AgentInv
<1>11. CASE BeginPass
  BY <1>6, <1>11 DEF BeginPass
<1>12. ASSUME NEW a \in Assets, ReadItem(a)
       PROVE  [Abstract!Next]_(Abstract!vars)
  BY <1>1, <1>12, Same DEF ReadItem
<1>13. CASE IterationRaises
  BY <1>3, <1>13 DEF IterationRaises
<1>14. CASE EndPass
  <2>1. CASE work.pass < Passes
    BY <1>6, <1>14, <2>1 DEF EndPass
  <2>2. CASE ~(work.pass < Passes)
    <3>1. /\ pc = "iterate" /\ pc' = "wire"
          /\ view' = [view EXCEPT !.listed = work.items]
          /\ Cardinality(open) = work.size /\ open \ work.items = {}
      BY <1>14, <2>2 DEF EndPass, SameSize
    <3>2. work.items = open
      BY <3>1 DEF AgentInv
    <3>3. view'.listed = open
      BY <3>1, <3>2, <1>2 DEF View
    <3> QED
      BY <1>5, <3>1, <3>3
  <2> QED
    BY <2>1, <2>2
<1>15. CASE Respond
  BY <1>3, <1>4, <1>15 DEF Respond
<1> QED
  BY <1>7, <1>8, <1>9, <1>10, <1>11, <1>12, <1>13, <1>14, <1>15 DEF AgentStep

\* An answer is formed on the positions of one instant, although a thread reads
\* them item by item while another closes them.
THEOREM OneInstantHolds ==
    ASSUME AgentAssumption
    PROVE  Spec => OneInstant
<1>1. Init => Abstract!Init
  BY CallIs DEF Init, Abstract!Init, NoView, listed
<1>2. AgentInv /\ [Next]_vars => [Abstract!Next]_(Abstract!vars)
  BY MainRefines, AgentRefines, Same DEF Next, vars, book, job
<1> QED
  BY <1>1, <1>2, Invariant, PTL DEF Spec, OneInstant, Abstract!Spec

\* While a call is in flight no position is opened (step(): a call is launched
\* after the answer of the same step is taken).
THEOREM OnlyShrinksHolds ==
    ASSUME AgentAssumption
    PROVE  Spec => OnlyShrinks
<1>1. ASSUME InFlight, [Next]_vars
      PROVE  open' \subseteq open
  <2>1. pc # "answer"
    BY <1>1 DEF InFlight, Settled
  <2>2. CASE AgentStep \/ Respond
    BY <2>2 DEF AgentStep, Respond, BeginRule, LookUp, EndRule, BeginPrompt, BeginPass,
       ReadItem, IterationRaises, EndPass, ByAgent, book
  <2>3. CASE MainStep \/ FallDue \/ Interrupt
    BY <2>1, <2>3 DEF MainStep, EndTick, PollAnswer, PollError, PollPending,
       EndStep, Launch, FallDue, Interrupt, book
  <2>4. ASSUME NEW a \in Assets, StopOut(a)
        PROVE  open' \subseteq open
    BY <2>4 DEF StopOut, Fill
  <2>5. CASE UNCHANGED vars
    BY <2>5 DEF vars, book
  <2> QED
    BY <1>1, <2>2, <2>3, <2>4, <2>5 DEF Next
<1>2. [Next]_vars => [InFlight => open' \subseteq open]_vars
  BY <1>1
<1> QED
  BY <1>2, PTL DEF Spec, OnlyShrinks
=============================================================================
