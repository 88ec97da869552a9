----------------------------- MODULE AgentCall -----------------------------
(***************************************************************************)
(* The agent call beside the trading loop.  _AsyncAgent (cli/run.py) runs  *)
(* decide() on a thread of its own while step() goes on ticking positions, *)
(* and hands it the portfolio itself, not a copy: the synthesizers of      *)
(* core/synthesis.py read its dictionary of positions item by item.        *)
(*                                                                         *)
(* Of the portfolio are kept the assets with a position and the number of  *)
(* fills the balance includes.  Reading a dictionary that has changed size *)
(* since the iteration began raises, as does looking up a key that is      *)
(* gone: every exception of decide() ends in the future.                   *)
(***************************************************************************)
EXTENDS Integers, FiniteSets

CONSTANTS
    Assets,     \* the universe
    Kinds,      \* the synthesizers considered, a subset of {"rule", "gemini"}
    MaxFills    \* bound: no entry is filled that could lead beyond it

ASSUME AgentAssumption ==
    /\ IsFiniteSet(Assets)
    /\ Kinds \subseteq {"rule", "gemini"}
    /\ MaxFills \in Nat

VARIABLES
    kind,       \* the synthesizer
    main,       \* the step of the main thread: tick, poll, launch; or exit
    due,        \* _AgentScheduler.should_call(): the period is over
    open,       \* portfolio.positions, the keys
    fills,      \* portfolio.balance_usd, by the number of fills it includes
    pc,         \* _future and the thread that works on it
    cands,      \* AgentState.candidates of the call
    work,       \* the iteration under way: its number, the size of the
                \* dictionary when it began, the items still to look up (rule)
                \* or already read (gemini)
    view        \* what decide() has read: the balance and the positions

book == <<open, fills>>
job == <<pc, cands, work, view>>
vars == <<kind, main, due, book, job>>

Settled == {"none", "answer", "error"}
InFlight == pc \notin Settled

Passes == 4     \* unrealized, equity, exposure and the list of positions

TypeOK ==
    /\ kind \in Kinds
    /\ main \in {"tick", "poll", "launch", "exit"}
    /\ due \in BOOLEAN
    /\ open \in SUBSET Assets
    /\ fills \in Nat
    /\ pc \in Settled \cup {"queued", "lookup", "pass", "iterate", "wire"}
    /\ cands \in SUBSET Assets
    /\ work \in [pass : 0..Passes, size : Nat, items : SUBSET Assets]
    /\ view \in [balance : Nat, listed : SUBSET Assets]

NoWork == [pass |-> 0, size |-> 0, items |-> {}]
NoView == [balance |-> 0, listed |-> {}]

Init ==
    /\ kind \in Kinds
    /\ main = "tick"
    /\ due = TRUE
    /\ open = {}
    /\ fills = 0
    /\ pc = "none"
    /\ cands = {}
    /\ work = NoWork
    /\ view = NoView

Forget == cands' = {} /\ work' = NoWork /\ view' = NoView
-----------------------------------------------------------------------------
(* The main thread: step() over and over, until it is interrupted.         *)

\* The positions change from open to s: each one opened or closed is a fill.
Fill(s) ==
    /\ open' = s
    /\ fills' = fills + Cardinality(open \ s) + Cardinality(s \ open)
    /\ fills' + Cardinality(s) <= MaxFills

\* executor.tick(): a stop or take closes the position of a.
StopOut(a) ==
    /\ main = "tick" /\ a \in open
    /\ Fill(open \ {a})
    /\ UNCHANGED <<kind, main, due, job>>

EndTick ==
    /\ main = "tick"
    /\ main' = "poll"
    /\ UNCHANGED <<kind, due, book, job>>

\* Entries the rule proposes; an answer of the model is not bound to anything.
Entries == IF kind = "rule" THEN cands \ view.listed ELSE Assets

Drained ==
    /\ pc' = "none"
    /\ Forget
    /\ main' = "launch"
    /\ UNCHANGED <<kind, due>>

\* Mutant: the future stays, and its answer is applied at every step.
PollAnswerKept ==
    /\ main = "poll" /\ pc = "answer"
    /\ \E s \in SUBSET (open \cup Entries) : Fill(s)
    /\ main' = "launch"
    /\ UNCHANGED <<kind, due, job>>

\* poll() gives the answer, and step() applies it: entries may be vetoed, and
\* only the model asks for a position to be cut.
PollAnswer ==
    /\ main = "poll" /\ pc = "answer"
    /\ \E s \in SUBSET (open \cup Entries) :
        /\ kind = "rule" => open \subseteq s
        /\ Fill(s)
    /\ Drained

\* Mutant: poll() lets the exception pass, and the loop ends with it.
PollErrorRaises ==
    /\ main = "poll" /\ pc = "error"
    /\ main' = "crashed"
    /\ UNCHANGED <<kind, due, book, job>>

\* An exception of decide() comes back as an answer without decisions.
PollError ==
    /\ main = "poll" /\ pc = "error"
    /\ Drained
    /\ UNCHANGED book

\* Mutant: a step without an answer applies the last one again.
PollPendingApplies ==
    /\ main = "poll" /\ pc \notin {"answer", "error"}
    /\ main' = "launch"
    /\ \E s \in SUBSET Assets : Fill(s)
    /\ UNCHANGED <<kind, due, job>>

\* Mutant: poll() asks for the result before the future is done.
PollPendingBlocks ==
    /\ main = "poll" /\ pc = "none"
    /\ main' = "launch"
    /\ UNCHANGED <<kind, due, book, job>>

PollPending ==
    /\ main = "poll" /\ pc \notin {"answer", "error"}
    /\ main' = "launch"
    /\ UNCHANGED <<kind, due, book, job>>

\* A call that is due is launched if none is in flight and there is a
\* candidate or a position.  An answer that became ready after poll() is lost.
Launch(c) ==
    /\ main = "launch"
    /\ ~InFlight /\ due /\ (c # {} \/ open # {})
    /\ pc' = "queued" /\ cands' = c /\ work' = NoWork /\ view' = NoView
    /\ due' = FALSE
    /\ main' = "tick"
    /\ UNCHANGED <<kind, book>>

\* No call: one is in flight, it is too early, or there is no signal.
EndStep ==
    /\ main = "launch"
    /\ InFlight \/ ~due \/ open = {}
    /\ main' = "tick"
    /\ UNCHANGED <<kind, due, book, job>>

\* The period of the scheduler is over.
FallDue ==
    /\ ~due /\ main # "exit"
    /\ due' = TRUE
    /\ UNCHANGED <<kind, main, book, job>>

\* Ctrl-C: close() cancels a call that no thread has taken and waits for none.
Interrupt ==
    /\ main # "exit"
    /\ main' = "exit"
    /\ IF pc = "queued" THEN pc' = "none" /\ Forget ELSE UNCHANGED job
    /\ UNCHANGED <<kind, due, book>>
-----------------------------------------------------------------------------
(* The thread of the agent.                                                *)

ByAgent == UNCHANGED <<kind, main, due, book, cands>>

Raise == pc' = "error" /\ work' = NoWork /\ view' = NoView

\* RuleSynthesizer: the set of held assets is taken at once, ...
BeginRule ==
    /\ pc = "queued" /\ kind = "rule"
    /\ pc' = "lookup"
    /\ work' = [NoWork EXCEPT !.items = open]
    /\ view' = [NoView EXCEPT !.listed = open]
    /\ ByAgent

\* Mutant: the exception of a lookup ends the thread, not the future.
LookUpDies(a) ==
    /\ pc = "lookup" /\ a \in work.items /\ a \in open
    /\ work' = [work EXCEPT !.items = @ \ {a}] /\ UNCHANGED <<pc, view>>
    /\ ByAgent

\* ... and each of them is looked up later: KeyError if it was closed since.
LookUp(a) ==
    /\ pc = "lookup" /\ a \in work.items
    /\ \/ /\ a \in open
          /\ work' = [work EXCEPT !.items = @ \ {a}]
          /\ UNCHANGED <<pc, view>>
       \/ /\ a \notin open
          /\ Raise
    /\ ByAgent

EndRule ==
    /\ pc = "lookup" /\ work.items = {}
    /\ pc' = "answer"
    /\ UNCHANGED <<work, view>>
    /\ ByAgent

\* GeminiSynthesizer: read_portfolio() reads the balance first.
BeginPrompt ==
    /\ pc = "queued" /\ kind = "gemini"
    /\ pc' = "pass"
    /\ view' = [NoView EXCEPT !.balance = fills]
    /\ UNCHANGED work
    /\ ByAgent

\* Mutant: the list is not a new one in each iteration.
BeginPassKeepsItems ==
    /\ pc = "pass" /\ work.pass < Passes
    /\ pc' = "iterate"
    /\ work' = [work EXCEPT !.pass = @ + 1, !.size = Cardinality(open)]
    /\ UNCHANGED view
    /\ ByAgent

\* The next iteration over the positions begins.
BeginPass ==
    /\ pc = "pass" /\ work.pass < Passes
    /\ pc' = "iterate"
    /\ work' = [pass |-> work.pass + 1, size |-> Cardinality(open),
                items |-> {}]
    /\ UNCHANGED view
    /\ ByAgent

SameSize == Cardinality(open) = work.size

ReadItem(a) ==
    /\ pc = "iterate" /\ SameSize
    /\ a \in open \ work.items
    /\ work' = [work EXCEPT !.items = @ \cup {a}]
    /\ UNCHANGED <<pc, view>>
    /\ ByAgent

IterationRaises ==
    /\ pc = "iterate" /\ ~SameSize
    /\ Raise
    /\ ByAgent

\* The iteration ends; what the last one read is the list of positions.
EndPass ==
    /\ pc = "iterate" /\ SameSize
    /\ open \ work.items = {}
    /\ IF work.pass < Passes
         THEN pc' = "pass" /\ UNCHANGED view
         ELSE pc' = "wire" /\ view' = [view EXCEPT !.listed = work.items]
    /\ UNCHANGED work
    /\ ByAgent

\* generate_content() returned and its text was parsed; or one of them raised.
\* There is no deadline: it may never return.
Respond ==
    /\ pc = "wire"
    /\ \/ pc' = "answer" /\ UNCHANGED <<work, view>>
       \/ Raise
    /\ ByAgent
-----------------------------------------------------------------------------
AgentStep ==
    \/ BeginRule \/ EndRule
    \/ BeginPrompt \/ BeginPass \/ EndPass \/ IterationRaises
    \/ \E a \in Assets : LookUp(a) \/ ReadItem(a)

MainStep ==
    \/ EndTick \/ PollAnswer \/ PollError \/ PollPending \/ EndStep
    \/ \E c \in SUBSET Assets : Launch(c)

Next ==
    \/ AgentStep \/ Respond
    \/ MainStep \/ FallDue \/ Interrupt
    \/ \E a \in Assets : StopOut(a)

\* Both threads run and time passes; the model need not answer.
Fairness == WF_vars(MainStep) /\ WF_vars(AgentStep) /\ WF_vars(FallDue)

Spec == Init /\ [][Next]_vars /\ Fairness
-----------------------------------------------------------------------------
(* Properties.                                                             *)

\* What the rule proposes to enter is not held when the proposal is applied,
\* though positions were ticked all the while (core/synthesis.py decide,
\* cli/run.py step).
EntersFresh == kind = "rule" /\ pc = "answer" => Entries \cap open = {}

\* While a call is in flight positions are closed, never opened: a launch
\* follows the poll of the same step (cli/run.py step).
OnlyShrinks == [][InFlight => open' \subseteq open]_vars

\* "The main loop polls every tick and is never blocked by the LLM call"
\* (cli/run.py:258): steps go on, even if the model never answers.
LoopRuns == []<>(main \in {"launch", "exit"})

\* A call that was launched ends, with decisions or an exception, unless it is
\* the model that keeps it waiting (_AsyncAgent, core/synthesis.py).
CallsEnd == InFlight ~> (~InFlight \/ pc = "wire")

\* The positions an answer was formed on were open together at one instant of
\* the call: the iteration that lists them raises rather than mix two moments.
call ==
    CASE pc = "none" -> "none"
      [] pc \in {"queued", "pass", "iterate"} -> "asked"
      [] pc \in {"lookup", "wire"} -> "read"
      [] pc = "answer" -> "told"
      [] OTHER -> "failed"
listed == view.listed
Abstract == INSTANCE AtomicAgent
OneInstant == Abstract!Spec

\* "in a single-threaded loop the agent reads it during decide(), then the
\* engine continues mutating it" (core/contracts.py:336-337): the balance and
\* the list of positions in a prompt belong to one moment.  While a call runs
\* every fill is a close, so the fills in the balance and the positions on the
\* list always add up to the same number.
CoherentView ==
    pc = "wire" =>
        view.balance + Cardinality(view.listed) = fills + Cardinality(open)
=============================================================================
