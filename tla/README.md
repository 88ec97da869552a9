# A TLA+ model of agora-perp-agent

`agora-perp-agent` is a paper trader for perpetual futures.  A loop on the main
thread fetches the market every second, marks and stops the open positions,
applies what an agent (a mechanical rule or an LLM) decided on a background
thread, and launches the next call of the agent.  Every trade is recorded in an
audit store, anchored on chain by a worker thread, and shown on a dashboard.

This directory holds TLA+ modules translated from that code, the TLC
configurations that check them on small instances, and TLAPS proofs of the
theorems that hold for every instance.  `PROJECT.json` maps each definition to
the lines it models and lists runs, mutants, findings, hazards and theorems.

## 1. The system

| Part | State | Operations | Talks to |
|---|---|---|---|
| Trading loop, `cli/run.py` | `_LAST_SIZED`, `recent_fills`, the local `snapshots` of a tick | `step`, `_apply`, `_enter_sized`, shutdown in `main` | all the others |
| Paper executor, `core/execute.py`, and portfolio, `core/contracts.py` | `PortfolioState`: balance, positions with mark, funding, stop, take | `open_sized`, `close`, `tick`, `check_stops` | called by the loop |
| Risk gate, `core/risk.py` | none | `evaluate`: five rules, first failure wins | reads the portfolio |
| Scheduler and async agent, `cli/run.py` | last start, one future on a one-thread pool | `should_call`, `start`, `poll`, `in_flight` | agent thread |
| Synthesizers, `core/synthesis.py`, `core/agent_tools.py` | a counter | `decide` | *live* portfolio, on the agent thread |
| Snapshot accumulator, `agent/snapshot.py` | audit links, feed, history, equity curve | `record_open`, `record_close`, `record_decision`, `update_anchor`, `hydrate`, `write` | main thread and anchor worker |
| Audit store, `agent/audit.py` | append-only SQLite rows | `append`, `latest`, `list_pending` | main thread and anchor worker |
| Anchor worker, `agent/anchor_worker.py` | bounded queue, stop flag | `submit`, `close`, worker loop | Circle client, store, callback |
| Circle client, `agent/on_chain.py` | HTTP client, public key | post, then poll to a terminal state or a timeout | Circle API |
| Auto-push, `agent/auto_push.py` | git working tree | add, commit, push every period | snapshot file |
| REST source, `core/data.py` | metadata cache with a lock | `fetch_board`, `_meta` | Hyperliquid |
| WebSocket source, `core/ws.py` | one cache per coin, filled by independent loops | `fetch`, readiness, loops | exchange |
| Scoring: `cost`, `forecast`, `allocate` | none | pure functions | board |
| Sizing: `regime`, `tiers`, `stops`, `leverage`, `sizing` | none | pure functions | `_enter_sized` |
| Tick planning, `_enter_sized` in `cli/run.py` | none | veto, classify, override, size, gate | sizing, gate |
| `indicators`, rendering, dashboard, setup scripts | - | - | not modelled, see section 8 |

What is hard here is not any one function but what lies between them:

* the agent thinks on a **live reference** to the portfolio for seconds, while
  stops close positions under it, and its answer is applied many ticks later;
* a position is known in **three places** (portfolio, `_LAST_SIZED`,
  `audit_links`), and four call sites maintain all three by hand;
* a decision can be **half done** (a flip whose entry is refused);
* candle **timestamps repeat** for minutes and may go back;
* limits are judged on books that change **inside a batch** of decisions;
* eight fetching threads and a background poll share one **cache checked without
  its lock**;
* the published dashboard depends on a write, a commit and a push, **each of which
  may fail** without the others;
* the anchor worker, its bounded queue, its timeouts and its shutdown run
  against a dashboard that the main thread rewrites.

What makes each part correct: the executor neither creates money nor charges
funding twice; the gate's limits hold in every reachable portfolio; the loop
keeps its three views equal, never holds a checked position beyond its levels,
applies each answer once and only to trades the agent knew of; the audit trail
holds a row before its effect and one anchor per trade; the dashboard never shows
one trade's anchor on another's row; the caches serve nothing that has been with
them for longer than they promise.

## 2. Modules

* `SimExecutor` - prices, positions and cash of `core/execute.py` and
  `core/contracts.py` as operators.  Everything is an integer: one unit of price
  times quantity is `Bps` units of cash, so fees in basis points are exact.
  Slippage is a number of ticks the caller chooses (the code derives it from the
  notional and the book's depth): never negative, always adverse.
* `TradingLoop` - the state machine of `cli/run.py`.  `pc` walks one `step()`:
  `fetch`, `stops` (one position per action), `drain`, `apply` (one decision per
  action), `launch`, and round again; the agent thread (`AgentRead`,
  `AgentAnswer`) may move between any two.  State:

  | variable | in the code |
  |---|---|
  | `snapshots`, `unchecked` | locals of `step()`: the fetched board, the rest of the list of positions to check |
  | `books` | `portfolio.balance_usd`, `portfolio.positions`, `_LAST_SIZED`, `snap_state.audit_links`, `.trade_history`, `.recent_decisions` |
  | `call` | `_AsyncAgent._future`: none, running before and after the agent read the portfolio, done |
  | `due` | `_AgentScheduler.should_call(now)` |
  | `batch` | decisions of the drained answer still to apply |
  | `nextId` | the audit id of the next trade; the code draws a UUID |
  | `verdict`, `seen` | history: the fate of the last decision, the trades the answer knows of |

  `ApplyUnseen`, `ApplyEnter`, `ApplyCut`, `ApplyFlip` and `ApplyHold` are the
  branches of `_apply`; `CloseTrade` is the sequence all close sites share
  (`executor.close`, pop of `_LAST_SIZED`, `record_close`) and `OpenTrade` that of
  `_enter_sized`.  A flip is one action because no other thread writes `books`.
* `MCTradingLoop` - the instances: plans, rates, symmetry.
* `TradeBook` - what the loop promises of its trades: at most one to an asset, at
  most so many; numbered when entered, with terms that stand until the trade is
  closed and that the closed trade is shown with, the latest `HistoryMax` of them.
  `open` is `books.positions` with the levels of `_LAST_SIZED` and the id of
  `audit_links`, three dictionaries that four call sites keep in step by hand;
  `closed` is `trade_history` (`Book` in `TradingLoop`).  A flip is one `Switch`.
* `TradingLoopProofs` - the theorems; `TradeRowsProofs` - those about the rows of
  the history and the book; `EquityProofs` - those about exposure and equity, which
  are sums over the portfolio.
* `AnchorPipeline` - what happens to the record of a trade, over several runs of
  the program on one database: `cli/run.py` persists it, links it, posts it on the
  feed and submits it; `agent/anchor_worker.py` anchors it through
  `agent/on_chain.py`, stores the hash and patches `agent/snapshot.py`.  State:

  | variable | in the code |
  |---|---|
  | `main` | the main thread: its place in `step()`, in `main()`'s `finally` or in the hydration, the audit record in its hands, the row it replays |
  | `worker` | the `anchor-worker` thread: its place in `_run`, `_anchor_one`, the callback and `update_anchor`, with `record`, the hash, "`err` is not `None`", `link`, the position of its iteration of the deque and whether the deque was changed under it |
  | `queue`, `stop` | `AnchorWorker._queue` (with its sentinel), `._stop` |
  | `open` | `portfolio.positions`, by the record of the trade |
  | `links`, `link` | `audit_links`, and the dictionaries it holds, which the worker may still write after the main thread popped them |
  | `feed`, `history` | `recent_decisions`, `trade_history`: bounded deques, newest first |
  | `store` | the SQLite rows in `rowid` order; the only part a crash leaves |
  | `assetOf`, `accepted`, `silent` | history: the records made, the requests Circle took, the records the pipeline gave up on without a word |

  The main thread's steps are `Fill`, `AppendRow` (or `AppendRowRaises`),
  `RecordOpen`, `RecordDecision`, `Submit`; `CloseTrade`, `RecordHistory`,
  `RecordCloseEntry`; `Interrupt`, `CloseWorker`, `Join`, `CloseHandles`; `End` is
  the end of the process, at any moment; `Start`, `HydrateRow`, `EnterLoop` the next
  one.  The worker's are `TestStop`, `GetNothing`, `GetPill`, `GetRecord`;
  `PostAccepted`, `PostAnswerLost`, `PostRefused`; `PollReturns`, `PollRaises`;
  `AppendAnchored`, `AppendAnchoredRaises`; `Callback`, `PatchLink`, `ScanEntry`,
  `ScanRaises`, `ScanEnds`.
* `AnchorLedger` - what outlives the process: the records made, the rows of the
  store, the requests Circle took.  A record is persisted before it is sent, sent at
  most once, stored with its transaction only after it was taken; nothing is undone,
  and an interrupt, a crash or a restart is a stutter (`Ledger` in `AnchorPipeline`).
* `MCAnchorPipeline`, `AnchorPipelineProofs` - its instance and its theorems.

What is one step of `AnchorPipeline` is what the other thread cannot divide.  A
single operation on a dictionary or a deque is atomic under the interpreter's
lock, and so are the test of a key and the subscript that follows it, between
which no other thread is scheduled; writing the columns of one link or entry is
taken as one step, since nothing reads some of them and decides on others.
Between the entries of an iteration the other thread may run: an append then
makes the iteration raise at its next entry, if it has already fetched one.  A
transaction is named by the record it anchors, so that `OwnAnchor` compares
numbers.  Circle is external: it takes a request or does not, its answer arrives
or is lost, the poll ends with a hash, without one, or raises.  A second Ctrl-C
during the shutdown is an `End`.  `record_decision`'s removal of an entry with the
same key is left out, because the keys of this module's entries are fresh
(the collision is in `TradingLoop`: `ClosesSurface`).

In `TradingLoop` these are left open, so that the results hold for whatever the
code does there: which coins a fetch returns and with what mark, timestamp and
rate; whether an asset is on the board; what an agent answers (any asset, action
and side); whether an entry is refused for a reason that does not concern the
portfolio (warm-up, regime or sizing error, edge); which plan the sizer returns,
quantity zero included. The stop and the take are at least one price unit from
the mark, as `TierRegimeSizer` computes them from positive distances.

Three simplifications of `TradingLoop`: the agent reads the portfolio in one step
(`AgentCall` shows when that is justified, and when not); the feed has no
capacity (the code keeps 30 entries; the bounded runs post at most four, and no
theorem says more of the feed than its type); and the exit in which
`audit_store.append` raises between the fill and `record_open` (`run.py:744`) is in
`AnchorPipeline` only (`AppendRowRaises`): it ends the loop, and the books with it.
The trade history has the code's capacity, `_TRADE_HISTORY_MAX`, as the constant
`HistoryMax`.

* `FreshMeta` - what `HyperliquidSource._meta()` promises: each call acts at one
  instant between its start and its return, gives a payload that was fresh when
  the call began or a newer one, or raises.
* `MetaCache` - how `core/data.py` does it: the clock is read, the cache is tested
  without the lock (`FastPath`), the lock is taken (`Acquire`), the cache is tested
  again (`Recheck`), and the request is made with the lock held (`Serve`,
  `Arrive`, `Fail`).  A payload is known by the moment the exchange produced it
  (`seen`) and the moment it was stored (`at`), which are not the same, and by the
  moment its request was made (`sent`, a history field): the cache judges the age of
  a payload by `at`, so that one that was long on its way is older than it looks.
* `MarketFeed` - extends `MetaCache` with its callers:

  | variable | in the code |
  |---|---|
  | `source` | `--source`: REST, or the WebSocket source |
  | `round`, `stage` | `fetch_board()` on the main thread, and per coin the place in `fetch()` of the pool's thread |
  | `ws`, `stop`, `full` | the `hl-ws` thread, `_stop`, the coins whose cache has bars and a two-sided book |
  | `poll` | `_poll_meta_loop`: asleep, due, or inside `_meta()` |

  `BeginFetch`, `CandlesDone`, `MetaDone`, `BookDone` are the requests of a fetch
  with their failures; `StartRound`, `EndRound`, `Close` the main thread;
  `Bootstrap`, `Stream`, `PollMeta`, `PollSleep`, `EndLoop` the event loop.
* `AtomicAgent` - what the loop may assume of a call: its answer was formed on
  positions as they were together at one instant, and while a call is under way
  positions are only closed.
* `AgentCall` - `_AgentScheduler` and `_AsyncAgent` of `cli/run.py` and the
  synthesizers that run inside, with **one step per access to the live portfolio**:

  | variable | in the code |
  |---|---|
  | `main`, `due` | the step of `step()`; `should_call(now)` |
  | `open`, `fills` | the keys of `portfolio.positions`; `portfolio.balance_usd`, by the number of fills it includes |
  | `pc` | the future and the thread that works on it |
  | `cands`, `work`, `view` | the call's candidates, its iteration under way, what `decide()` has read so far |

  `BeginRule`, `LookUp`, `EndRule` are `RuleSynthesizer.decide` (a set of keys, then
  a lookup of each); `BeginPrompt`, `BeginPass`, `ReadItem`, `IterationRaises`,
  `EndPass`, `Respond` are `GeminiSynthesizer`, whose `read_portfolio` iterates the
  dictionary four times.  An exception ends in the future (`PollError`).
* `SnapshotPush` - `agent/snapshot.py write`, the write and shutdown of `main()`,
  and `agent/auto_push.py`:

  | variable | in the code |
  |---|---|
  | `main`, `failed` | the main thread; the last write raised |
  | `at` | how far the news of a trade and of an anchor have come: memory, payload, file, commit, push |
  | `file`, `head`, `origin` | contents of the snapshot file, of `HEAD` and of the remote: none, whole, partial |
  | `tmp` | the `.tmp` file beside it, partial from its opening until the text is written |
  | `tree` | the checkout's state for the snapshot's path |
  | `pusher`, `stop` | the thread and `AutoPusher._stop` |

  Each write, commit and push may fail; a git command may never return; the process
  may be interrupted or killed at any step, and started again.
* `TradePlan` - `_enter_sized()` from its first veto to the gate, with the tables
  and arithmetic it calls: the funding bins, the BTC override and the playbook
  (`core/regime.py`), stops and takes (`core/stops.py`), size (`core/sizing.py`) and
  `choose_leverage` (`core/leverage.py`), whose operational cap is the tier's or, when
  it was given, `--max-leverage` (`ceiling`).  Fixed point: prices in hundredths of the
  mark, multipliers in tenths, leverage in thousandths.  Trend and volatility tags
  are inputs, since the indicators behind them are floating-point series.
* `MCMarketFeed`, `MCTradePlan` - instances; `MarketFeedProofs`, `AgentCallProofs`,
  `SnapshotPushProofs`, `TradePlanProofs` - theorems.

How they meet: `TradingLoop`'s `Fetch` is a round of `MarketFeed`; its `AgentRead`
and `AgentAnswer` are `AtomicAgent`, which `AgentCall` implements; the plan it opens
with is one of `TradePlan`; the records of its trades go to `AnchorPipeline`, and
what the dashboard shows goes out through `SnapshotPush`.  The first and the second
are checked as refinements (`Atomic`, `OneInstant`); the others are shared by
reading the same lines of code.  Two more refinements say what a component keeps:
`KeepsBook` (`TradingLoop` implements `TradeBook`) and `KeepsLedger`
(`AnchorPipeline` implements `AnchorLedger`).

## 3. Properties

| Property | Says | Proved |
|---|---|---|
| `TypeOK` | shapes of the state; with it, no key is missing where the loop indexes, no zero quantity is ever opened (`TradingLoop`) or planned (`TradePlan`) | yes |
| `BooksAgree` | portfolio, sizing cache and dashboard links describe the same open trades | yes |
| `TradesAccountedFor` | each trade opened is one open position or was closed once; the history has one row of its own, under its own audit id, for each closed trade up to the history's capacity | yes |
| `InsideLevels` | after its check, no position is held at or beyond its stop or take in this tick's market | yes |
| `AnswerKnowsBook` | an answer only meets trades the agent read or the answer opened | yes |
| `KeepsBook` | the loop implements `TradeBook`: terms stand, a closed trade comes first in the history as it was, only the oldest row goes; with it `PositionLimit`: at most `max_positions` open | yes |
| `ExposureWithinCap` | an open leaves the exposure within the cap | yes |
| `TradeRowsAddUp` | result = price leg + shown funding - fee, in each history row | yes |
| `FundingChargedOnce` | accrued funding is within what the minutes held allow, for any order of timestamps | yes |
| `TradingCosts` | applying a decision never raises the equity | yes |
| `OwnAnchor` | link, feed, history and store never show a trade with another's transaction | yes |
| `AnchoredOnce` | Circle takes at most one request per record, over crashes and restarts | yes |
| `KeepsLedger` | the pipeline implements `AnchorLedger`; with it `RowBeforeAnchor`: what is on chain has a row in the store | yes |
| `CompleteMeansAnchored` | "complete" just when a transaction is shown, and Circle took it | yes |
| `PendingExplained` | a pending trade is in somebody's hands, or was given up on at one of three places | yes |
| `KeepsServing` | the worker takes every queued record unless the program ends | TLC |
| `ShutdownEnds` | the shutdown closes the store, whatever the worker and the queue are doing | TLC |
| `OneRequest` | whoever is between the metadata lock and its release holds it alone | yes |
| `Atomic` | the double-checked cache implements `FreshMeta` | yes |
| `BoardFresh` | the price of a coin on a board was made in the round, or before it by less than one time to live plus the time its request took | yes |
| `RoundsEnd`, `CloseEnds` | every round of fetches ends, whatever fails; so does the WebSocket thread | TLC |
| `EntersFresh` | what the rule proposes to enter is not held when it is applied | yes |
| `OnlyShrinks` | no position is opened while a call is in flight | yes |
| `OneInstant` | the positions an answer was formed on were open together at one instant | yes |
| `LoopRuns`, `CallsEnd` | the loop is never blocked by a call; a call ends unless the model keeps it waiting | TLC |
| `NeverPartial` | neither the file nor a commit nor the remote is ever half a snapshot, although the text beside it may be | yes |
| `TradeFlushed` | a trade is in the file when `main()` returns, unless the disk refused | yes |
| `Published` | news is pushed in the end, through failures of single writes, commits and pushes | TLC |
| `ShutdownEnds` (`SnapshotPush`) | a git command that hangs does not keep the process from ending | TLC |
| `CrisisStandsDown` | nothing is entered in a crisis of the asset or of BTC | yes |
| `StopBeforeLiquidation` | four stops and the maintenance margin fit into the margin of a geared position | yes |
| `DragBounded` | funding takes at most a fifth of the margin, and leverage is cut no further than that asks for | yes |

`AnswerKnowsBook` deserves a word: the code has no generation number on answers,
and `AgentState.portfolio` is a live reference.  It holds because only a decision
opens a trade, only one answer is applied at a time, and a new call starts only
when the last has been drained or dropped.

So do `AnchoredOnce` and `OwnAnchor`.  Each request to Circle draws a fresh
idempotency key, so that only the pipeline keeps a record from being anchored
twice: nothing retries and nothing resubmits at a restart, at the price of the
records that are never anchored, which `PendingExplained` counts.  And the worker
looks for the link to write under the *asset*, where by then a later trade may
stand; the comparison of audit ids is all that keeps its hash off that trade.

`OneInstant` holds by a chain that no one place in the code shows: a dictionary that
shrank since an iteration began raises, a dictionary of unchanged size may still
have changed its keys, but while a call is in flight nothing is opened
(`OnlyShrinks`), because a launch follows the poll of the same `step()`.  So equal
size means equal keys.  An entry made between a launch and its answer would break
it.  It covers the list of positions only: the balance and the sums that precede the
list in a prompt may be of another moment (`CoherentView`, section 5).

`Published` rests on the snapshot changing for ever.  A push that failed leaves its
commit behind, and a round that finds nothing to commit does not push: the commit
goes out with the next one, not with the next round.

## 4. Runs

The `loop_` runs use `MCTradingLoop`, the `anchor_` runs `MCAnchorPipeline`, the
`feed` runs `MCMarketFeed`, the `plan` runs `MCTradePlan`.
Every `loop_` run bounds the number of opened trades
(`MaxOpens`) and of decisions per answer (`MaxDecisions`); nothing else is cut:
the loop itself, the agent's calls and the ticks go on for ever.

| Run | Instance | Shows |
|---|---|---|
| `loop_books` | 2 symmetric assets, marks 4 and 6, quantities 0 and 1, limit 2, exposure cap 10, a history of 2 rows, 2 decisions, 2 opens | the invariants above and `ExposureWithinCap`; two units at mark 6 exceed the cap, so the gate's projection decides |
| `loop_limits` | 2 assets, marks 4 and 6, limit 1, a history of 1 row, 2 opens | `KeepsBook`: a flip at the limit, two entries in a batch, a re-entry under new terms; `TradesAccountedFor` while a close pushes out the row of the last |
| `loop_cash` | 1 asset, fee 1/10, slippage 1, rates -1 and 1, 2 timestamps in any order, 2 opens | cash, fees, slippage and funding together; funding charged once with time standing still and going back |
| `loop_answer_lost` | 1 asset | violated, see section 5 |
| `anchor_pipeline` | 1 asset, queue of 1, feed of 2, history of 1, 2 opens over all runs of the program | the anchor properties, `KeepsLedger` among them |
| `anchor_both_places` | the same | violated, see section 5 |
| `market_feed` | 2 coins, the poll, a time to live of 2, clock up to 2, 2 pool threads, both sources | the feed properties |
| `feed_cache_read` | 1 coin, WebSocket, a time to live of 5 pauses, a poll that is never late | violated |
| `agent_call` | 3 assets, both synthesizers, 6 fills | the agent properties |
| `snapshot_push` | 2 starts of the process | the snapshot properties |
| `trade_plan` | BTC (tier 1), SOL (tier 2), SUI (tier 4); 7 rates, ATR of 1, 4 and 15 %, equity of either sign, no `--max-leverage` and two values of it, every regime of asset and BTC | the plan properties |
| `plan_one_bucket` | the same | violated |

Why this is enough: each property relates at most two positions, two decisions of
a batch, or two successive trades on one asset; one asset and two trades are the
smallest instance with a re-entry, two assets the smallest where one decision
changes the limits of the next.  Two marks suffice to hit and not to hit a stop
one tick away and a take two away, on either side.  For the invariants that are
proved the bounds do not matter.  The `loop_` and `anchor_` runs check deadlock: the
loop can always take a step.  The others stop by design (the clock's bound, an
exit, the last start, a decision carried out) and say `CHECK_DEADLOCK FALSE`.

In `anchor_pipeline` a queue of one is full as soon as one record waits, so that
the drop, the sentinel that finds no room and the stop flag all happen; two trades
on one asset give the re-entry while the first is being anchored, and the close
of one while the other waits; a feed of two evicts entries under the worker's
iteration and can be torn after its first entry.  Interrupts, crashes and
restarts are not bounded.

In `market_feed` three threads meet at one cache: one inside, one waiting, one on
the fast path; with a clock of 0 to 2 and a time to live of 2 a payload is fresh,
expires while a thread waits for the lock, and is refreshed by another.
`MaxTime` stops the clock, not the threads.  Three assets in `agent_call` let one
close while another is listed and a third proposed, and an iteration lose one of
two items it has read; six fills (`MaxFills` cuts entries, never closes) allow two
calls with an entry and a stop around each.  In `snapshot_push` two starts suffice
for a kill between any two steps of both threads, followed by a run that finds
what it left.  `trade_plan` takes rates on both sides of every bin and one that
asks for no cut, for some and for more than there is leverage.

The `loop_` runs state no liveness and assume no fairness.  `anchor_pipeline` runs
`FairSpec`: weak fairness of the steps a thread takes by itself (`MainSteps`,
`WorkerSteps`), never of trades, interrupts, crashes or starts.  The operating
system schedules both threads and every call they block in ends: the queue's `get`
after 0.5 s, an HTTP request after 30 s, the poll after 60 s, the join after
30 s.  `ShutdownEnds` stops at the closed store: after it the interpreter may
still wait for the agent's thread, which has no deadline.

`FeedFairness` (`market_feed`): the pool's threads, the event loop and the end of a
round are weakly fair, since requests have timeouts (10 s, at most three attempts)
and threads are scheduled.  A thread that waits for the metadata lock gets strong
fairness: the lock is free again and again, and a waiter is not passed over for
ever.  Nothing is assumed of the poll, of arriving books and candles, or of the
exchange: a request may always fail.

`Fairness` of `AgentCall`: the main thread, the agent's own computation and the
passing of the scheduler's period.  `Respond` has none, for `generate_content` has
no deadline, and neither stops nor interrupts have any.  That is why `CallsEnd`
excepts a call waiting for the model, and why `LoopRuns` is worth its run.

`Fairness` of `SnapshotPush`: the main thread's loop and shutdown, nothing of the
pusher, so that `ShutdownEnds` covers a git command that never returns.  `Published`
has what it needs of the surroundings as its antecedent (`GitWorks`: the pusher
runs, writes and git commands succeed now and then), since a remote that is always
down publishes nothing.

## 5. Where the repository says otherwise

Four runs have as their single property what the repository says, and TLC's
shortest counterexample is the scenario.

* `AnswerNeverLost` (`loop_answer_lost`) - `step()` promises to drain completed
  decisions, but a future that completes after `poll()` returned `None` is "not in
  flight" a few lines below, and `start()` overwrites it.  The answer is never
  applied.  It needs the call to have lasted the period of `--agent-every` or more.
* `BothPlaces` (`anchor_both_places`) - `update_anchor` updates link and feed entry;
  an append of the main thread during its iteration raises, `_anchor_one` swallows
  that, and the entry stays "pending" while the link says "complete".
* `FetchIsCacheRead` (`feed_cache_read`) - the WebSocket source says its `fetch()` does
  no network I/O because a poll keeps the metadata warm.  The poll calls the same
  `_meta()`, which returns the cached payload until its 10 s are over, so the poll
  refreshes nothing before the expiry; the first call after it makes the request,
  and that may be a fetch of a tick.  The poll in the model is never late.
* `OneBucket` (`plan_one_bucket`) - the override is to bump an asset's funding "one
  bucket toward BTC's sign"; the code copies BTC's `EXTREME` tag, up to three buckets
  away (`test_regime.py` agrees with the code).  With
  UP/NORMAL/NEUTRAL beside a BTC in `EXTREME_NEG` that is the largest multiplier of
  the playbook and a 3R take, where the next bucket, `BEAR_BIAS`, would stand down.

More counterexamples are kept as configurations, to be run by hand with
`tlc -config <cfg> <module>`:

| Configuration, module | Property | What happens |
|---|---|---|
| `LoopFlipVeto`, `MCTradingLoop` | `VetoMeansNoFill` | `Decision` says a vetoed flip produces no fill (`contracts.py:394-396`); `_apply` closes the old position before it asks |
| `LoopTrigger`, `MCTradingLoop` | `TriggerNamesLevel` | which level fired is inferred from the exit price *after* slippage (`run.py:958-964`), so a take near its level is recorded as a stop |
| `LoopCloseFeed`, `MCTradingLoop` | `ClosesSurface` | the feed key of a close is the asset and the candle time; a second close in the candle erases the first (`snapshot.py:160-161, 212`) |
| `AnchorDrainsOnClose`, `MCAnchorPipeline` | `DrainsOnClose` | `close()` "drains, joins, shuts down" (`anchor_worker.py:48`); with a full queue it sets the stop flag instead, and the worker leaves what is queued |
| `AnchorCompleteIsStored`, `MCAnchorPipeline` | `CompleteIsStored` | if the append of the anchored row fails the trade is shown complete all the same, and a restart knows nothing of its hash (`anchor_worker.py:12-13, 128`) |
| `AnchorLatestRowVerifies`, `MCAnchorPipeline` | `LatestRowVerifies` | the digest on chain is to be recomputed from the record; the record `latest()` returns has the transaction filled in, which the digest covers (`README.md:31-33`, `audit.py:185-204`) |
| `AgentCoherent`, `AgentCall` | `CoherentView` | the live portfolio is called safe "in a single-threaded loop" (`contracts.py:336-337`); the loop is not one, and a prompt may show the balance from before a stop and the positions from after it |

Others met while reading have no property:

* `agent/audit.py` (6-7) wants a record persisted before any external effect;
  `_enter_sized` fills first (`run.py:692`) and appends after (744): the window is the
  state after `Fill`.
* `hydrate_from_audit_store` announces its replay as oldest first, but orders
  records by their last row, which the worker writes when it is done.
* The final snapshot is written before the anchor worker drains, and the pusher is
  closed without a last push (`run.py:1426-1436`): anchors of the last seconds are in
  no file, which is why `TradeFlushed` speaks of trades only, and the last file is
  not published, which is why `Published` ends with the loop.
* After a push that failed a round without new content reports "nothing to push"
  (`auto_push.py:113-116`) although a commit is waiting.
* The gate is given the cost of the *forecast's* side (`run.py:679-687`), while the
  decision may be for the other, which funding treats the other way.
* `classify()` expects the funding rate per eight hours (`regime.py:30, 75`);
  `run.py:593, 644` pass the hourly rate of the snapshot.
* Unknown coins are tier 4, "skipped" by its comment (`tiers.py:49-51`), but the
  sizer trades them at a fifth of the risk.
* Without a snapshot of BTC the override is skipped silently (`run.py:586`):
  `CrisisStandsDown` needs BTC's regime to be known.
* `_aggregate_to_1h` is to drop the trailing partial hour (`run.py:546-548`), but keeps
  a bar of twelve whose last one is still forming, and a leading partial hour.
* A bar that cannot be parsed is converted outside the `try` of the candle loop
  (`ws.py:325-335`): the coin's task ends for good.
* Neither `git push` nor the model's call has a timeout; the shutdown copes with the
  first (`ShutdownEnds`), the loop with the second (`LoopRuns`).
* A short's take lies below zero when the take distance exceeds the mark
  (`sizing.py:174`).

## 6. Proofs

`TradingLoopProofs` proves, for every universe, every set of prices, timestamps,
rates, slippages and plans, every limit, every capacity of the history and every
`MaxOpens` and `MaxDecisions`:
`TypeCorrect`, `BooksAgreement`, `PositionLimitHolds`, `AnswersKnowBooks` and
`LevelsRespected`.

Assumptions, all named where the constants are declared: `Assets` is finite;
marks and timestamps are naturals, slippages too, rates integers; a plan's
distances are positive (its quantity may be zero); limits are naturals; `Bps` is
positive, the fee is not negative and at most all of the notional (`FeeAssumption`:
it is a number of basis points of it, `execute.py:157,231`).

The argument:

1. Lemmas on dictionaries, positions and prices.  `CloseTradeEffect`,
   `OpenTradeEffect` and `TickEffect` say what each operation leaves, field by field.
2. `CheckPositionEffect`, `EnterSizedEffect` and `ApplyEffect` reduce every
   action to three relations between books before and after: `Kept`, `Closed` and
   `Opened`.  An apply step is at most a `Closed` followed by an `Opened`.
3. `TypeOK` alone is not inductive: `CheckPosition` indexes the portfolio with an
   asset of a list taken at the start of the tick.  `TypeInv` adds that list's
   meaning (`UncheckedHeld`: it holds open positions, and nothing after the
   stops).  One step per action.
4. Each other invariant is shown preserved by `Kept`, `Closed` and `Opened`, with
   `TypeInv`.  `AnswerKnowsBook` needs `AnswerAlone`: while a batch is applied no
   other call is under way.  `InsideLevels` and `BooksAgree` are inductive
   relative to `TypeInv`.

`AnchorPipelineProofs` proves all the safety invariants of `anchor_pipeline`, for
every universe, number of trades, size of the queue, of the feed and of the history
(all positive: `BoundsAssumption`).  Its layout:

1. One `...Effect` lemma per action says what the step does, variable by variable;
   nothing later expands an action.
2. `TypeInv` adds `KeysExist` to `TypeOK`: every open trade has a link once its
   opening has come that far, a closing trade's link dictionary still exists, the
   worker at work has a record.  Without it `CloseTrade` has no type.
3. `Trail` makes `AnchoredOnce` inductive: the record in the main thread's hands,
   those in the queue and the one the worker is about to post have been sent
   nowhere, and no two of them are the same; from `AppendRow` on they are
   stored, hence `RowBeforeAnchor` (`RowBeforeAnchorHolds`).
4. `Shown` makes `OwnAnchor` and `CompleteMeansAnchored` inductive: the worker's own
   hash is its record's, and the link it is about to write is its record's or none.
5. `Pending` makes `PendingExplained` inductive: only opened trades are pending,
   none is before the loop begins, and in an iteration that is not torn the
   entries already passed are no longer pending, so that one that ends leaves none.
6. `LedgerKept`, the refinement of `AnchorLedger`, over these invariants and `FirstRow`:
   every record in the store still has its first row, the one without a transaction.
   What is submitted is stored by then (`Trail`), so that `PostAccepted` and
   `PostAnswerLost` are `Anchor`; `AppendAnchored` is `Note`, because a worker
   that has come as far as the poll had its request taken (`Shown`); `Fill` is `Make`,
   `AppendRow` is `Persist`; all else, `End` and `Start` included, is a stutter.

`TradeRowsProofs` adds `TradesAccounted`, `RowsAddUp` and `FundingOnce` from one
invariant, `RowsInv`, whose parts need one another:

1. `Accounted` is `TradesAccountedFor` with arithmetic for sets: ids differ, none is at
   or beyond the next, no row has a position's, and the number of rows is that of the
   ids drawn less the positions, or the capacity if that is less.  A close takes a
   position away and adds a row, of which a full history drops its oldest
   (`AppendLeftLength`, `AppendLeftRows`); an open draws an id and adds a position.
   That a row carries its trade's id needs `Agree`, since `record_close` reads it from
   the link.  At the end the ids held are counted by the bijection with the
   positions (`OneEach`), the closed ones by their difference from all.
2. `Charged` bounds the funding of a position by its least and largest flow.  A tick
   adds a flow for the elapsed minutes; the smaller of it and the old bound serves
   the sum (`FlowBounds`), and the code's guard makes the elapsed minutes positive.
3. `AddUp` needs `Ticked`: a held asset that is past its check has `lastFundingTs` at
   or after this tick's snapshot, so that `close()`'s own accrual adds nothing.  A
   position opened in the tick starts at the snapshot; a fetch puts all positions
   back on the check list.

`BookKeeping`, in the same module, is the refinement of `TradeBook`, from `TypeInv` and
`Agree`: a tick, which accrues funding, keeps the terms (`TickKeepsTerms`); `Kept` books
have the same open trades, `Closed` ones lost one, which comes first in the history
as it was (`BookClosed`, from `Agree`), `Opened` ones gained one under the next number within the limit
(`BookOpened`, from the gate's guard).  A step of `_apply` is one of an entry, an
exit, a switch or a stutter (`BookApply`).

`EquityProofs` proves `ExposureCapped` and `TradingCostsHold`, which speak of sums over
the whole portfolio.  The library's set induction takes an operator as a parameter,
which the provers cannot instantiate, so it is done on a set of subsets: the strict
subsets of a finite set are well founded, hence a non-empty set of subsets has a
minimal member (`WFMin`), and a smallest counterexample is refuted from the equation
of the fold, which comes from the definition of the function it is built on.  From
that, the lemmas on `Exposure` and `Equity`: what they become when one position is
added, removed or replaced.

1. `ExposureCapped`: the gate's projection is the exposure before the entry plus the
   notional of the plan, and the book after an entry is just one position larger.
2. `TradingCostsHold` needs `MarkedInv`: a position that is past its check stands at
   this tick's mark, as it has this tick's funding (`Ticked`).  Hence a close turns the
   unrealised result into cash at that very mark, less slippage and the exit fee; an
   entry takes the entry fee and starts at or below zero by its slippage.
   The slippage of a close may exceed the mark, and the fee on a price below zero is
   itself below zero: `FeeAssumption` keeps it smaller than that slippage (`FeeBound`).

`MarketFeedProofs`, for every set of threads and coins, any time to live and pool:

1. `MetaInv` makes `OneRequest` inductive and carries what the refinement needs: a
   payload was produced after its request was sent, stored after that and before now;
   a thread that is posting found the cache expired, and it still is, since only the
   holder of the lock writes; the payload it brings was produced during its call, and
   no earlier than the one it replaces.
2. `MetaRefines` maps each step inside `_meta()` to one of `FreshMeta` or a stutter: the
   fast path and the second look are `GiveHeld`, `Arrive` is `GiveNew`, `Fail` is `Raise`.
   `MetaIsAtomic` is the theorem for the cache alone, `FeedIsAtomic` for the feed.
3. `FeedInv` ties a coin's stage to its thread's place in `_meta()`, and says a call of
   this round began in it.  `BoardFreshHolds` follows: an answer from the cache was
   stored less than one time to live before the call began, which was after the
   round did, and produced at most its request's duration before it was stored; an
   answer the thread fetched itself was produced in the round.

`AgentCallProofs`, for every finite universe: `AgentInv` says of an iteration that no
more is open than when it began, and that as long as the size is the same
everything read is still open; of the rule, that what is open is among what it
listed.  The first needs cardinalities (`OneLess`): with closes only, equal size
means equal sets, hence `EndPass` is a `Read` of `AtomicAgent` at that very step.
`OneInstantHolds` and `OnlyShrinksHolds` are the refinement and an action property;
`EntersFreshHolds` and `AgentTypeCorrect` are invariants.

`SnapshotPushProofs` proves `TypeOK`, `NeverPartial` and `TradeFlushed`.  The second
needs that `.tmp` is whole wherever the next step is the replacement.  The last
needs `FlushInv`: news is in a payload only between gathering and replacing (an
interrupt gives it back), and from the last replacement on it is in the file unless
the write failed.

`TradePlanProofs`, for every tier, venue maximum, rate, ATR and holding time:
`PlanInv` says a crisis is tagged as one after the override, and of a sized plan that
its quantity is positive (in `TypeOK`: the stand-down check comes first), that its
leverage is within its caps, that it was cut only where one step more would have
cost too much, and that the loop ended.  The arithmetic is in lemmas: `DivideBack`,
`LiqSafetyType`, `CapsType`, `DragGrows`.

Only model-checked: all liveness (`KeepsServing`, both `ShutdownEnds`, `RoundsEnd`,
`CloseEnds`, `LoopRuns`, `CallsEnd`, `Published`), which is out of this prover's reach.
Every safety invariant and every refinement of a passing run is proved.

## 7. Plan

Done: the modules of sections 2 and 6.  What would come next, in this order:

1. The ranking of `core/allocate.py` as a pure operator against a reference, with the
   candidates of `TradingLoop` and `AgentCall` drawn from it.
2. `_aggregate_to_1h` and the warm-up of `_enter_sized` as a module on candle times.
3. The age of books and candles in `MarketFeed`, which the code does not bound, so
   that the loops that die show in what a tick sees.
4. An abstract specification of `SnapshotPush` (what is published is a prefix of what
   was written), and its refinement proof.
5. `AnchorPipeline` and `SnapshotPush` composed through `audit_links`: which anchors
   are in the last file.

## 8. Not modelled

Indicators, the forecast and the cost model (floating-point series), the terminal
rendering, argument parsing, the dashboard's JavaScript, the Circle set-up scripts
and the CSV source: pure presentation, linear I/O or arithmetic out of a model
checker's reach.  Prices are integers throughout, so nothing here speaks of
rounding; leverage is rounded down to thousandths, which the code does not do.

Left out of components that are modelled: `SimExecutor.open` and
`CircleAnchor.submit_record_hash`, which nothing calls; the gate's edge rule, which
compares forecasts and is a free refusal; the equity curve of the accumulator; the
attempts of `_post` as separate requests; the readiness event of the WebSocket
source, whose wait ends after 15 s whatever happens and so is a free moment; the
parsing of candles and levels; an LLM's answer, which is any set of decisions.

Granularity: an interrupt in `SnapshotPush` falls between two steps of the loop or
into a write, not into the middle of a `step()`, so that a trade that was filled and
not yet recorded when Ctrl-C came is not in `TradeFlushed` (in `AnchorPipeline` an
interrupt may come between any two of the steps from `Fill` to `Submit`).  What `git
commit <path>` leaves alone in a checkout an operator works in is git's behaviour,
taken as such; the age of bars and books is bounded by nothing in the code and by no
property here.
