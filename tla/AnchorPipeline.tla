--------------------------- MODULE AnchorPipeline ---------------------------
(***************************************************************************)
(* What happens to the record of a trade: the main thread persists it,     *)
(* shows it on the dashboard and queues it (cli/run.py); a worker thread   *)
(* anchors it through Circle's API, stores the transaction hash and        *)
(* patches the dashboard (agent/anchor_worker.py, agent/snapshot.py); the  *)
(* process is interrupted, shuts down or crashes, and starts again on the  *)
(* same database (agent/audit.py).                                         *)
(*                                                                         *)
(* Each action is what one thread does between two points where the other  *)
(* can observe it.  The transaction that anchors record i is named i.      *)
(***************************************************************************)
EXTENDS Naturals, Sequences

CONSTANTS
    Assets,     \* the scanned universe
    MaxQueue,   \* AnchorWorker(max_queue)
    FeedMax,    \* _RECENT_DECISIONS_MAX
    HistoryMax, \* _TRADE_HISTORY_MAX
    MaxOpens    \* bound: trades opened over all runs of the program

ASSUME BoundsAssumption ==
    /\ MaxQueue \in Nat \ {0}
    /\ FeedMax \in Nat \ {0}
    /\ HistoryMax \in Nat \ {0}
    /\ MaxOpens \in Nat

VARIABLES
    main,      \* main thread: where it is, the record in its hands, the row
               \* its hydration has come to
    worker,    \* anchor-worker thread, likewise, with its local variables
    queue,     \* AnchorWorker._queue: record ids, Pill for the sentinel
    stop,      \* AnchorWorker._stop
    open,      \* portfolio.positions: asset -> the trade that is open
    assetOf,   \* AuditRecord.asset of the records made so far, by id
    links,     \* SnapshotState.audit_links: asset -> its link's record id
    link,      \* the link dictionaries themselves: anchor columns by record id
    feed,      \* SnapshotState.recent_decisions, newest first
    history,   \* SnapshotState.trade_history, newest first
    store,     \* audit_records: rows in rowid order; survives the process
    accepted,  \* external and history: createJob requests Circle took, by id
    silent     \* history: records dropped at a full queue, polled in vain, or
               \* whose report on the feed was torn

vars == <<main, worker, queue, stop, open, assetOf, links, link, feed, history,
          store, accepted, silent>>
dashboard == <<links, link, feed, history>>
pipe == <<queue, stop, silent>>

-----------------------------------------------------------------------------
Ids == 1..MaxOpens
NoId == 0
NoTx == 0
Pill == 0
Txs == {NoTx} \cup Ids

Row == [id : Ids, tx : Txs]
Closed == [id : Ids, tx : Txs]
Columns == [tx : Txs, state : {"pending", "complete", "error"}]
Entry == [id : Ids, kind : {"open", "close"}, tx : Txs,
          state : {"pending", "complete", "error", "unknown", "n/a"}]

\* step() as far as a record is concerned, and the steps of main()'s "finally".
Running == {"run", "append", "link", "feed", "submit", "history", "closed"}
Closing == {"pill", "join", "client", "store", "exiting"}

\* f is a dictionary with keys in S and values in T.
IsDict(f, S, T) == DOMAIN f \subseteq S /\ f \in [DOMAIN f -> T]

\* The dictionary f with k set to v, and without k.
Put(f, k, v) == [x \in DOMAIN f \cup {k} |-> IF x = k THEN v ELSE f[x]]
Pop(f, k) == [x \in DOMAIN f \ {k} |-> f[x]]
EmptyDict == [x \in {} |-> NoId]

NextId == Len(assetOf) + 1
Stored == {store[k].id : k \in DOMAIN store}

MainThread ==
    [pc : Running \cup Closing \cup {"off", "hydrate"}, id : {NoId} \cup Ids, row : Nat \ {0}]
WorkerThread ==
    [pc : {"test", "get", "post", "poll", "append", "callback", "patch", "scan", "dead"},
     id : {NoId} \cup Ids, tx : Txs, failed : BOOLEAN,
     ref : {NoId} \cup Ids, at : 1..(FeedMax + 1), torn : BOOLEAN]

TypeOK ==
    /\ main \in MainThread
    /\ worker \in WorkerThread
    /\ queue \in Seq({Pill} \cup Ids) /\ Len(queue) <= MaxQueue
    /\ stop \in BOOLEAN
    /\ assetOf \in Seq(Assets) /\ Len(assetOf) <= MaxOpens
    /\ IsDict(open, Assets, Ids)
    /\ IsDict(links, Assets, Ids)
    /\ IsDict(link, Ids, Columns)
    /\ feed \in Seq(Entry) /\ Len(feed) <= FeedMax
    /\ history \in Seq(Closed) /\ Len(history) <= HistoryMax
    /\ store \in Seq(Row)
    /\ accepted \in [Ids -> Nat]
    /\ silent \subseteq Ids

-----------------------------------------------------------------------------
(* Shared operations.                                                      *)

\* Mutant: a deque without maxlen.
PostUncapped(f, e) == <<e>> \o f

\* deque.appendleft: beyond "max" entries the oldest falls off.
AppendLeft(f, e, max) ==
    SubSeq(<<e>> \o f, 1, IF Len(f) < max THEN Len(f) + 1 ELSE max)

\* record_decision.  That it first removes an entry of the same key changes
\* nothing: keys are fresh here.
Post(f, e) == AppendLeft(f, e, FeedMax)

\* The main thread changed the deque: an iteration under way on the worker will
\* raise at its next entry.  One that has not fetched an entry has not begun.
Tear(w) == IF w.pc = "scan" /\ w.at > 1 THEN [w EXCEPT !.torn = TRUE] ELSE w

\* _anchor_one's record, hash and "err is not None"; update_anchor's "link" and
\* the position of its iteration.
IdleWorker == [pc |-> "test", id |-> NoId, tx |-> NoTx, failed |-> FALSE,
               ref |-> NoId, at |-> 1, torn |-> FALSE]

MainTo(pc) == main' = [main EXCEPT !.pc = pc]
WorkerTo(pc) == worker' = [worker EXCEPT !.pc = pc]

Loop == [pc |-> "run", id |-> NoId, row |-> 1]
NoProcess == [Loop EXCEPT !.pc = "off"]
NoWorker == [IdleWorker EXCEPT !.pc = "dead"]

\* The database is empty, the program has not been started yet.
Init ==
    /\ main = NoProcess /\ worker = NoWorker
    /\ queue = <<>> /\ stop = FALSE /\ silent = {}
    /\ open = EmptyDict /\ links = EmptyDict /\ link = EmptyDict
    /\ feed = <<>> /\ history = <<>>
    /\ assetOf = <<>> /\ store = <<>>
    /\ accepted = [i \in Ids |-> 0]

-----------------------------------------------------------------------------
(* The main thread opens a trade.                                          *)

\* executor.open_sized, then audit.new_record with a fresh audit id.
Fill(a) ==
    /\ main.pc = "run" /\ a \notin DOMAIN open /\ NextId \in Ids
    /\ main' = [main EXCEPT !.pc = "append", !.id = NextId]
    /\ open' = Put(open, a, NextId)
    /\ assetOf' = Append(assetOf, a)
    /\ UNCHANGED <<worker, pipe, dashboard, store, accepted>>

\* audit_store.append
AppendRow ==
    /\ main.pc = "append"
    /\ store' = Append(store, [id |-> main.id, tx |-> NoTx])
    /\ MainTo("link")
    /\ UNCHANGED <<worker, pipe, open, assetOf, dashboard, accepted>>

\* Mutant: the append is "best effort" as well, the trade goes on without a row.
AppendRowSwallows ==
    /\ main.pc = "append"
    /\ MainTo("link")
    /\ UNCHANGED <<worker, pipe, open, assetOf, dashboard, store, accepted>>

\* It may raise (disk full, database locked); nothing in step() or main() catches
\* that, so main() goes to its "finally".
AppendRowRaises ==
    /\ main.pc = "append"
    /\ MainTo("pill")
    /\ UNCHANGED <<worker, pipe, open, assetOf, dashboard, store, accepted>>

\* snap_state.record_open
RecordOpen ==
    /\ main.pc = "link"
    /\ links' = Put(links, assetOf[main.id], main.id)
    /\ link' = Put(link, main.id, [tx |-> NoTx, state |-> "pending"])
    /\ MainTo("feed")
    /\ UNCHANGED <<worker, pipe, open, assetOf, feed, history, store, accepted>>

\* snap_state.record_decision with anchor_state "pending"
RecordDecision ==
    /\ main.pc = "feed"
    /\ feed' = Post(feed, [id |-> main.id, kind |-> "open", tx |-> NoTx, state |-> "pending"])
    /\ worker' = Tear(worker)
    /\ MainTo("submit")
    /\ UNCHANGED <<pipe, open, assetOf, links, link, history, store, accepted>>

\* anchor_worker.submit: put_nowait, or drop the record.
Submit ==
    /\ main.pc = "submit"
    /\ IF Len(queue) < MaxQueue
       THEN queue' = Append(queue, main.id) /\ UNCHANGED silent
       ELSE silent' = silent \cup {main.id} /\ UNCHANGED queue
    /\ main' = Loop
    /\ UNCHANGED <<worker, stop, open, assetOf, dashboard, store, accepted>>

-----------------------------------------------------------------------------
(* The main thread closes a trade: executor.close, then record_close, which *)
(* pops the link and reads its hash twice, while the worker may write it.   *)

CloseTrade(a) ==
    /\ main.pc = "run" /\ a \in DOMAIN open
    /\ main' = [main EXCEPT !.pc = "history", !.id = links[a]]
    /\ open' = Pop(open, a)
    /\ links' = Pop(links, a)
    /\ UNCHANGED <<worker, pipe, assetOf, link, feed, history, store, accepted>>

RecordHistory ==
    /\ main.pc = "history"
    /\ history' = AppendLeft(history, [id |-> main.id, tx |-> link[main.id].tx], HistoryMax)
    /\ MainTo("closed")
    /\ UNCHANGED <<worker, pipe, open, assetOf, links, link, feed, store, accepted>>

RecordCloseEntry ==
    /\ main.pc = "closed"
    /\ feed' = Post(feed, [id |-> main.id, kind |-> "close", tx |-> link[main.id].tx, state |-> "n/a"])
    /\ worker' = Tear(worker)
    /\ main' = Loop
    /\ UNCHANGED <<pipe, open, assetOf, links, link, history, store, accepted>>

-----------------------------------------------------------------------------
(* The end of a run of the program, and the next one.                      *)

\* Ctrl-C, or an exception out of step(): main() enters "finally".
Interrupt ==
    /\ main.pc \in Running
    /\ MainTo("pill")
    /\ UNCHANGED <<worker, pipe, open, assetOf, dashboard, store, accepted>>

\* anchor_worker.close: the pill, or the stop flag when the queue is full ...
CloseWorker ==
    /\ main.pc = "pill"
    /\ IF Len(queue) < MaxQueue
       THEN queue' = Append(queue, Pill) /\ UNCHANGED stop
       ELSE stop' = TRUE /\ UNCHANGED queue
    /\ MainTo("join")
    /\ UNCHANGED <<worker, silent, open, assetOf, dashboard, store, accepted>>

\* Mutant: queue.join() instead.
JoinQueue ==
    /\ main.pc = "join" /\ queue = <<>>
    /\ MainTo("client")
    /\ UNCHANGED <<worker, pipe, open, assetOf, dashboard, store, accepted>>

\* ... then join: the thread has ended, or 30 seconds have passed.
Join ==
    /\ main.pc = "join"
    /\ MainTo("client")
    /\ UNCHANGED <<worker, pipe, open, assetOf, dashboard, store, accepted>>

\* anchor_client.close, audit_store.close: see ClientOpen and StoreOpen.
CloseHandles ==
    /\ \/ main.pc = "client" /\ MainTo("store")
       \/ main.pc = "store" /\ MainTo("exiting")
    /\ UNCHANGED <<worker, pipe, open, assetOf, dashboard, store, accepted>>
ClientOpen == main.pc \notin {"store", "exiting"}
StoreOpen == main.pc # "exiting"

\* The process ends, after the shutdown or at any moment: what was in memory is
\* gone, the worker (a daemon thread) with it.
End ==
    /\ main.pc # "off"
    /\ main' = NoProcess /\ worker' = NoWorker
    /\ queue' = <<>> /\ stop' = FALSE /\ silent' = {}
    /\ open' = EmptyDict /\ links' = EmptyDict /\ link' = EmptyDict
    /\ feed' = <<>> /\ history' = <<>>
    /\ UNCHANGED <<assetOf, store, accepted>>

Start ==
    /\ main.pc = "off"
    /\ MainTo("hydrate")
    /\ UNCHANGED <<worker, pipe, open, assetOf, dashboard, store, accepted>>

\* hydrate_from_audit_store: the latest row of each record, by rowid, is replayed
\* on the feed (record_decision); nothing else comes back.
LatestRows(s) == {k \in DOMAIN s : \A j \in DOMAIN s : j > k => s[j].id # s[k].id}
Hydrated(row) ==
    [id |-> row.id, kind |-> "open", tx |-> row.tx,
     state |-> IF row.tx # NoTx THEN "complete" ELSE "unknown"]
HydrateRow ==
    /\ main.pc = "hydrate" /\ main.row \in DOMAIN store
    /\ feed' = IF main.row \in LatestRows(store) THEN Post(feed, Hydrated(store[main.row])) ELSE feed
    /\ main' = [main EXCEPT !.row = @ + 1]
    /\ UNCHANGED <<worker, pipe, open, assetOf, links, link, history, store, accepted>>

\* The replay is over, or raised and main() goes on without the rest: AnchorWorker
\* starts its thread, and the loop begins.
EnterLoop ==
    /\ main.pc = "hydrate"
    /\ main' = Loop /\ worker' = IdleWorker
    /\ UNCHANGED <<pipe, open, assetOf, dashboard, store, accepted>>

-----------------------------------------------------------------------------
(* The worker thread: _run and _anchor_one.                                *)

\* "while not self._stop.is_set()"
TestStop ==
    /\ worker.pc = "test"
    /\ WorkerTo(IF stop THEN "dead" ELSE "get")
    /\ UNCHANGED <<main, pipe, open, assetOf, dashboard, store, accepted>>

\* queue.get(timeout): nothing came, or the pill, or a record.
GetNothing ==
    /\ worker.pc = "get" /\ queue = <<>>
    /\ WorkerTo("test")
    /\ UNCHANGED <<main, pipe, open, assetOf, dashboard, store, accepted>>
GetPill ==
    /\ worker.pc = "get" /\ queue # <<>> /\ Head(queue) = Pill
    /\ queue' = Tail(queue) /\ stop' = TRUE
    /\ WorkerTo("dead")
    /\ UNCHANGED <<main, silent, open, assetOf, dashboard, store, accepted>>
GetRecord ==
    /\ worker.pc = "get" /\ queue # <<>> /\ Head(queue) # Pill
    /\ queue' = Tail(queue)
    /\ worker' = [IdleWorker EXCEPT !.pc = "post", !.id = Head(queue)]
    /\ UNCHANGED <<main, stop, silent, open, assetOf, dashboard, store, accepted>>

\* Mutant: nothing catches the exception, the thread ends.
FailsForGood == WorkerTo("dead")

\* An exception under _anchor_one's first "try": on to the callback with err.
Fails == worker' = [worker EXCEPT !.pc = "callback", !.failed = TRUE]

\* anchor_hash is a digest of all of a record's fields, the transaction included;
\* anchor_record sends the digest of the record as queued, which has none yet.
AnchorHash(row) == <<row.id, row.tx>>
SentHash(i) == AnchorHash([id |-> i, tx |-> NoTx])

\* _post_contract_execution: Circle took the request, and its answer arrived ...
PostAccepted ==
    /\ worker.pc = "post" /\ ClientOpen
    /\ accepted' = [accepted EXCEPT ![worker.id] = @ + 1]
    /\ WorkerTo("poll")
    /\ UNCHANGED <<main, pipe, open, assetOf, dashboard, store>>
\* Mutant: the request is tried again.
PostAnswerLostRetry ==
    /\ worker.pc = "post" /\ ClientOpen
    /\ accepted' = [accepted EXCEPT ![worker.id] = @ + 1]
    /\ UNCHANGED <<main, worker, pipe, open, assetOf, dashboard, store>>
\* ... or was lost ...
PostAnswerLost ==
    /\ worker.pc = "post" /\ ClientOpen
    /\ accepted' = [accepted EXCEPT ![worker.id] = @ + 1]
    /\ Fails
    /\ UNCHANGED <<main, pipe, open, assetOf, dashboard, store>>
\* ... or it did not take it, or the client is closed.
PostRefused ==
    /\ worker.pc = "post"
    /\ Fails
    /\ UNCHANGED <<main, pipe, open, assetOf, dashboard, store, accepted>>

\* _poll_until_terminal: broadcast with a hash, or no hash when time is up.
PollReturns ==
    /\ worker.pc = "poll" /\ ClientOpen
    /\ \E tx \in {NoTx, worker.id} : worker' = [worker EXCEPT !.pc = "append", !.tx = tx]
    /\ UNCHANGED <<main, pipe, open, assetOf, dashboard, store, accepted>>
\* A terminal-bad state, an HTTP error, a closed client.
PollRaises ==
    /\ worker.pc = "poll"
    /\ Fails
    /\ UNCHANGED <<main, pipe, open, assetOf, dashboard, store, accepted>>

\* store.append(replace(record, arc_tx_hash=...)), with or without a hash.
AppendAnchored ==
    /\ worker.pc = "append" /\ StoreOpen
    /\ store' = Append(store, [id |-> worker.id, tx |-> worker.tx])
    /\ WorkerTo("callback")
    /\ UNCHANGED <<main, pipe, open, assetOf, dashboard, accepted>>
\* The append raises; "result" is already bound and stays so.
AppendAnchoredRaises ==
    /\ worker.pc = "append"
    /\ Fails
    /\ UNCHANGED <<main, pipe, open, assetOf, dashboard, store, accepted>>

\* Mutant: "result is not None" alone, without the hash.
ReportAnyResult(w) ==
    IF w.tx # NoTx \/ ~w.failed THEN {[tx |-> w.tx, state |-> "complete"]}
    ELSE {[tx |-> NoTx, state |-> "error"]}

\* Mutant: no branch for errors.
ReportNoError(w) ==
    IF w.tx # NoTx THEN {[tx |-> w.tx, state |-> "complete"]} ELSE {}

\* _on_anchor_complete: what it has update_anchor write, if anything.  A poll
\* that ended without a hash and without an error is not reported at all.
Report(w) ==
    IF w.tx # NoTx THEN {[tx |-> w.tx, state |-> "complete"]}
    ELSE IF w.failed THEN {[tx |-> NoTx, state |-> "error"]}
    ELSE {}

\* Mutant: the audit id of the link is not compared.
LinkOfAsset(i) ==
    IF assetOf[i] \in DOMAIN links THEN links[assetOf[i]] ELSE NoId

\* The asset's link of this moment, which may belong to a later trade, or none.
\* (No other thread runs between "asset in" and the subscript that follows.)
LinkOf(i) ==
    IF assetOf[i] \in DOMAIN links /\ links[assetOf[i]] = i THEN i ELSE NoId

Callback ==
    /\ worker.pc = "callback"
    /\ IF Report(worker) # {}
       THEN /\ worker' = [worker EXCEPT !.pc = "patch", !.ref = LinkOf(worker.id)]
            /\ UNCHANGED silent
       ELSE /\ worker' = IdleWorker
            /\ silent' = silent \cup (IF worker.failed THEN {} ELSE {worker.id})
    /\ UNCHANGED <<main, queue, stop, open, assetOf, dashboard, store, accepted>>

\* update_anchor writes the link it found, which main may have popped meanwhile.
PatchLink ==
    /\ worker.pc = "patch"
    /\ \E columns \in Report(worker) :
          link' = [i \in DOMAIN link |-> IF i = worker.ref THEN columns ELSE link[i]]
    /\ WorkerTo("scan")
    /\ UNCHANGED <<main, pipe, open, assetOf, links, feed, history, store, accepted>>

\* update_anchor's loop over recent_decisions, one entry per step.  An iteration
\* torn by the main thread raises; _anchor_one swallows that.
ScanRaises ==
    /\ worker.pc = "scan" /\ worker.torn
    /\ worker' = IdleWorker
    /\ silent' = silent \cup {worker.id}
    /\ UNCHANGED <<main, queue, stop, open, assetOf, dashboard, store, accepted>>
Matches(e) == e.kind = "open" /\ e.id = worker.id
ScanEntry ==
    /\ worker.pc = "scan" /\ ~worker.torn /\ worker.at <= Len(feed)
    /\ \E columns \in Report(worker) :
          feed' = IF Matches(feed[worker.at])
                  THEN [feed EXCEPT ![worker.at].tx = columns.tx, ![worker.at].state = columns.state]
                  ELSE feed
    /\ worker' = [worker EXCEPT !.at = @ + 1]
    /\ UNCHANGED <<main, pipe, open, assetOf, links, link, history, store, accepted>>
ScanEnds ==
    /\ worker.pc = "scan" /\ ~worker.torn /\ worker.at > Len(feed)
    /\ worker' = IdleWorker
    /\ UNCHANGED <<main, pipe, open, assetOf, dashboard, store, accepted>>

-----------------------------------------------------------------------------
\* Steps the threads take by themselves: not trades, interrupts and ends.
MainSteps ==
    \/ AppendRow \/ AppendRowRaises \/ RecordOpen \/ RecordDecision \/ Submit
    \/ RecordHistory \/ RecordCloseEntry
    \/ CloseWorker \/ Join \/ CloseHandles
WorkerSteps ==
    \/ TestStop \/ GetNothing \/ GetPill \/ GetRecord
    \/ PostAccepted \/ PostAnswerLost \/ PostRefused
    \/ PollReturns \/ PollRaises
    \/ AppendAnchored \/ AppendAnchoredRaises
    \/ Callback \/ PatchLink \/ ScanRaises \/ ScanEntry \/ ScanEnds

Next ==
    \/ \E a \in Assets : Fill(a) \/ CloseTrade(a)
    \/ MainSteps
    \/ WorkerSteps
    \/ Interrupt \/ End \/ Start \/ HydrateRow \/ EnterLoop

Spec == Init /\ [][Next]_vars
\* Each thread runs on: the operating system schedules both, and every call the
\* worker blocks in has a timeout (0.5 s, 30 s, 60 s), as has the join (30 s).
FairSpec == Spec /\ WF_vars(MainSteps) /\ WF_vars(WorkerSteps)

-----------------------------------------------------------------------------
(* Properties.                                                             *)

\* Wherever the dashboard or the store shows a transaction for a trade it is the
\* one that anchors this trade's record, although the worker finds the place to
\* write through the asset, where meanwhile another trade may stand.
OwnAnchor ==
    /\ \A i \in DOMAIN link : link[i].tx \in {NoTx, i}
    /\ \A k \in DOMAIN feed : feed[k].tx \in {NoTx, feed[k].id}
    /\ \A k \in DOMAIN history : history[k].tx \in {NoTx, history[k].id}
    /\ \A k \in DOMAIN store : store[k].tx \in {NoTx, store[k].id}

\* Circle takes at most one createJob per record, over lost answers, shutdowns,
\* crashes and restarts: each request draws a fresh idempotency key, so that
\* nothing but the pipeline itself keeps a record from being anchored twice.
AnchoredOnce == \A i \in Ids : accepted[i] <= 1

\* No record is sent to Circle before a row of it is in the store, so that a
\* transaction on chain always has a preimage off chain (submit: "Already
\* persisted via AuditStore.append before submission").
RowBeforeAnchor == \A i \in Ids : accepted[i] > 0 => i \in Stored

\* What survives the process is the ledger of AnchorLedger: a digest reaches the
\* chain only while the row it is the digest of is in the store, once at most,
\* and a row names the transaction only after Circle took it, whatever is lost,
\* dropped or interrupted, over crashes and restarts in any number.
Ledger == INSTANCE AnchorLedger WITH
              made <- DOMAIN assetOf,
              rows <- {store[k] : k \in DOMAIN store}
KeepsLedger == Ledger!Spec

\* A trade shown as "complete" shows a transaction that Circle took, one shown
\* otherwise shows none: on its link, in the feed, and after a restart.
CompleteMeansAnchored ==
    LET Says(e, i) == /\ e.state = "complete" <=> e.tx # NoTx
                      /\ e.state = "complete" => accepted[i] > 0
    IN  /\ \A i \in DOMAIN link : Says(link[i], i)
        /\ \A k \in DOMAIN feed : feed[k].kind = "open" => Says(feed[k], feed[k].id)

\* While the loop runs, a trade the feed shows as "pending" is being dealt with
\* (in main's hands, in the queue, in the worker's hands) or is one of those the
\* pipeline gives up on silently: dropped at a full queue, polled in vain, or
\* its scan of the feed torn.  There is no fourth way to stay pending.
PendingExplained ==
    main.pc \in Running =>
        \A k \in DOMAIN feed :
            feed[k].state = "pending" =>
                \/ feed[k].id \in {main.id, worker.id} \cup silent
                \/ \E j \in DOMAIN queue : queue[j] = feed[k].id

\* A queued record is taken from the queue, unless the program ends: failed
\* requests, failed appends and torn scans do not stop the worker.
KeepsServing ==
    \A i \in Ids :
        (\E j \in DOMAIN queue : queue[j] = i)
            ~> (main.pc \notin Running \/ ~\E j \in DOMAIN queue : queue[j] = i)

\* Once main() is in its "finally" it closes the store, whatever the worker is
\* doing and however full the queue: or the process is gone.
ShutdownEnds == main.pc = "pill" ~> main.pc \in {"exiting", "off"}

-----------------------------------------------------------------------------
(* What the repository says and the code does not do.                      *)

\* AnchorWorker: close() "drains, joins, shuts down": a worker that ended in
\* the shutdown has left nothing in the queue.
DrainsOnClose == main.pc \in Closing /\ worker.pc = "dead" => queue = <<>>

\* update_anchor: "Updates both audit_links and the matching entry in
\* recent_decisions": between two records the two say the same of an open trade.
BothPlaces ==
    worker.pc = "test" =>
        \A a \in DOMAIN links, k \in DOMAIN feed :
            feed[k].kind = "open" /\ feed[k].id = links[a] =>
                [tx |-> feed[k].tx, state |-> feed[k].state] = link[links[a]]

\* anchor_worker: the worker "write-aheads each anchored record back to the
\* AuditStore with the tx_hash populated": what is shown complete is stored so.
CompleteIsStored ==
    \A k \in DOMAIN feed :
        feed[k].state = "complete" =>
            \E j \in DOMAIN store : store[j] = [id |-> feed[k].id, tx |-> feed[k].tx]

\* README.md: "Anyone holding the off-chain audit record can recompute
\* keccak256(canonical_json(record) || nonce) and compare it": the record that
\* latest() returns for an anchored trade hashes to what was sent to the chain.
LatestRowVerifies ==
    \A k \in LatestRows(store) :
        accepted[store[k].id] > 0 => AnchorHash(store[k]) = SentHash(store[k].id)
=============================================================================
