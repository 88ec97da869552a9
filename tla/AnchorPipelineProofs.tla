------------------------ MODULE AnchorPipelineProofs ------------------------
(***************************************************************************)
(* Invariants of AnchorPipeline, and that it keeps the ledger of what is   *)
(* on chain (AnchorLedger), for every universe, queue, feed and number of  *)
(* trades.                                                                 *)
(***************************************************************************)
EXTENDS AnchorPipeline, TLAPS

\* From Fill to Submit main holds the record of a trade it is opening; Busy is
\* the worker with a record in its hands.
Opening == {"append", "link", "feed", "submit"}
Busy == {"post", "poll", "append", "callback", "patch", "scan"}

\* The keys the threads are about to look up exist: every open trade has a link,
\* once its opening has come so far.
KeysExist ==
    /\ main.pc \in Opening => main.id \in DOMAIN assetOf
    /\ main.pc \in {"history", "closed"} => main.id \in DOMAIN link
    /\ \A a \in DOMAIN links : links[a] \in DOMAIN link
    /\ main.pc \in Running =>
          \A a \in DOMAIN open :
              a \in DOMAIN links \/ (main.pc \in {"append", "link"} /\ a = assetOf[main.id])
    /\ main.pc \in {"off", "hydrate"} => DOMAIN open = {}
    /\ worker.pc \in Busy => worker.id \in Ids

TypeInv == TypeOK /\ KeysExist

-----------------------------------------------------------------------------
(* Dictionaries, the deque, the report.                                    *)

\* Setting a key keeps a dictionary one, and adds that key.
LEMMA PutFacts ==
    ASSUME NEW S, NEW T, NEW f, IsDict(f, S, T), NEW k \in S, NEW v \in T
    PROVE  /\ IsDict(Put(f, k, v), S, T)
           /\ DOMAIN Put(f, k, v) = DOMAIN f \cup {k}
           /\ \A x \in DOMAIN f \cup {k} : Put(f, k, v)[x] = IF x = k THEN v ELSE f[x]
BY DEF Put, IsDict

\* Popping a key keeps a dictionary one, and the other keys.
LEMMA PopFacts ==
    ASSUME NEW S, NEW T, NEW f, IsDict(f, S, T), NEW k
    PROVE  /\ IsDict(Pop(f, k), S, T)
           /\ DOMAIN Pop(f, k) = DOMAIN f \ {k}
           /\ \A x \in DOMAIN f \ {k} : Pop(f, k)[x] = f[x]
BY DEF Pop, IsDict

\* appendleft on the bounded deque: the new entry is first, the others move back
\* by one, and nothing else comes in.
LEMMA AppendLeftFacts ==
    ASSUME NEW S, NEW f \in Seq(S), NEW max \in Nat \ {0}, Len(f) <= max,
           NEW e \in S
    PROVE  /\ AppendLeft(f, e, max) \in Seq(S)
           /\ Len(AppendLeft(f, e, max)) <= max
           /\ DOMAIN AppendLeft(f, e, max) # {}
           /\ \A k \in DOMAIN AppendLeft(f, e, max) :
                 \/ k = 1 /\ AppendLeft(f, e, max)[k] = e
                 \/ k - 1 \in DOMAIN f /\ AppendLeft(f, e, max)[k] = f[k - 1]
<1> DEFINE n == IF Len(f) < max THEN Len(f) + 1 ELSE max
           g == <<e>> \o f
<1>1. n \in Nat /\ 1 <= n /\ n <= Len(f) + 1 /\ n <= max
  OBVIOUS
<1>2. /\ g \in Seq(S) /\ Len(g) = Len(f) + 1
      /\ g[1] = e /\ \A k \in 2..Len(g) : g[k] = f[k - 1]
  OBVIOUS
<1>3. AppendLeft(f, e, max) = SubSeq(g, 1, n)
  BY DEF AppendLeft
<1> HIDE DEF n, g
<1>4. /\ SubSeq(g, 1, n) \in Seq(S) /\ Len(SubSeq(g, 1, n)) = n
      /\ \A k \in 1..n : SubSeq(g, 1, n)[k] = g[k]
  BY <1>1, <1>2
<1>5. /\ AppendLeft(f, e, max) \in Seq(S) /\ Len(AppendLeft(f, e, max)) = n /\ DOMAIN AppendLeft(f, e, max) = 1..n
      /\ \A k \in 1..n : AppendLeft(f, e, max)[k] = g[k]
  BY <1>1, <1>3, <1>4
<1>6. 1 \in DOMAIN AppendLeft(f, e, max)
  BY <1>1, <1>5
<1>7. ASSUME NEW k \in DOMAIN AppendLeft(f, e, max)
      PROVE  \/ k = 1 /\ AppendLeft(f, e, max)[k] = e
             \/ k - 1 \in DOMAIN f /\ AppendLeft(f, e, max)[k] = f[k - 1]
  <2>1. CASE k = 1
    BY <1>2, <1>5, <2>1
  <2>2. CASE k # 1
    <3>1. k \in 2..Len(g) /\ k - 1 \in 1..Len(f)
      BY <1>1, <1>2, <1>5, <1>7, <2>2
    <3> QED
      BY <3>1, <1>2, <1>5
  <2> QED
    BY <2>1, <2>2
<1> QED
  BY <1>1, <1>5, <1>6, <1>7

\* What the callback has to write is of one of two kinds.
LEMMA ReportFacts ==
    ASSUME NEW w, w.tx \in Txs, NEW c \in Report(w)
    PROVE  /\ c \in Columns
           /\ c.tx = w.tx
           /\ c.state # "pending"
           /\ c.state = "complete" <=> c.tx # NoTx
BY DEF Report, Columns, Txs, NoTx

\* A step of main that only moves it, and one that ends an operation.
LEMMA MainMoves ==
    ASSUME main \in MainThread, NEW pc \in Running \cup Closing \cup {"off", "hydrate"}, MainTo(pc)
    PROVE  /\ main' \in MainThread
           /\ main'.pc = pc /\ main'.id = main.id /\ main'.row = main.row
BY DEF MainTo, MainThread
\* The main thread between two trades, and after the end of the process.
LEMMA LoopFacts ==
    /\ Loop \in MainThread /\ Loop.pc = "run" /\ Loop.id = NoId /\ Loop.row = 1
    /\ NoProcess \in MainThread /\ NoProcess.pc = "off"
BY DEF Loop, NoProcess, MainThread, Running

\* Likewise for the worker.
LEMMA WorkerMoves ==
    ASSUME worker \in WorkerThread, NEW pc \in {"test", "get", "post", "poll", "append", "callback", "patch", "scan", "dead"},
           WorkerTo(pc)
    PROVE  /\ worker' \in WorkerThread
           /\ worker'.pc = pc /\ worker'.id = worker.id /\ worker'.tx = worker.tx
           /\ worker'.failed = worker.failed /\ worker'.ref = worker.ref
           /\ worker'.at = worker.at /\ worker'.torn = worker.torn
BY DEF WorkerTo, WorkerThread
\* The worker between two records, and without a thread (AnchorWorker._run).
LEMMA IdleFacts ==
    /\ IdleWorker \in WorkerThread /\ IdleWorker.pc = "test" /\ IdleWorker.id = NoId
    /\ NoWorker \in WorkerThread /\ NoWorker.pc = "dead" /\ NoWorker.id = NoId
<1>1. 1 \in 1..(FeedMax + 1)
  BY BoundsAssumption
<1>2. IdleWorker \in WorkerThread /\ IdleWorker.pc = "test" /\ IdleWorker.id = NoId
  BY <1>1 DEF IdleWorker, WorkerThread, Txs
<1> QED
  BY <1>2 DEF NoWorker, WorkerThread

\* A torn iteration changes no more than the flag.
LEMMA TearFacts ==
    ASSUME worker \in WorkerThread, worker' = Tear(worker)
    PROVE  /\ worker' \in WorkerThread
           /\ worker'.pc = worker.pc /\ worker'.id = worker.id /\ worker'.tx = worker.tx
           /\ worker'.failed = worker.failed /\ worker'.ref = worker.ref
           /\ worker'.at = worker.at
           /\ worker'.pc = "scan" /\ worker'.at > 1 => worker'.torn
           /\ worker.torn => worker'.torn
<1>1. CASE worker.pc = "scan" /\ worker.at > 1
  BY <1>1 DEF Tear, WorkerThread
<1>2. CASE ~(worker.pc = "scan" /\ worker.at > 1)
  <2>1. worker' = worker
    BY <1>2, Zenon DEF Tear
  <2> QED
    BY <1>2, <2>1
<1> QED
  BY <1>1, <1>2

-----------------------------------------------------------------------------
(* What each action of main does, variable by variable.                    *)

\* What a fill changes (_enter_sized(), _apply()).
LEMMA FillEffect ==
    ASSUME TypeInv, NEW a \in Assets, Fill(a)
    PROVE  /\ main.pc = "run" /\ NextId \in Ids
           /\ main' \in MainThread /\ main'.pc = "append" /\ main'.id = NextId
           /\ IsDict(open', Assets, Ids) /\ DOMAIN open' = DOMAIN open \cup {a}
           /\ assetOf' \in Seq(Assets) /\ Len(assetOf') = NextId /\ Len(assetOf') <= MaxOpens
           /\ DOMAIN assetOf' = DOMAIN assetOf \cup {NextId} /\ assetOf'[NextId] = a
           /\ UNCHANGED <<worker, queue, stop, silent, links, link, feed, history, store, accepted>>
<1> USE DEF TypeInv, TypeOK
<1>1. NextId \in Ids /\ main.pc = "run"
  BY DEF Fill
<1>2. /\ assetOf' \in Seq(Assets) /\ Len(assetOf') = NextId /\ Len(assetOf') <= MaxOpens
      /\ DOMAIN assetOf' = DOMAIN assetOf \cup {NextId} /\ assetOf'[NextId] = a
  BY <1>1, BoundsAssumption DEF Fill, NextId, Ids
<1>3. IsDict(open', Assets, Ids) /\ DOMAIN open' = DOMAIN open \cup {a}
  <2>1. open' = Put(open, a, NextId) /\ IsDict(open, Assets, Ids)
    BY DEF Fill
  <2> HIDE DEF TypeInv, TypeOK
  <2> QED
    BY <1>1, <2>1 DEF Put, IsDict
<1>4. main' \in MainThread /\ main'.pc = "append" /\ main'.id = NextId
  <2>1. main' = [main EXCEPT !.pc = "append", !.id = NextId]
    BY DEF Fill
  <2>2. main \in MainThread
    OBVIOUS
  <2> HIDE DEF TypeInv, TypeOK
  <2> QED
    BY <1>1, <2>1, <2>2 DEF MainThread, Running
<1>5. UNCHANGED <<worker, queue, stop, silent, links, link, feed, history, store, accepted>>
  BY DEF Fill, pipe, dashboard
<1> QED
  BY <1>1, <1>2, <1>3, <1>4, <1>5

\* What the append of a row changes (AuditStore.append).
LEMMA AppendRowEffect ==
    ASSUME TypeInv, AppendRow
    PROVE  /\ main.pc = "append" /\ main.id \in Ids
           /\ main' \in MainThread /\ main'.pc = "link" /\ main'.id = main.id
           /\ store' \in Seq(Row) /\ DOMAIN store' = DOMAIN store \cup {Len(store) + 1}
           /\ \A k \in DOMAIN store : store'[k] = store[k]
           /\ store'[Len(store) + 1] = [id |-> main.id, tx |-> NoTx]
           /\ UNCHANGED <<worker, queue, stop, silent, open, assetOf, links, link, feed, history, accepted>>
<1> USE DEF TypeInv, TypeOK
<1>1. main.pc = "append" /\ main.id \in Ids
  BY BoundsAssumption DEF AppendRow, KeysExist, Opening, Ids
<1>2. main' \in MainThread /\ main'.pc = "link" /\ main'.id = main.id
  BY MainMoves DEF AppendRow, Running
<1>3. [id |-> main.id, tx |-> NoTx] \in Row
  BY <1>1 DEF Row, Txs
<1>4. store' = Append(store, [id |-> main.id, tx |-> NoTx])
  BY DEF AppendRow
<1>5. UNCHANGED <<worker, queue, stop, silent, open, assetOf, links, link, feed, history, accepted>>
  BY DEF AppendRow, pipe, dashboard
<1> QED
  BY <1>1, <1>2, <1>3, <1>4, <1>5

\* The steps that only move main out of the loop and through the shutdown.
LEMMA LeaveEffect ==
    ASSUME TypeInv, AppendRowRaises \/ Interrupt \/ Join \/ CloseHandles
    PROVE  /\ main' \in MainThread /\ main'.pc \in Closing
           /\ main.pc \notin {"off", "hydrate"}
           /\ UNCHANGED <<worker, queue, stop, silent, open, assetOf, links, link, feed, history, store, accepted>>
<1> USE DEF TypeInv, TypeOK, pipe, dashboard
<1>1. CASE AppendRowRaises
  BY <1>1, MainMoves DEF AppendRowRaises, Closing
<1>2. CASE Interrupt
  BY <1>2, MainMoves DEF Interrupt, Closing, Running
<1>3. CASE Join
  BY <1>3, MainMoves DEF Join, Closing
<1>4. CASE CloseHandles
  BY <1>4, MainMoves DEF CloseHandles, Closing
<1> QED
  BY <1>1, <1>2, <1>3, <1>4

\* What record_open() changes: the link and the feed.
LEMMA RecordOpenEffect ==
    ASSUME TypeInv, RecordOpen
    PROVE  /\ main.pc = "link" /\ main.id \in Ids
           /\ main' \in MainThread /\ main'.pc = "feed" /\ main'.id = main.id
           /\ IsDict(links', Assets, Ids) /\ DOMAIN links' = DOMAIN links \cup {assetOf[main.id]}
           /\ \A a \in DOMAIN links' : links'[a] = IF a = assetOf[main.id] THEN main.id ELSE links[a]
           /\ IsDict(link', Ids, Columns) /\ DOMAIN link' = DOMAIN link \cup {main.id}
           /\ \A i \in DOMAIN link' :
                 link'[i] = IF i = main.id THEN [tx |-> NoTx, state |-> "pending"] ELSE link[i]
           /\ UNCHANGED <<worker, queue, stop, silent, open, assetOf, feed, history, store, accepted>>
<1> USE DEF TypeInv, TypeOK
<1>1. main.pc = "link" /\ main.id \in Ids /\ assetOf[main.id] \in Assets
  <2>1. main.pc = "link" /\ main.id \in DOMAIN assetOf
    BY DEF RecordOpen, KeysExist, Opening
  <2>2. assetOf \in Seq(Assets) /\ Len(assetOf) <= MaxOpens
    OBVIOUS
  <2> QED
    BY <2>1, <2>2, BoundsAssumption DEF Ids
<1>2. main' \in MainThread /\ main'.pc = "feed" /\ main'.id = main.id
  <2>1. MainTo("feed") /\ main \in MainThread
    BY DEF RecordOpen
  <2> QED
    BY <2>1, MainMoves DEF Running
<1>3. [tx |-> NoTx, state |-> "pending"] \in Columns
  BY DEF Columns, Txs
<1>4. /\ links' = Put(links, assetOf[main.id], main.id)
      /\ link' = Put(link, main.id, [tx |-> NoTx, state |-> "pending"])
      /\ UNCHANGED <<worker, queue, stop, silent, open, assetOf, feed, history, store, accepted>>
      /\ IsDict(links, Assets, Ids) /\ IsDict(link, Ids, Columns)
  BY DEF RecordOpen, pipe
<1> HIDE DEF TypeInv, TypeOK
<1>5. /\ IsDict(links', Assets, Ids) /\ DOMAIN links' = DOMAIN links \cup {assetOf[main.id]}
      /\ \A a \in DOMAIN links' : links'[a] = IF a = assetOf[main.id] THEN main.id ELSE links[a]
  BY <1>1, <1>4, PutFacts
<1>6. /\ IsDict(link', Ids, Columns) /\ DOMAIN link' = DOMAIN link \cup {main.id}
      /\ \A i \in DOMAIN link' :
            link'[i] = IF i = main.id THEN [tx |-> NoTx, state |-> "pending"] ELSE link[i]
  BY <1>1, <1>3, <1>4 DEF Put, IsDict
<1> QED
  BY <1>1, <1>2, <1>4, <1>5, <1>6

\* The feed after an entry is posted on it.
FeedGains(e) ==
    /\ feed' \in Seq(Entry) /\ Len(feed') <= FeedMax
    /\ \A k \in DOMAIN feed' :
          \/ k = 1 /\ feed'[k] = e
          \/ k - 1 \in DOMAIN feed /\ feed'[k] = feed[k - 1]

\* The worker's thread as main leaves it when it posts.
WorkerKeeps ==
    /\ worker' \in WorkerThread
    /\ worker'.pc = worker.pc /\ worker'.id = worker.id /\ worker'.tx = worker.tx
    /\ worker'.failed = worker.failed /\ worker'.ref = worker.ref /\ worker'.at = worker.at
    /\ worker'.pc = "scan" /\ worker'.at > 1 => worker'.torn
    /\ worker.torn => worker'.torn

\* A feed that was posted to holds the new entry and old ones (deque.append).
LEMMA FeedPosted ==
    ASSUME TypeInv, NEW e \in Entry, feed' = Post(feed, e)
    PROVE  FeedGains(e)
<1>1. feed \in Seq(Entry) /\ Len(feed) <= FeedMax
  BY DEF TypeInv, TypeOK
<1>2. /\ Post(feed, e) \in Seq(Entry)
      /\ Len(Post(feed, e)) <= FeedMax
      /\ \A k \in DOMAIN Post(feed, e) :
            \/ k = 1 /\ Post(feed, e)[k] = e
            \/ k - 1 \in DOMAIN feed /\ Post(feed, e)[k] = feed[k - 1]
  <2>1. FeedMax \in Nat \ {0}
    BY BoundsAssumption
  <2> DEFINE f == AppendLeft(feed, e, FeedMax)
  <2>2. /\ f \in Seq(Entry) /\ Len(f) <= FeedMax
        /\ \A k \in DOMAIN f :
              \/ k = 1 /\ f[k] = e
              \/ k - 1 \in DOMAIN feed /\ f[k] = feed[k - 1]
    BY <1>1, <2>1, AppendLeftFacts
  <2>3. Post(feed, e) = f
    BY DEF Post
  <2> HIDE DEF f
  <2> QED
    BY <2>2, <2>3
<1> QED
  BY <1>2, Zenon DEF FeedGains

\* Posting to the feed ends a scan of it by the worker (update_anchor).
LEMMA WorkerTorn ==
    ASSUME TypeInv, worker' = Tear(worker)
    PROVE  WorkerKeeps
<1>1. worker \in WorkerThread
  BY DEF TypeInv, TypeOK
<1> QED
  BY <1>1, TearFacts DEF WorkerKeeps

\* What record_decision() changes: the feed.
LEMMA RecordDecisionEffect ==
    ASSUME TypeInv, RecordDecision
    PROVE  /\ main.pc = "feed" /\ main.id \in Ids
           /\ main' \in MainThread /\ main'.pc = "submit" /\ main'.id = main.id
           /\ FeedGains([id |-> main.id, kind |-> "open", tx |-> NoTx, state |-> "pending"])
           /\ WorkerKeeps
           /\ UNCHANGED <<queue, stop, silent, open, assetOf, links, link, history, store, accepted>>
<1>1. main \in MainThread /\ MainTo("submit") /\ main.pc = "feed"
  BY DEF TypeInv, TypeOK, RecordDecision
<1>2. main.id \in Ids
  BY <1>1, BoundsAssumption DEF TypeInv, TypeOK, KeysExist, Opening, Ids
<1>3. main' \in MainThread /\ main'.pc = "submit" /\ main'.id = main.id
  BY <1>1, MainMoves DEF Running
<1>4. [id |-> main.id, kind |-> "open", tx |-> NoTx, state |-> "pending"] \in Entry
  BY <1>2 DEF Entry, Txs
<1>5. FeedGains([id |-> main.id, kind |-> "open", tx |-> NoTx, state |-> "pending"])
  BY <1>4, FeedPosted DEF RecordDecision
<1>6. WorkerKeeps
  BY WorkerTorn DEF RecordDecision
<1>7. UNCHANGED <<queue, stop, silent, open, assetOf, links, link, history, store, accepted>>
  BY DEF RecordDecision, pipe
<1> QED
  BY <1>1, <1>2, <1>3, <1>5, <1>6, <1>7

\* What submit() changes: the queue, or the drop is noted.
LEMMA SubmitEffect ==
    ASSUME TypeInv, Submit
    PROVE  /\ main.pc = "submit" /\ main.id \in Ids /\ main' = Loop
           /\ queue' \in Seq({Pill} \cup Ids) /\ Len(queue') <= MaxQueue
           /\ \/ queue' = Append(queue, main.id) /\ silent' = silent
              \/ queue' = queue /\ silent' = silent \cup {main.id}
           /\ UNCHANGED <<worker, stop, open, assetOf, links, link, feed, history, store, accepted>>
<1> USE DEF TypeInv, TypeOK
<1>1. main.pc = "submit" /\ main.id \in Ids
  BY BoundsAssumption DEF Submit, KeysExist, Opening, Ids
<1>2. queue \in Seq({Pill} \cup Ids) /\ Len(queue) <= MaxQueue /\ MaxQueue \in Nat
  BY BoundsAssumption
<1>3. /\ main' = Loop
      /\ \/ Len(queue) < MaxQueue /\ queue' = Append(queue, main.id) /\ silent' = silent
         \/ queue' = queue /\ silent' = silent \cup {main.id}
      /\ UNCHANGED <<worker, stop, open, assetOf, links, link, feed, history, store, accepted>>
  BY DEF Submit, dashboard
<1> HIDE DEF TypeInv, TypeOK
<1>4. queue' \in Seq({Pill} \cup Ids) /\ Len(queue') <= MaxQueue
  <2> DEFINE S == {Pill} \cup Ids
  <2>1. main.id \in S /\ queue \in Seq(S)
    BY <1>1, <1>2
  <2> HIDE DEF S
  <2>2. CASE queue' = queue
    BY <1>2, <2>1, <2>2 DEF S
  <2>3. CASE Len(queue) < MaxQueue /\ queue' = Append(queue, main.id)
    <3>1. Append(queue, main.id) \in Seq(S)
      BY <2>1
    <3>2. Len(Append(queue, main.id)) = Len(queue) + 1
      BY <2>1
    <3> QED
      BY <1>2, <2>3, <3>1, <3>2 DEF S
  <2> QED
    BY <1>3, <2>2, <2>3
<1> QED
  BY <1>1, <1>3, <1>4

\* What closing a trade changes: the position and its link.
LEMMA CloseTradeEffect ==
    ASSUME TypeInv, NEW a \in Assets, CloseTrade(a)
    PROVE  /\ main.pc = "run" /\ a \in DOMAIN links /\ links[a] \in DOMAIN link
           /\ main' \in MainThread /\ main'.pc = "history" /\ main'.id = links[a]
           /\ IsDict(open', Assets, Ids) /\ DOMAIN open' = DOMAIN open \ {a}
           /\ IsDict(links', Assets, Ids) /\ DOMAIN links' = DOMAIN links \ {a}
           /\ \A x \in DOMAIN links' : links'[x] = links[x]
           /\ UNCHANGED <<worker, queue, stop, silent, assetOf, link, feed, history, store, accepted>>
<1>1. /\ main.pc = "run" /\ a \in DOMAIN open
      /\ main' = [main EXCEPT !.pc = "history", !.id = links[a]]
      /\ open' = Pop(open, a) /\ links' = Pop(links, a)
      /\ UNCHANGED <<worker, queue, stop, silent, assetOf, link, feed, history, store, accepted>>
  BY DEF CloseTrade, pipe
<1>2. main \in MainThread /\ IsDict(open, Assets, Ids) /\ IsDict(links, Assets, Ids)
  BY DEF TypeInv, TypeOK
<1>3. a \in DOMAIN links /\ links[a] \in DOMAIN link
  BY <1>1 DEF TypeInv, KeysExist, Running
<1>4. links[a] \in Ids
  BY <1>2, <1>3 DEF IsDict
<1>5. main' \in MainThread /\ main'.pc = "history" /\ main'.id = links[a]
  BY <1>1, <1>2, <1>4 DEF MainThread, Running
<1>6. IsDict(open', Assets, Ids) /\ DOMAIN open' = DOMAIN open \ {a}
  BY <1>1, <1>2 DEF Pop, IsDict
<1>7. /\ IsDict(links', Assets, Ids) /\ DOMAIN links' = DOMAIN links \ {a}
      /\ \A x \in DOMAIN links' : links'[x] = links[x]
  BY <1>1, <1>2 DEF Pop, IsDict
<1> QED
  BY <1>1, <1>3, <1>5, <1>6, <1>7

\* What the close finds on the link it popped.
LEMMA LinkColumns ==
    ASSUME TypeInv, main.pc \in {"history", "closed"}
    PROVE  main.id \in DOMAIN link /\ main.id \in Ids /\ link[main.id].tx \in Txs
BY DEF TypeInv, TypeOK, KeysExist, IsDict, Columns

\* What record_close() adds to the history.
LEMMA RecordHistoryEffect ==
    ASSUME TypeInv, RecordHistory
    PROVE  /\ main.pc = "history" /\ main.id \in DOMAIN link
           /\ main' \in MainThread /\ main'.pc = "closed" /\ main'.id = main.id
           /\ history' \in Seq(Closed) /\ Len(history') <= HistoryMax
           /\ \A k \in DOMAIN history' :
                 \/ history'[k] = [id |-> main.id, tx |-> link[main.id].tx]
                 \/ k - 1 \in DOMAIN history /\ history'[k] = history[k - 1]
           /\ UNCHANGED <<worker, queue, stop, silent, open, assetOf, links, link, feed, store, accepted>>
<1>1. /\ main.pc = "history" /\ main \in MainThread /\ MainTo("closed")
      /\ history' = AppendLeft(history, [id |-> main.id, tx |-> link[main.id].tx], HistoryMax)
      /\ history \in Seq(Closed) /\ Len(history) <= HistoryMax
      /\ UNCHANGED <<worker, queue, stop, silent, open, assetOf, links, link, feed, store, accepted>>
  BY DEF TypeInv, TypeOK, RecordHistory, pipe
<1>2. main.id \in DOMAIN link /\ main.id \in Ids /\ link[main.id].tx \in Txs
  BY <1>1, LinkColumns
<1>3. main' \in MainThread /\ main'.pc = "closed" /\ main'.id = main.id
  BY <1>1, MainMoves DEF Running
<1>4. /\ history' \in Seq(Closed) /\ Len(history') <= HistoryMax
      /\ \A k \in DOMAIN history' :
            \/ history'[k] = [id |-> main.id, tx |-> link[main.id].tx]
            \/ k - 1 \in DOMAIN history /\ history'[k] = history[k - 1]
  <2> DEFINE t == [id |-> main.id, tx |-> link[main.id].tx]
  <2>1. t \in Closed
    BY <1>2 DEF Closed
  <2>2. HistoryMax \in Nat \ {0}
    BY BoundsAssumption
  <2>3. /\ history' = AppendLeft(history, t, HistoryMax)
        /\ history \in Seq(Closed) /\ Len(history) <= HistoryMax
    BY <1>1
  <2> HIDE DEF t
  <2>4. /\ history' \in Seq(Closed) /\ Len(history') <= HistoryMax
        /\ \A k \in DOMAIN history' :
              \/ history'[k] = t
              \/ k - 1 \in DOMAIN history /\ history'[k] = history[k - 1]
    BY <2>1, <2>2, <2>3, AppendLeftFacts
  <2> QED
    BY <2>4 DEF t
<1> QED
  BY <1>1, <1>2, <1>3, <1>4

\* What record_close() posts to the feed.
LEMMA RecordCloseEntryEffect ==
    ASSUME TypeInv, RecordCloseEntry
    PROVE  /\ main.pc = "closed" /\ main.id \in DOMAIN link /\ main' = Loop
           /\ FeedGains([id |-> main.id, kind |-> "close", tx |-> link[main.id].tx, state |-> "n/a"])
           /\ WorkerKeeps
           /\ UNCHANGED <<queue, stop, silent, open, assetOf, links, link, history, store, accepted>>
<1>1. main.pc = "closed" /\ main' = Loop
  BY DEF RecordCloseEntry
<1>2. main.id \in DOMAIN link /\ main.id \in Ids /\ link[main.id].tx \in Txs
  BY <1>1, LinkColumns
<1>3. [id |-> main.id, kind |-> "close", tx |-> link[main.id].tx, state |-> "n/a"] \in Entry
  BY <1>2 DEF Entry
<1>4. FeedGains([id |-> main.id, kind |-> "close", tx |-> link[main.id].tx, state |-> "n/a"])
  BY <1>3, FeedPosted DEF RecordCloseEntry
<1>5. WorkerKeeps
  BY WorkerTorn DEF RecordCloseEntry
<1>6. UNCHANGED <<queue, stop, silent, open, assetOf, links, link, history, store, accepted>>
  BY DEF RecordCloseEntry, pipe
<1> QED
  BY <1>1, <1>2, <1>4, <1>5, <1>6

\* What AnchorWorker.close() changes: the queue or the stop flag.
LEMMA CloseWorkerEffect ==
    ASSUME TypeInv, CloseWorker
    PROVE  /\ main.pc = "pill"
           /\ main' \in MainThread /\ main'.pc = "join"
           /\ queue' \in Seq({Pill} \cup Ids) /\ Len(queue') <= MaxQueue
           /\ queue' = queue \/ queue' = Append(queue, Pill)
           /\ stop' \in BOOLEAN
           /\ UNCHANGED <<worker, silent, open, assetOf, links, link, feed, history, store, accepted>>
<1>1. main \in MainThread /\ main.pc = "pill" /\ MainTo("join")
  BY DEF TypeInv, TypeOK, CloseWorker
<1>2. main' \in MainThread /\ main'.pc = "join"
  BY <1>1, MainMoves DEF Closing
<1>3. queue \in Seq({Pill} \cup Ids) /\ Len(queue) <= MaxQueue /\ MaxQueue \in Nat /\ stop \in BOOLEAN
  BY BoundsAssumption DEF TypeInv, TypeOK
<1>4. /\ \/ Len(queue) < MaxQueue /\ queue' = Append(queue, Pill)
         \/ queue' = queue
      /\ stop' = stop \/ stop' = TRUE
      /\ UNCHANGED <<worker, silent, open, assetOf, links, link, feed, history, store, accepted>>
  BY DEF CloseWorker, dashboard
<1>5. queue' \in Seq({Pill} \cup Ids) /\ Len(queue') <= MaxQueue
  BY <1>3, <1>4
<1>6. stop' \in BOOLEAN
  BY <1>3, <1>4
<1> QED
  BY <1>1, <1>2, <1>4, <1>5, <1>6

\* What the end of the process leaves (main(), a crash).
LEMMA EndEffect ==
    ASSUME TypeInv, End
    PROVE  /\ main' = NoProcess /\ worker' = NoWorker
           /\ queue' = <<>> /\ stop' = FALSE /\ silent' = {}
           /\ IsDict(open', Assets, Ids) /\ DOMAIN open' = {}
           /\ IsDict(links', Assets, Ids) /\ DOMAIN links' = {}
           /\ IsDict(link', Ids, Columns) /\ DOMAIN link' = {}
           /\ feed' = <<>> /\ history' = <<>>
           /\ UNCHANGED <<assetOf, store, accepted>>
BY DEF End, EmptyDict, IsDict

\* What a new start sets up (main()).
LEMMA StartEffect ==
    ASSUME TypeInv, Start
    PROVE  /\ main.pc = "off"
           /\ main' \in MainThread /\ main'.pc = "hydrate"
           /\ UNCHANGED <<worker, queue, stop, silent, open, assetOf, links, link, feed, history, store, accepted>>
<1>1. main \in MainThread /\ main.pc = "off" /\ MainTo("hydrate")
  BY DEF TypeInv, TypeOK, Start
<1>2. main' \in MainThread /\ main'.pc = "hydrate"
  BY <1>1, MainMoves
<1> QED
  BY <1>1, <1>2 DEF Start, pipe, dashboard

\* What one row of hydrate_from_audit_store() restores.
LEMMA HydrateRowEffect ==
    ASSUME TypeInv, HydrateRow
    PROVE  /\ main.pc = "hydrate"
           /\ main' \in MainThread /\ main'.pc = "hydrate"
           /\ \/ feed' = feed
              \/ \E k \in DOMAIN store : FeedGains(Hydrated(store[k]))
           /\ UNCHANGED <<worker, queue, stop, silent, open, assetOf, links, link, history, store, accepted>>
<1>1. /\ main.pc = "hydrate" /\ main \in MainThread /\ main.row \in DOMAIN store
      /\ main' = [main EXCEPT !.row = @ + 1]
      /\ feed' = feed \/ feed' = Post(feed, Hydrated(store[main.row]))
      /\ UNCHANGED <<worker, queue, stop, silent, open, assetOf, links, link, history, store, accepted>>
  BY DEF TypeInv, TypeOK, HydrateRow, pipe
<1>2. main' \in MainThread /\ main'.pc = "hydrate"
  BY <1>1 DEF MainThread
<1>3. store[main.row] \in Row
  BY <1>1 DEF TypeInv, TypeOK
<1>4. Hydrated(store[main.row]) \in Entry
  BY <1>3 DEF Hydrated, Row, Entry
<1>5. feed' = feed \/ FeedGains(Hydrated(store[main.row]))
  BY <1>1, <1>4, FeedPosted
<1> QED
  BY <1>1, <1>2, <1>5

\* What is set up when the loop is entered (main()).
LEMMA EnterLoopEffect ==
    ASSUME TypeInv, EnterLoop
    PROVE  /\ main.pc = "hydrate" /\ main' = Loop /\ worker' = IdleWorker
           /\ UNCHANGED <<queue, stop, silent, open, assetOf, links, link, feed, history, store, accepted>>
BY DEF EnterLoop, pipe, dashboard

-----------------------------------------------------------------------------
(* What each action of the worker does.                                    *)

\* The worker keeps its record and what it knows of it.
SameRecord ==
    worker'.id = worker.id /\ worker'.tx = worker.tx /\ worker'.ref = worker.ref /\ worker'.at = worker.at

\* Looking at the stop flag and at an empty queue changes no record (_run).
LEMMA WaitEffect ==
    ASSUME TypeInv, TestStop \/ GetNothing
    PROVE  /\ worker.pc \in {"test", "get"}
           /\ worker' \in WorkerThread /\ worker'.pc \in {"test", "get", "dead"} /\ SameRecord
           /\ UNCHANGED <<main, queue, stop, silent, open, assetOf, links, link, feed, history, store, accepted>>
<1>1. worker \in WorkerThread
  BY DEF TypeInv, TypeOK
<1>2. \E pc \in {"test", "get", "dead"} : WorkerTo(pc)
  BY DEF TestStop, GetNothing
<1>3. worker' \in WorkerThread /\ worker'.pc \in {"test", "get", "dead"} /\ SameRecord
  BY <1>1, <1>2, WorkerMoves DEF SameRecord
<1> QED
  BY <1>3 DEF TestStop, GetNothing, pipe, dashboard

\* The sentinel ends the worker (_run).
LEMMA GetPillEffect ==
    ASSUME TypeInv, GetPill
    PROVE  /\ worker.pc = "get" /\ queue # <<>> /\ queue' = Tail(queue) /\ queue[1] = Pill /\ stop' = TRUE
           /\ worker' \in WorkerThread /\ worker'.pc = "dead" /\ SameRecord
           /\ UNCHANGED <<main, silent, open, assetOf, links, link, feed, history, store, accepted>>
<1>1. worker \in WorkerThread /\ WorkerTo("dead")
  BY DEF TypeInv, TypeOK, GetPill
<1>2. worker' \in WorkerThread /\ worker'.pc = "dead" /\ SameRecord
  BY <1>1, WorkerMoves DEF SameRecord
<1>3. queue[1] = Pill
  BY DEF GetPill, TypeInv, TypeOK
<1> QED
  BY <1>2, <1>3 DEF GetPill, dashboard

\* A record that is taken leaves the queue (_run).
LEMMA GetRecordEffect ==
    ASSUME TypeInv, GetRecord
    PROVE  /\ worker.pc = "get" /\ queue # <<>> /\ queue' = Tail(queue) /\ queue[1] \in Ids
           /\ worker' \in WorkerThread /\ worker'.pc = "post" /\ worker'.id = queue[1]
           /\ worker'.tx = NoTx /\ worker'.ref = NoId /\ worker'.at = 1
           /\ UNCHANGED <<main, stop, silent, open, assetOf, links, link, feed, history, store, accepted>>
<1>1. /\ worker.pc = "get" /\ queue # <<>> /\ queue' = Tail(queue) /\ Head(queue) # Pill
      /\ worker' = [IdleWorker EXCEPT !.pc = "post", !.id = Head(queue)]
      /\ UNCHANGED <<main, stop, silent, open, assetOf, links, link, feed, history, store, accepted>>
  BY DEF GetRecord, dashboard
<1>2. Head(queue) = queue[1] /\ queue[1] \in Ids
  BY <1>1 DEF TypeInv, TypeOK
<1>3. IdleWorker \in WorkerThread /\ IdleWorker.tx = NoTx /\ IdleWorker.ref = NoId /\ IdleWorker.at = 1
  BY IdleFacts DEF IdleWorker
<1>4. /\ worker' \in WorkerThread /\ worker'.pc = "post" /\ worker'.id = queue[1]
      /\ worker'.tx = NoTx /\ worker'.ref = NoId /\ worker'.at = 1
  BY <1>1, <1>2, <1>3 DEF WorkerThread
<1> QED
  BY <1>1, <1>2, <1>4

\* An exception on the way: the record goes to the callback.
LEMMA FailsFacts ==
    ASSUME TypeInv, Fails
    PROVE  worker' \in WorkerThread /\ worker'.pc = "callback" /\ SameRecord
<1>1. worker \in WorkerThread /\ worker' = [worker EXCEPT !.pc = "callback", !.failed = TRUE]
  BY DEF TypeInv, TypeOK, Fails
<1> QED
  BY <1>1 DEF WorkerThread, SameRecord

\* What a request that Circle took changes (anchor_record).
LEMMA PostTakenEffect ==
    ASSUME TypeInv, PostAccepted \/ PostAnswerLost
    PROVE  /\ worker.pc = "post" /\ worker.id \in Ids
           /\ worker' \in WorkerThread /\ worker'.pc \in {"poll", "callback"} /\ SameRecord
           /\ accepted' \in [Ids -> Nat] /\ accepted'[worker.id] = accepted[worker.id] + 1
           /\ \A i \in Ids : i # worker.id => accepted'[i] = accepted[i]
           /\ UNCHANGED <<main, queue, stop, silent, open, assetOf, links, link, feed, history, store>>
<1>1. worker \in WorkerThread /\ accepted \in [Ids -> Nat]
  BY DEF TypeInv, TypeOK
<1>2. /\ worker.pc = "post"
      /\ WorkerTo("poll") \/ Fails
      /\ accepted' = [accepted EXCEPT ![worker.id] = @ + 1]
      /\ UNCHANGED <<main, queue, stop, silent, open, assetOf, links, link, feed, history, store>>
  BY DEF PostAccepted, PostAnswerLost, pipe, dashboard
<1>3. worker.id \in Ids
  BY <1>2 DEF TypeInv, KeysExist, Busy
<1>4. worker' \in WorkerThread /\ worker'.pc \in {"poll", "callback"} /\ SameRecord
  <2>1. CASE WorkerTo("poll")
    BY <1>1, <2>1, WorkerMoves DEF SameRecord
  <2>2. CASE Fails
    BY <2>2, FailsFacts
  <2> QED
    BY <1>2, <2>1, <2>2
<1> QED
  BY <1>1, <1>2, <1>3, <1>4

\* What a failure of the client changes (_anchor_one).
LEMMA FailsEffect ==
    ASSUME TypeInv, PostRefused \/ PollRaises \/ AppendAnchoredRaises
    PROVE  /\ worker.pc \in {"post", "poll", "append"}
           /\ worker' \in WorkerThread /\ worker'.pc = "callback" /\ SameRecord
           /\ UNCHANGED <<main, queue, stop, silent, open, assetOf, links, link, feed, history, store, accepted>>
<1>1. /\ worker.pc \in {"post", "poll", "append"} /\ Fails
      /\ UNCHANGED <<main, queue, stop, silent, open, assetOf, links, link, feed, history, store, accepted>>
  BY DEF PostRefused, PollRaises, AppendAnchoredRaises, pipe, dashboard
<1> QED
  BY <1>1, FailsFacts

\* What the polls return (_poll_until_terminal).
LEMMA PollReturnsEffect ==
    ASSUME TypeInv, PollReturns
    PROVE  /\ worker.pc = "poll" /\ worker.id \in Ids
           /\ worker' \in WorkerThread /\ worker'.pc = "append" /\ worker'.id = worker.id
           /\ worker'.tx \in {NoTx, worker.id} /\ worker'.ref = worker.ref /\ worker'.at = worker.at
           /\ UNCHANGED <<main, queue, stop, silent, open, assetOf, links, link, feed, history, store, accepted>>
<1>1. /\ worker.pc = "poll"
      /\ UNCHANGED <<main, queue, stop, silent, open, assetOf, links, link, feed, history, store, accepted>>
  BY DEF PollReturns, pipe, dashboard
<1>2. worker \in WorkerThread /\ worker.id \in Ids
  BY <1>1 DEF TypeInv, TypeOK, KeysExist, Busy
<1>3. PICK tx \in {NoTx, worker.id} : worker' = [worker EXCEPT !.pc = "append", !.tx = tx]
  BY DEF PollReturns
<1>4. tx \in Txs
  BY <1>2 DEF Txs
<1>5. /\ worker' \in WorkerThread /\ worker'.pc = "append" /\ worker'.id = worker.id
      /\ worker'.tx \in {NoTx, worker.id} /\ worker'.ref = worker.ref /\ worker'.at = worker.at
  BY <1>2, <1>3, <1>4 DEF WorkerThread
<1> QED
  BY <1>1, <1>2, <1>5

\* What the append of the anchored row changes (_anchor_one).
LEMMA AppendAnchoredEffect ==
    ASSUME TypeInv, AppendAnchored
    PROVE  /\ worker.pc = "append" /\ worker.id \in Ids
           /\ worker' \in WorkerThread /\ worker'.pc = "callback" /\ SameRecord
           /\ store' \in Seq(Row) /\ DOMAIN store' = DOMAIN store \cup {Len(store) + 1}
           /\ \A k \in DOMAIN store : store'[k] = store[k]
           /\ store'[Len(store) + 1] = [id |-> worker.id, tx |-> worker.tx]
           /\ UNCHANGED <<main, queue, stop, silent, open, assetOf, links, link, feed, history, accepted>>
<1>1. /\ worker.pc = "append" /\ WorkerTo("callback")
      /\ store' = Append(store, [id |-> worker.id, tx |-> worker.tx])
      /\ UNCHANGED <<main, queue, stop, silent, open, assetOf, links, link, feed, history, accepted>>
  BY DEF AppendAnchored, pipe, dashboard
<1>2. worker \in WorkerThread /\ worker.id \in Ids /\ store \in Seq(Row)
  BY <1>1 DEF TypeInv, TypeOK, KeysExist, Busy
<1>3. worker' \in WorkerThread /\ worker'.pc = "callback" /\ SameRecord
  BY <1>1, <1>2, WorkerMoves DEF SameRecord
<1>4. [id |-> worker.id, tx |-> worker.tx] \in Row
  BY <1>2 DEF WorkerThread, Row
<1>5. /\ store' \in Seq(Row) /\ DOMAIN store' = DOMAIN store \cup {Len(store) + 1}
      /\ \A k \in DOMAIN store : store'[k] = store[k]
      /\ store'[Len(store) + 1] = [id |-> worker.id, tx |-> worker.tx]
  BY <1>1, <1>2, <1>4
<1> QED
  BY <1>1, <1>2, <1>3, <1>5

\* What the callback starts with (_on_anchor_complete).
LEMMA CallbackEffect ==
    ASSUME TypeInv, Callback
    PROVE  /\ worker.pc = "callback" /\ worker.id \in Ids
           /\ \/ /\ worker' \in WorkerThread /\ worker'.pc = "patch"
                 /\ worker'.id = worker.id /\ worker'.tx = worker.tx
                 /\ worker'.ref \in {NoId, worker.id} /\ worker'.at = worker.at
                 /\ silent' = silent
              \/ worker' = IdleWorker /\ silent' = silent \cup {worker.id}
           /\ UNCHANGED <<main, queue, stop, open, assetOf, links, link, feed, history, store, accepted>>
<1>1. /\ worker.pc = "callback"
      /\ UNCHANGED <<main, queue, stop, open, assetOf, links, link, feed, history, store, accepted>>
  BY DEF Callback, dashboard
<1>2. worker \in WorkerThread /\ worker.id \in Ids
  BY <1>1 DEF TypeInv, TypeOK, KeysExist, Busy
<1>3. LinkOf(worker.id) \in {NoId, worker.id}
  BY DEF LinkOf
<1>4. CASE Report(worker) # {}
  <2>1. worker' = [worker EXCEPT !.pc = "patch", !.ref = LinkOf(worker.id)] /\ silent' = silent
    BY <1>4 DEF Callback
  <2>2. LinkOf(worker.id) \in {NoId} \cup Ids
    BY <1>2, <1>3
  <2>3. /\ worker' \in WorkerThread /\ worker'.pc = "patch"
        /\ worker'.id = worker.id /\ worker'.tx = worker.tx
        /\ worker'.ref \in {NoId, worker.id} /\ worker'.at = worker.at
    BY <1>2, <1>3, <2>1, <2>2 DEF WorkerThread
  <2> QED
    BY <1>1, <1>2, <2>1, <2>3
<1>5. CASE Report(worker) = {}
  <2>1. ~worker.failed
    BY <1>5 DEF Report
  <2>2. worker' = IdleWorker /\ silent' = silent \cup {worker.id}
    BY <1>5, <2>1, Zenon DEF Callback
  <2> QED
    BY <1>1, <1>2, <2>2
<1> QED
  BY <1>4, <1>5

\* The columns the worker writes.
Writes(c) ==
    /\ c \in Columns /\ c.tx = worker.tx /\ c.state # "pending"
    /\ c.state = "complete" <=> c.tx # NoTx

\* What the callback writes is the status of its result (_on_anchor_complete).
LEMMA ReportWrites ==
    ASSUME TypeInv, NEW c \in Report(worker)
    PROVE  Writes(c)
<1>1. worker.tx \in Txs
  BY DEF TypeInv, TypeOK, WorkerThread
<1> QED
  BY <1>1, ReportFacts DEF Writes

\* What update_anchor() writes into the link.
LEMMA PatchLinkEffect ==
    ASSUME TypeInv, PatchLink
    PROVE  /\ worker.pc = "patch"
           /\ worker' \in WorkerThread /\ worker'.pc = "scan" /\ SameRecord
           /\ IsDict(link', Ids, Columns) /\ DOMAIN link' = DOMAIN link
           /\ \E c : Writes(c) /\ \A i \in DOMAIN link : link'[i] = IF i = worker.ref THEN c ELSE link[i]
           /\ UNCHANGED <<main, queue, stop, silent, open, assetOf, links, feed, history, store, accepted>>
<1>1. /\ worker.pc = "patch" /\ WorkerTo("scan")
      /\ UNCHANGED <<main, queue, stop, silent, open, assetOf, links, feed, history, store, accepted>>
  BY DEF PatchLink, pipe
<1>2. PICK c \in Report(worker) : link' = [i \in DOMAIN link |-> IF i = worker.ref THEN c ELSE link[i]]
  BY DEF PatchLink
<1>3. worker \in WorkerThread /\ IsDict(link, Ids, Columns)
  BY DEF TypeInv, TypeOK
<1>4. Writes(c)
  BY ReportWrites
<1>5. worker' \in WorkerThread /\ worker'.pc = "scan" /\ SameRecord
  BY <1>1, <1>3, WorkerMoves DEF SameRecord
<1>6. /\ IsDict(link', Ids, Columns) /\ DOMAIN link' = DOMAIN link
      /\ \A i \in DOMAIN link : link'[i] = IF i = worker.ref THEN c ELSE link[i]
  BY <1>2, <1>3, <1>4 DEF IsDict, Writes
<1> QED
  BY <1>1, <1>4, <1>5, <1>6

\* A worker that is done with a record waits for the next (_run).
LEMMA DoneEffect ==
    ASSUME TypeInv, ScanRaises \/ ScanEnds
    PROVE  /\ worker.pc = "scan" /\ worker.id \in Ids /\ worker' = IdleWorker
           /\ \/ silent' = silent \cup {worker.id}
              \/ silent' = silent /\ ~worker.torn /\ worker.at > Len(feed)
           /\ UNCHANGED <<main, queue, stop, open, assetOf, links, link, feed, history, store, accepted>>
<1>1. worker.pc = "scan"
  BY DEF ScanRaises, ScanEnds
<1>2. worker.id \in Ids
  BY <1>1 DEF TypeInv, KeysExist, Busy
<1> QED
  BY <1>1, <1>2 DEF ScanRaises, ScanEnds, pipe, dashboard

\* What update_anchor() writes into the feed.
LEMMA ScanEntryEffect ==
    ASSUME TypeInv, ScanEntry
    PROVE  /\ worker.pc = "scan" /\ ~worker.torn /\ worker.at \in DOMAIN feed
           /\ worker' \in WorkerThread /\ worker'.pc = "scan" /\ worker'.id = worker.id
           /\ worker'.tx = worker.tx /\ worker'.ref = worker.ref /\ worker'.at = worker.at + 1
           /\ feed' \in Seq(Entry) /\ Len(feed') = Len(feed) /\ DOMAIN feed' = DOMAIN feed
           /\ \E c : Writes(c) /\ \A k \in DOMAIN feed :
                 /\ feed'[k].id = feed[k].id /\ feed'[k].kind = feed[k].kind
                 /\ IF k = worker.at /\ Matches(feed[k])
                    THEN feed'[k].tx = c.tx /\ feed'[k].state = c.state
                    ELSE feed'[k] = feed[k]
           /\ UNCHANGED <<main, queue, stop, silent, open, assetOf, links, link, history, store, accepted>>
<1>1. /\ worker.pc = "scan" /\ ~worker.torn /\ worker.at <= Len(feed)
      /\ worker' = [worker EXCEPT !.at = @ + 1]
      /\ UNCHANGED <<main, queue, stop, silent, open, assetOf, links, link, history, store, accepted>>
  BY DEF ScanEntry, pipe
<1>2. worker \in WorkerThread /\ feed \in Seq(Entry) /\ Len(feed) <= FeedMax
  BY DEF TypeInv, TypeOK
<1>3. worker.at \in 1..(FeedMax + 1) /\ worker.at \in DOMAIN feed /\ worker.at + 1 \in 1..(FeedMax + 1)
  BY <1>1, <1>2, BoundsAssumption DEF WorkerThread
<1>4. /\ worker' \in WorkerThread /\ worker'.pc = "scan" /\ worker'.id = worker.id
      /\ worker'.tx = worker.tx /\ worker'.ref = worker.ref /\ worker'.at = worker.at + 1
  BY <1>1, <1>2, <1>3 DEF WorkerThread
<1>5. PICK c \in Report(worker) :
          feed' = IF Matches(feed[worker.at])
                  THEN [feed EXCEPT ![worker.at].tx = c.tx, ![worker.at].state = c.state]
                  ELSE feed
  BY DEF ScanEntry
<1>6. Writes(c)
  BY ReportWrites
<1>7. /\ feed' \in Seq(Entry) /\ Len(feed') = Len(feed) /\ DOMAIN feed' = DOMAIN feed
      /\ \A k \in DOMAIN feed :
            /\ feed'[k].id = feed[k].id /\ feed'[k].kind = feed[k].kind
            /\ IF k = worker.at /\ Matches(feed[k])
               THEN feed'[k].tx = c.tx /\ feed'[k].state = c.state
               ELSE feed'[k] = feed[k]
  <2>1. CASE Matches(feed[worker.at])
    <3>1. c.tx \in Txs /\ c.state \in {"pending", "complete", "error", "unknown", "n/a"}
      BY <1>6 DEF Writes, Columns
    <3>2. feed' = [feed EXCEPT ![worker.at] = [feed[worker.at] EXCEPT !.tx = c.tx, !.state = c.state]]
      BY <1>5, <2>1
    <3>3. feed[worker.at] \in Entry
      BY <1>2, <1>3
    <3> DEFINE e == [feed[worker.at] EXCEPT !.tx = c.tx, !.state = c.state]
    <3>4. /\ e \in Entry /\ e.id = feed[worker.at].id /\ e.kind = feed[worker.at].kind
          /\ e.tx = c.tx /\ e.state = c.state
      BY <3>1, <3>3 DEF Entry
    <3>5. feed' = [feed EXCEPT ![worker.at] = e]
      BY <3>2
    <3> HIDE DEF e
    <3>6. feed' \in Seq(Entry) /\ Len(feed') = Len(feed) /\ DOMAIN feed' = DOMAIN feed
      BY <1>2, <1>3, <3>4, <3>5
    <3>7. \A k \in DOMAIN feed : feed'[k] = IF k = worker.at THEN e ELSE feed[k]
      BY <1>2, <1>3, <3>5
    <3> QED
      BY <2>1, <3>4, <3>6, <3>7
  <2>2. CASE ~Matches(feed[worker.at])
    BY <1>2, <1>5, <2>2
  <2> QED
    BY <2>1, <2>2
<1> QED
  BY <1>1, <1>3, <1>4, <1>6, <1>7

-----------------------------------------------------------------------------
(* Type correctness, and the keys the threads look up.                     *)

\* Empty queue, feed, history and store are within their bounds.
LEMMA NothingQueued ==
    /\ <<>> \in Seq({Pill} \cup Ids) /\ Len(<<>>) = 0 /\ 0 <= MaxQueue
    /\ <<>> \in Seq(Entry) /\ 0 <= FeedMax
    /\ <<>> \in Seq(Assets) /\ 0 <= MaxOpens
    /\ <<>> \in Seq(Row)
    /\ <<>> \in Seq(Closed) /\ 0 <= HistoryMax
BY BoundsAssumption

\* The types hold at the first start (main()).
LEMMA TypeInit ==
    ASSUME Init
    PROVE  TypeInv
<1>1. main \in MainThread /\ main.pc = "off" /\ worker \in WorkerThread /\ worker.pc = "dead"
  BY LoopFacts, IdleFacts DEF Init
<1>2. /\ queue = <<>> /\ stop = FALSE /\ silent = {} /\ feed = <<>> /\ history = <<>>
      /\ assetOf = <<>> /\ store = <<>> /\ accepted \in [Ids -> Nat]
      /\ IsDict(open, Assets, Ids) /\ IsDict(links, Assets, Ids) /\ IsDict(link, Ids, Columns)
      /\ DOMAIN open = {} /\ DOMAIN links = {}
  BY DEF Init, EmptyDict, IsDict
<1>3. TypeOK
  BY <1>1, <1>2, NothingQueued DEF TypeOK
<1>4. KeysExist
  BY <1>1, <1>2 DEF KeysExist, Opening, Busy, Running
<1> QED
  BY <1>3, <1>4 DEF TypeInv

\* The main thread's steps inside a trade keep them.
LEMMA TypeStepMain ==
    ASSUME TypeInv, (\E a \in Assets : Fill(a) \/ CloseTrade(a)) \/ MainSteps
    PROVE  TypeInv'
<1> USE DEF TypeInv, Opening, Busy, Running, Closing
<1>1. ASSUME NEW a \in Assets, Fill(a) PROVE TypeInv'
  <2>1. TypeOK'
    BY <1>1, FillEffect DEF TypeOK
  <2>2. KeysExist'
    BY <1>1, FillEffect DEF KeysExist
  <2> QED
    BY <2>1, <2>2
<1>2. ASSUME NEW a \in Assets, CloseTrade(a) PROVE TypeInv'
  <2>1. TypeOK'
    BY <1>2, CloseTradeEffect DEF TypeOK
  <2>2. KeysExist'
    BY <1>2, CloseTradeEffect DEF KeysExist
  <2> QED
    BY <2>1, <2>2
<1>3. CASE AppendRow
  <2>1. TypeOK'
    BY <1>3, AppendRowEffect DEF TypeOK
  <2>2. KeysExist'
    BY <1>3, AppendRowEffect DEF KeysExist
  <2> QED
    BY <2>1, <2>2
<1>4. CASE AppendRowRaises \/ Join \/ CloseHandles
  <2>1. TypeOK'
    BY <1>4, LeaveEffect DEF TypeOK
  <2>2. KeysExist'
    BY <1>4, LeaveEffect DEF KeysExist
  <2> QED
    BY <2>1, <2>2
<1>5. CASE RecordOpen
  <2>1. TypeOK'
    BY <1>5, RecordOpenEffect DEF TypeOK
  <2>2. KeysExist'
    BY <1>5, RecordOpenEffect DEF KeysExist
  <2> QED
    BY <2>1, <2>2
<1>6. CASE RecordDecision
  <2>1. TypeOK'
    BY <1>6, RecordDecisionEffect DEF TypeOK, FeedGains, WorkerKeeps
  <2>2. KeysExist'
    BY <1>6, RecordDecisionEffect DEF KeysExist, WorkerKeeps
  <2> QED
    BY <2>1, <2>2
<1>7. CASE Submit
  <2>1. main' \in MainThread /\ main'.pc = "run"
    BY <1>7, SubmitEffect, LoopFacts
  <2>2. TypeOK'
    BY <1>7, <2>1, SubmitEffect DEF TypeOK
  <2>3. KeysExist'
    BY <1>7, <2>1, SubmitEffect DEF KeysExist
  <2> QED
    BY <2>2, <2>3
<1>8. CASE RecordHistory
  <2>1. TypeOK'
    BY <1>8, RecordHistoryEffect DEF TypeOK
  <2>2. KeysExist'
    BY <1>8, RecordHistoryEffect DEF KeysExist
  <2> QED
    BY <2>1, <2>2
<1>9. CASE RecordCloseEntry
  <2>1. main' \in MainThread /\ main'.pc = "run"
    BY <1>9, RecordCloseEntryEffect, LoopFacts
  <2>2. TypeOK'
    BY <1>9, <2>1, RecordCloseEntryEffect DEF TypeOK, FeedGains, WorkerKeeps
  <2>3. KeysExist'
    BY <1>9, <2>1, RecordCloseEntryEffect DEF KeysExist, WorkerKeeps
  <2> QED
    BY <2>2, <2>3
<1>10. CASE CloseWorker
  <2>1. TypeOK'
    BY <1>10, CloseWorkerEffect DEF TypeOK
  <2>2. KeysExist'
    BY <1>10, CloseWorkerEffect DEF KeysExist
  <2> QED
    BY <2>1, <2>2
<1> QED
  BY <1>1, <1>2, <1>3, <1>4, <1>5, <1>6, <1>7, <1>8, <1>9, <1>10 DEF MainSteps

\* So do its steps between two runs (main(), hydrate_from_audit_store()).
LEMMA TypeStepRun ==
    ASSUME TypeInv, Interrupt \/ End \/ Start \/ HydrateRow \/ EnterLoop
    PROVE  TypeInv'
<1> USE DEF TypeInv, Opening, Busy, Running, Closing
<1>1. CASE Interrupt
  <2>1. TypeOK'
    BY <1>1, LeaveEffect DEF TypeOK
  <2>2. KeysExist'
    BY <1>1, LeaveEffect DEF KeysExist
  <2> QED
    BY <2>1, <2>2
<1>2. CASE End
  <2>1. main' \in MainThread /\ main'.pc = "off" /\ worker' \in WorkerThread /\ worker'.pc = "dead"
    BY <1>2, EndEffect, LoopFacts, IdleFacts
  <2>2. TypeOK'
    BY <1>2, <2>1, EndEffect, NothingQueued DEF TypeOK
  <2>3. KeysExist'
    BY <1>2, <2>1, EndEffect DEF KeysExist
  <2> QED
    BY <2>2, <2>3
<1>3. CASE Start
  <2>1. TypeOK'
    BY <1>3, StartEffect DEF TypeOK
  <2>2. KeysExist'
    BY <1>3, StartEffect DEF KeysExist
  <2> QED
    BY <2>1, <2>2
<1>4. CASE HydrateRow
  <2>1. TypeOK'
    BY <1>4, HydrateRowEffect DEF TypeOK, FeedGains
  <2>2. KeysExist'
    BY <1>4, HydrateRowEffect DEF KeysExist
  <2> QED
    BY <2>1, <2>2
<1>5. CASE EnterLoop
  <2>1. main' \in MainThread /\ main'.pc = "run" /\ worker' \in WorkerThread /\ worker'.pc = "test"
    BY <1>5, EnterLoopEffect, LoopFacts, IdleFacts
  <2>2. TypeOK'
    BY <1>5, <2>1, EnterLoopEffect DEF TypeOK
  <2>3. KeysExist'
    BY <1>5, <2>1, EnterLoopEffect DEF KeysExist
  <2> QED
    BY <2>2, <2>3
<1> QED
  BY <1>1, <1>2, <1>3, <1>4, <1>5

\* So do the worker's (_run, _anchor_one).
LEMMA TypeStepWorker ==
    ASSUME TypeInv, WorkerSteps
    PROVE  TypeInv'
<1> USE DEF TypeInv, Busy
<1>1. CASE TestStop \/ GetNothing
  <2>1. TypeOK'
    BY <1>1, WaitEffect DEF TypeOK
  <2>2. KeysExist'
    BY <1>1, WaitEffect DEF KeysExist
  <2> QED
    BY <2>1, <2>2
<1>2. CASE GetPill \/ GetRecord
  <2>1. queue' \in Seq({Pill} \cup Ids) /\ Len(queue') <= MaxQueue
    <3>1. queue # <<>> /\ queue' = Tail(queue)
      BY <1>2, GetPillEffect, GetRecordEffect
    <3> QED
      BY <3>1, BoundsAssumption DEF TypeOK
  <2>2. TypeOK'
    BY <1>2, <2>1, GetPillEffect, GetRecordEffect DEF TypeOK
  <2>3. KeysExist'
    BY <1>2, GetPillEffect, GetRecordEffect DEF KeysExist
  <2> QED
    BY <2>2, <2>3
<1>3. CASE PostAccepted \/ PostAnswerLost
  <2>1. TypeOK'
    BY <1>3, PostTakenEffect DEF TypeOK
  <2>2. KeysExist'
    BY <1>3, PostTakenEffect DEF KeysExist, SameRecord
  <2> QED
    BY <2>1, <2>2
<1>4. CASE PostRefused \/ PollRaises \/ AppendAnchoredRaises
  <2>1. TypeOK'
    BY <1>4, FailsEffect DEF TypeOK
  <2>2. KeysExist'
    BY <1>4, FailsEffect DEF KeysExist, SameRecord
  <2> QED
    BY <2>1, <2>2
<1>5. CASE PollReturns
  <2>1. TypeOK'
    BY <1>5, PollReturnsEffect DEF TypeOK
  <2>2. KeysExist'
    BY <1>5, PollReturnsEffect DEF KeysExist
  <2> QED
    BY <2>1, <2>2
<1>6. CASE AppendAnchored
  <2>1. TypeOK'
    BY <1>6, AppendAnchoredEffect DEF TypeOK
  <2>2. KeysExist'
    BY <1>6, AppendAnchoredEffect DEF KeysExist, SameRecord
  <2> QED
    BY <2>1, <2>2
<1>7. CASE Callback
  <2>1. worker' \in WorkerThread /\ worker'.pc \in Busy => worker'.id \in Ids
    BY <1>7, CallbackEffect, IdleFacts
  <2>2. worker' \in WorkerThread
    BY <1>7, CallbackEffect, IdleFacts
  <2>3. silent' \subseteq Ids
    BY <1>7, CallbackEffect DEF TypeOK
  <2>4. TypeOK'
    BY <1>7, <2>2, <2>3, CallbackEffect DEF TypeOK
  <2>5. KeysExist'
    BY <1>7, <2>1, <2>2, CallbackEffect DEF KeysExist
  <2> QED
    BY <2>4, <2>5
<1>8. CASE PatchLink
  <2>1. TypeOK'
    BY <1>8, PatchLinkEffect DEF TypeOK
  <2>2. KeysExist'
    BY <1>8, PatchLinkEffect DEF KeysExist, SameRecord
  <2> QED
    BY <2>1, <2>2
<1>9. CASE ScanRaises \/ ScanEnds
  <2>1. worker' \in WorkerThread /\ worker'.pc = "test"
    BY <1>9, DoneEffect, IdleFacts
  <2>2. silent' \subseteq Ids
    BY <1>9, DoneEffect DEF TypeOK
  <2>3. TypeOK'
    BY <1>9, <2>1, <2>2, DoneEffect DEF TypeOK
  <2>4. KeysExist'
    BY <1>9, <2>1, DoneEffect DEF KeysExist
  <2> QED
    BY <2>3, <2>4
<1>10. CASE ScanEntry
  <2>1. TypeOK'
    BY <1>10, ScanEntryEffect DEF TypeOK
  <2>2. KeysExist'
    BY <1>10, ScanEntryEffect DEF KeysExist
  <2> QED
    BY <2>1, <2>2
<1> QED
  BY <1>1, <1>2, <1>3, <1>4, <1>5, <1>6, <1>7, <1>8, <1>9, <1>10 DEF WorkerSteps

\* A step that changes nothing.
LEMMA TypeStutter ==
    ASSUME TypeInv, UNCHANGED vars
    PROVE  TypeInv'
BY DEF TypeInv, TypeOK, KeysExist, vars

\* The threads and the data they share keep their types, and no thread ever
\* looks up a key that is not there (a KeyError in _close_one or _on_anchor_complete).
THEOREM TypeInvariant == Spec => []TypeInv
<1>1. TypeInv /\ [Next]_vars => TypeInv'
  BY TypeStepMain, TypeStepRun, TypeStepWorker, TypeStutter DEF Next
<1> QED
  BY <1>1, TypeInit, PTL DEF Spec

\* Type correctness of the pipeline, over every order of its threads, crash
\* and restart (main(), anchor_worker.py, snapshot.py).
THEOREM TypeCorrect == Spec => []TypeOK
<1>1. TypeInv => TypeOK
  BY DEF TypeInv
<1> QED
  BY <1>1, TypeInvariant, PTL

-----------------------------------------------------------------------------
(* The way of a record to Circle.                                          *)

\* A record on its way there: made, persisted, and not sent yet.
Unsent(i) == i \in DOMAIN assetOf /\ i \in Stored /\ accepted[i] = 0

\* Whatever was sent was persisted, and once only; the record main has in its
\* hands, those in the queue and the one the worker is about to post are unsent,
\* and no two of them are the same.
SentOnce ==
    \A i \in Ids : accepted[i] <= 1 /\ (accepted[i] > 0 => i \in Stored /\ i \in DOMAIN assetOf)
MainUnsent ==
    /\ main.pc \in Opening => accepted[main.id] = 0
    /\ main.pc \in Opening \ {"append"} => Unsent(main.id)
WorkerUnsent ==
    worker.pc = "post" =>
        /\ Unsent(worker.id)
        /\ main.pc \in Opening => main.id # worker.id
QueueUnsent ==
    \A j \in DOMAIN queue : queue[j] # Pill =>
        /\ Unsent(queue[j])
        /\ main.pc \in Opening => queue[j] # main.id
        /\ worker.pc = "post" => queue[j] # worker.id
        /\ \A k \in DOMAIN queue : queue[k] = queue[j] => j = k
Trail == SentOnce /\ MainUnsent /\ WorkerUnsent /\ QueueUnsent

\* No record is under way at the first start.
LEMMA TrailInit ==
    ASSUME Init
    PROVE  Trail
<1>1. main.pc = "off" /\ worker.pc = "dead" /\ queue = <<>> /\ \A i \in Ids : accepted[i] = 0
  BY LoopFacts, IdleFacts DEF Init
<1> QED
  BY <1>1 DEF Trail, SentOnce, MainUnsent, WorkerUnsent, QueueUnsent, Opening

\* A new row adds its record to those stored.
LEMMA StoredGrows ==
    ASSUME TypeInv, NEW r \in Row, store' \in Seq(Row),
           DOMAIN store' = DOMAIN store \cup {Len(store) + 1},
           \A k \in DOMAIN store : store'[k] = store[k],
           store'[Len(store) + 1] = r
    PROVE  Stored \subseteq Stored' /\ r.id \in Stored'
BY DEF Stored

\* The elements of a queue after a put and after a get.
LEMMA QueuePut ==
    ASSUME NEW S, NEW q \in Seq(S), NEW x \in S
    PROVE  /\ DOMAIN Append(q, x) = DOMAIN q \cup {Len(q) + 1}
           /\ Append(q, x)[Len(q) + 1] = x
           /\ \A j \in DOMAIN q : j # Len(q) + 1 /\ Append(q, x)[j] = q[j]
OBVIOUS
\* What is left in a queue after get() was in it.
LEMMA QueueGot ==
    ASSUME NEW S, NEW q \in Seq(S), q # <<>>
    PROVE  /\ 1 \in DOMAIN q
           /\ \A j \in DOMAIN Tail(q) : j + 1 \in DOMAIN q /\ j + 1 # 1 /\ Tail(q)[j] = q[j + 1]
           /\ \A j, k \in DOMAIN Tail(q) : j + 1 = k + 1 => j = k
           /\ \A j \in DOMAIN q : j # 1 => j - 1 \in DOMAIN Tail(q) /\ Tail(q)[j - 1] = q[j]
OBVIOUS

\* Every step keeps the trail of the records.
LEMMA TrailStep ==
    ASSUME TypeInv, Trail, Next
    PROVE  Trail'
<1> USE DEF Trail, SentOnce, MainUnsent, WorkerUnsent, QueueUnsent, Unsent, Opening
<1>0. /\ accepted \in [Ids -> Nat] /\ assetOf \in Seq(Assets) /\ Len(assetOf) <= MaxOpens
      /\ queue \in Seq({Pill} \cup Ids) /\ main \in MainThread /\ worker \in WorkerThread
      /\ store \in Seq(Row)
  BY DEF TypeInv, TypeOK
<1>1. ASSUME NEW a \in Assets, Fill(a) PROVE Trail'
  <2>1. NextId \in Ids /\ store' = store /\ accepted' = accepted /\ queue' = queue /\ worker' = worker
    BY <1>1, FillEffect
  <2>2. NextId \notin DOMAIN assetOf /\ accepted[NextId] = 0
    <3>1. NextId \notin DOMAIN assetOf
      BY <1>0 DEF NextId
    <3> QED
      BY <1>0, <2>1, <3>1
  <2>3. Stored' = Stored
    BY <2>1 DEF Stored
  <2>4. main'.pc = "append" /\ main'.id = NextId /\ DOMAIN assetOf' = DOMAIN assetOf \cup {NextId}
    BY <1>1, FillEffect
  <2> QED
    BY <2>1, <2>2, <2>3, <2>4
<1>2. ASSUME NEW a \in Assets, CloseTrade(a) PROVE Trail'
  <2>1. /\ main'.pc = "history" /\ store' = store
        /\ UNCHANGED <<worker, queue, assetOf, accepted>>
    BY <1>2, CloseTradeEffect
  <2>2. Stored' = Stored
    BY <2>1 DEF Stored
  <2> QED
    BY <2>1, <2>2
<1>3. CASE AppendRow
  <2>1. [id |-> main.id, tx |-> NoTx] \in Row
    BY <1>3, AppendRowEffect DEF Row, Txs
  <2>2. Stored \subseteq Stored' /\ main.id \in Stored'
    BY <1>3, <2>1, AppendRowEffect, StoredGrows
  <2>3. main.id \in DOMAIN assetOf
    BY <1>3, AppendRowEffect DEF TypeInv, KeysExist
  <2> QED
    BY <1>3, <2>2, <2>3, AppendRowEffect
<1>4. CASE AppendRowRaises \/ Interrupt \/ Join \/ CloseHandles
  <2>1. Stored' = Stored /\ main'.pc \notin Opening
    BY <1>4, LeaveEffect DEF Stored, Closing
  <2> QED
    BY <1>4, <2>1, LeaveEffect
<1>5. CASE RecordOpen
  <2>1. Stored' = Stored
    BY <1>5, RecordOpenEffect DEF Stored
  <2> QED
    BY <1>5, <2>1, RecordOpenEffect
<1>6. CASE RecordDecision
  <2>1. Stored' = Stored
    BY <1>6, RecordDecisionEffect DEF Stored
  <2> QED
    BY <1>6, <2>1, RecordDecisionEffect DEF WorkerKeeps
<1>7. CASE Submit
  <2>1. /\ Stored' = Stored /\ accepted' = accepted /\ assetOf' = assetOf /\ worker' = worker
        /\ main.pc = "submit" /\ main.id \in Ids /\ main'.pc = "run"
    BY <1>7, SubmitEffect, LoopFacts DEF Stored
  <2>2. CASE queue' = queue
    BY <2>1, <2>2
  <2>3. CASE queue' = Append(queue, main.id)
    <3>1. main.id \in {Pill} \cup Ids /\ main.id # Pill
      BY <2>1 DEF Pill, Ids
    <3>2. /\ DOMAIN queue' = DOMAIN queue \cup {Len(queue) + 1}
          /\ queue'[Len(queue) + 1] = main.id
          /\ \A j \in DOMAIN queue : j # Len(queue) + 1 /\ queue'[j] = queue[j]
      BY <1>0, <2>3, <3>1, QueuePut
    <3> QED
      BY <2>1, <3>1, <3>2
  <2> QED
    BY <1>7, <2>2, <2>3, SubmitEffect
<1>8. CASE RecordHistory
  BY <1>8, RecordHistoryEffect DEF Stored
<1>9. CASE RecordCloseEntry
  <2>1. Stored' = Stored /\ main'.pc = "run"
    BY <1>9, RecordCloseEntryEffect, LoopFacts DEF Stored
  <2> QED
    BY <1>9, <2>1, RecordCloseEntryEffect DEF WorkerKeeps
<1>10. CASE CloseWorker
  <2>1. /\ Stored' = Stored /\ accepted' = accepted /\ assetOf' = assetOf /\ worker' = worker
        /\ main'.pc = "join"
    BY <1>10, CloseWorkerEffect DEF Stored
  <2>2. CASE queue' = queue
    BY <2>1, <2>2
  <2>3. CASE queue' = Append(queue, Pill)
    <3>1. /\ DOMAIN queue' = DOMAIN queue \cup {Len(queue) + 1}
          /\ queue'[Len(queue) + 1] = Pill
          /\ \A j \in DOMAIN queue : j # Len(queue) + 1 /\ queue'[j] = queue[j]
      BY <1>0, <2>3, QueuePut
    <3> QED
      BY <2>1, <3>1
  <2> QED
    BY <1>10, <2>2, <2>3, CloseWorkerEffect
<1>11. CASE End
  <2>1. Stored' = Stored /\ main'.pc = "off" /\ worker'.pc = "dead" /\ queue' = <<>>
    BY <1>11, EndEffect, LoopFacts, IdleFacts DEF Stored
  <2> QED
    BY <1>11, <2>1, EndEffect
<1>12. CASE Start
  BY <1>12, StartEffect DEF Stored
<1>13. CASE HydrateRow
  BY <1>13, HydrateRowEffect DEF Stored
<1>14. CASE EnterLoop
  <2>1. Stored' = Stored /\ main'.pc = "run" /\ worker'.pc = "test"
    BY <1>14, EnterLoopEffect, LoopFacts, IdleFacts DEF Stored
  <2> QED
    BY <1>14, <2>1, EnterLoopEffect
<1>15. CASE TestStop \/ GetNothing
  BY <1>15, WaitEffect DEF Stored
<1>16. CASE GetPill \/ GetRecord
  <2>0. /\ store' = store /\ accepted' = accepted /\ assetOf' = assetOf /\ main' = main
        /\ queue # <<>> /\ queue' = Tail(queue)
    BY <1>16, GetPillEffect, GetRecordEffect
  <2>1. /\ Stored' = Stored /\ accepted' = accepted /\ assetOf' = assetOf /\ main' = main
        /\ queue # <<>> /\ queue' = Tail(queue)
    BY <2>0 DEF Stored
  <2>2. /\ 1 \in DOMAIN queue
        /\ \A j \in DOMAIN queue' : j + 1 \in DOMAIN queue /\ j + 1 # 1 /\ queue'[j] = queue[j + 1]
        /\ \A j, k \in DOMAIN queue' : j + 1 = k + 1 => j = k
    BY <1>0, <2>1, QueueGot
  <2>3. CASE GetPill
    BY <2>1, <2>2, <2>3, GetPillEffect
  <2>4. CASE GetRecord
    <3>1. worker'.pc = "post" /\ worker'.id = queue[1] /\ queue[1] # Pill
      BY <2>4, GetRecordEffect DEF Pill, Ids
    <3> QED
      BY <2>1, <2>2, <3>1
  <2> QED
    BY <1>16, <2>3, <2>4
<1>17. CASE PostAccepted \/ PostAnswerLost
  <2>1. /\ worker.pc = "post" /\ worker.id \in Ids /\ worker'.pc # "post"
        /\ accepted' \in [Ids -> Nat] /\ accepted'[worker.id] = accepted[worker.id] + 1
        /\ \A i \in Ids : i # worker.id => accepted'[i] = accepted[i]
        /\ main' = main /\ queue' = queue /\ assetOf' = assetOf /\ Stored' = Stored
    BY <1>17, PostTakenEffect DEF Stored
  <2>2. accepted[worker.id] = 0 /\ Unsent(worker.id)
    BY <2>1
  <2>3. SentOnce'
    BY <1>0, <2>1, <2>2
  <2>4. DOMAIN assetOf \subseteq Ids
    BY <1>0, BoundsAssumption DEF Ids
  <2>5. MainUnsent'
    <3>1. main.pc \in Opening => main.id \in Ids
      BY <2>4 DEF TypeInv, KeysExist
    <3> QED
      BY <2>1, <3>1
  <2>6. WorkerUnsent'
    BY <2>1
  <2>7. QueueUnsent'
    BY <2>1, <2>4
  <2> QED
    BY <2>3, <2>5, <2>6, <2>7
<1>18. CASE PostRefused \/ PollRaises \/ AppendAnchoredRaises
  BY <1>18, FailsEffect DEF Stored
<1>19. CASE PollReturns
  BY <1>19, PollReturnsEffect DEF Stored
<1>20. CASE AppendAnchored
  <2>1. [id |-> worker.id, tx |-> worker.tx] \in Row
    BY <1>0, <1>20, AppendAnchoredEffect DEF Row, WorkerThread
  <2>2. Stored \subseteq Stored'
    BY <1>20, <2>1, AppendAnchoredEffect, StoredGrows
  <2> QED
    BY <1>20, <2>2, AppendAnchoredEffect
<1>21. CASE Callback
  <2>1. Stored' = Stored /\ worker'.pc # "post"
    BY <1>21, CallbackEffect, IdleFacts DEF Stored
  <2> QED
    BY <1>21, <2>1, CallbackEffect
<1>22. CASE PatchLink
  BY <1>22, PatchLinkEffect DEF Stored
<1>23. CASE ScanRaises \/ ScanEnds
  <2>1. Stored' = Stored /\ worker'.pc # "post"
    BY <1>23, DoneEffect, IdleFacts DEF Stored
  <2> QED
    BY <1>23, <2>1, DoneEffect
<1>24. CASE ScanEntry
  BY <1>24, ScanEntryEffect DEF Stored
<1> QED
  BY <1>1, <1>2, <1>3, <1>4, <1>5, <1>6, <1>7, <1>8, <1>9, <1>10, <1>11, <1>12, <1>13, <1>14, <1>15,
     <1>16, <1>17, <1>18, <1>19, <1>20, <1>21, <1>22, <1>23, <1>24 DEF Next, MainSteps, WorkerSteps

\* The trail holds throughout, over crashes and restarts.
LEMMA TrailInvariant == Spec => []Trail
<1>1. TypeInv /\ Trail /\ [Next]_vars => Trail'
  <2>1. CASE Next
    BY <2>1, TrailStep
  <2>2. CASE UNCHANGED vars
    BY <2>2 DEF Trail, SentOnce, MainUnsent, WorkerUnsent, QueueUnsent, Unsent, Stored, vars
  <2> QED
    BY <2>1, <2>2
<1> QED
  BY <1>1, TrailInit, TypeInvariant, PTL DEF Spec

\* Circle takes at most one request per record, over lost answers, shutdowns,
\* crashes and restarts, for every queue, feed and number of trades.
THEOREM AnchoredOnceHolds == Spec => []AnchoredOnce
<1>1. Trail => AnchoredOnce
  BY DEF Trail, SentOnce, AnchoredOnce
<1> QED
  BY <1>1, TrailInvariant, PTL

\* No record is on chain before a row of it is in the store.
THEOREM RowBeforeAnchorHolds == Spec => []RowBeforeAnchor
<1>1. Trail => RowBeforeAnchor
  BY DEF Trail, SentOnce, RowBeforeAnchor
<1> QED
  BY <1>1, TrailInvariant, PTL

-----------------------------------------------------------------------------
(* What the dashboard and the store show.                                  *)

\* tx is what may stand for record i: nothing, or its own transaction, which
\* Circle took.  An entry says "complete" just when it has one.
Good(tx, i) == tx = NoTx \/ (tx = i /\ accepted[i] > 0)
SaysSo(e) == e.state = "complete" <=> e.tx # NoTx

\* So it is wherever a transaction is kept, the worker's own variables included,
\* and the link the worker is about to write is that of its record.
LinkShown == \A i \in DOMAIN link : Good(link[i].tx, i) /\ SaysSo(link[i])
FeedShown ==
    \A k \in DOMAIN feed :
        Good(feed[k].tx, feed[k].id) /\ (feed[k].kind = "open" => SaysSo(feed[k]))
HistoryShown == \A k \in DOMAIN history : Good(history[k].tx, history[k].id)
StoreShown == \A k \in DOMAIN store : Good(store[k].tx, store[k].id)
WorkerShown ==
    /\ worker.pc \in Busy => Good(worker.tx, worker.id) /\ worker.ref \in {NoId, worker.id}
    /\ worker.pc \in {"poll", "append"} => accepted[worker.id] > 0
Shown == LinkShown /\ FeedShown /\ HistoryShown /\ StoreShown /\ WorkerShown

\* Circle forgets nothing.
LEMMA TakenStays ==
    ASSUME TypeInv, Next
    PROVE  \A i \in Ids : accepted[i] > 0 => accepted'[i] > 0
<1>1. accepted \in [Ids -> Nat]
  BY DEF TypeInv, TypeOK
<1>2. \A i \in Ids : accepted'[i] = accepted[i] \/ accepted'[i] = accepted[i] + 1
  <2>1. CASE PostAccepted \/ PostAnswerLost
    <3>1. /\ worker.id \in Ids /\ accepted'[worker.id] = accepted[worker.id] + 1
          /\ \A i \in Ids : i # worker.id => accepted'[i] = accepted[i]
      BY <2>1, PostTakenEffect
    <3> QED
      BY <1>1, <3>1
  <2>2. CASE ~(PostAccepted \/ PostAnswerLost)
    <3>1. accepted' = accepted
      BY <2>2 DEF Next, MainSteps, WorkerSteps, Fill, CloseTrade, AppendRow, AppendRowRaises, RecordOpen,
         RecordDecision, Submit, RecordHistory, RecordCloseEntry, CloseWorker, Join, CloseHandles,
         TestStop, GetNothing, GetPill, GetRecord, PostRefused, PollReturns, PollRaises, AppendAnchored,
         AppendAnchoredRaises, Callback, PatchLink, ScanRaises, ScanEntry, ScanEnds,
         Interrupt, End, Start, HydrateRow, EnterLoop
    <3> QED
      BY <1>1, <3>1
  <2> QED
    BY <2>1, <2>2
<1> QED
  BY <1>1, <1>2

\* Nothing is shown at the first start.
LEMMA ShownInit ==
    ASSUME Init
    PROVE  Shown
<1>1. worker.pc = "dead"
  BY IdleFacts DEF Init
<1>2. DOMAIN link = {} /\ feed = <<>> /\ history = <<>> /\ store = <<>>
  BY DEF Init, EmptyDict
<1> QED
  BY <1>1, <1>2 DEF Shown, LinkShown, FeedShown, HistoryShown, StoreShown, WorkerShown, Busy

\* Feed entries and stored rows carry ids of records.
LEMMA EntryIds ==
    ASSUME TypeInv
    PROVE  /\ \A k \in DOMAIN feed : feed[k].id \in Ids
           /\ \A k \in DOMAIN store : store[k].id \in Ids
<1>1. feed \in Seq(Entry) /\ store \in Seq(Row)
  BY DEF TypeInv, TypeOK
<1>2. \A e \in Entry : e.id \in Ids
  BY DEF Entry
<1>3. \A r \in Row : r.id \in Ids
  BY DEF Row
<1>4. \A k \in DOMAIN feed : feed[k] \in Entry
  BY <1>1
<1>5. \A k \in DOMAIN store : store[k] \in Row
  BY <1>1
<1> QED
  BY <1>2, <1>3, <1>4, <1>5

\* Each place keeps what it shows while nothing is written there.
LEMMA FramesStay ==
    ASSUME TypeInv, Shown, Next
    PROVE  /\ link' = link => LinkShown'
           /\ feed' = feed => FeedShown'
           /\ history' = history => HistoryShown'
           /\ store' = store => StoreShown'
           /\ worker'.pc = worker.pc /\ SameRecord => WorkerShown'
<1>1. \A i \in Ids : accepted[i] > 0 => accepted'[i] > 0
  BY TakenStays
<1>2. link' = link => LinkShown'
  <2>1. DOMAIN link \subseteq Ids
    BY DEF TypeInv, TypeOK, IsDict
  <2> QED
    BY <1>1, <2>1 DEF Shown, LinkShown, SaysSo, Good
<1>3. feed' = feed => FeedShown'
  <2>1. \A k \in DOMAIN feed : feed[k].id \in Ids
    BY EntryIds
  <2> QED
    BY <1>1, <2>1 DEF Shown, FeedShown, SaysSo, Good
<1>4. history' = history => HistoryShown'
  <2>1. \A k \in DOMAIN history : history[k].id \in Ids
    <3>1. history \in Seq(Closed)
      BY DEF TypeInv, TypeOK
    <3>2. \A k \in DOMAIN history : history[k] \in Closed
      BY <3>1
    <3> QED
      BY <3>2 DEF Closed
  <2> QED
    BY <1>1, <2>1 DEF Shown, HistoryShown, Good
<1>5. store' = store => StoreShown'
  <2>1. \A k \in DOMAIN store : store[k].id \in Ids
    BY EntryIds
  <2> QED
    BY <1>1, <2>1 DEF Shown, StoreShown, Good
<1>6. worker'.pc = worker.pc /\ SameRecord => WorkerShown'
  <2>1. worker.pc \in Busy => worker.id \in Ids
    BY DEF TypeInv, KeysExist
  <2> QED
    BY <1>1, <2>1 DEF Shown, WorkerShown, Good, SameRecord, Busy
<1> QED
  BY <1>2, <1>3, <1>4, <1>5, <1>6

\* An entry that shows nothing wrong may be posted.
LEMMA PostedShown ==
    ASSUME TypeInv, Shown, Next, NEW e \in Entry, FeedGains(e),
           Good(e.tx, e.id), e.kind = "open" => SaysSo(e)
    PROVE  FeedShown'
<1>1. \A i \in Ids : accepted[i] > 0 => accepted'[i] > 0
  BY TakenStays
<1>2. \A k \in DOMAIN feed : feed[k].id \in Ids
  BY EntryIds
<1>3. e.id \in Ids
  BY DEF Entry
<1>4. \A k \in DOMAIN feed' : feed'[k] = e \/ \E j \in DOMAIN feed : feed'[k] = feed[j]
  BY DEF FeedGains
<1> QED
  BY <1>1, <1>2, <1>3, <1>4 DEF Shown, FeedShown, SaysSo, Good

\* The main thread's steps inside a trade keep what is shown right.
LEMMA ShownStepMain ==
    ASSUME TypeInv, Shown, Next, (\E a \in Assets : Fill(a) \/ CloseTrade(a)) \/ MainSteps
    PROVE  Shown'
<1> USE DEF Shown
<1>1. ASSUME NEW a \in Assets, Fill(a) PROVE Shown'
  <2>1. UNCHANGED <<worker, link, feed, history, store>>
    BY <1>1, FillEffect
  <2> QED
    BY <2>1, FramesStay DEF SameRecord
<1>2. ASSUME NEW a \in Assets, CloseTrade(a) PROVE Shown'
  <2>1. UNCHANGED <<worker, link, feed, history, store>>
    BY <1>2, CloseTradeEffect
  <2> QED
    BY <2>1, FramesStay DEF SameRecord
<1>3. CASE AppendRow
  <2>1. /\ DOMAIN store' = DOMAIN store \cup {Len(store) + 1}
        /\ \A k \in DOMAIN store : store'[k] = store[k]
        /\ store'[Len(store) + 1] = [id |-> main.id, tx |-> NoTx]
        /\ UNCHANGED <<worker, link, feed, history, accepted>>
    BY <1>3, AppendRowEffect
  <2>2. StoreShown'
    BY <2>1 DEF StoreShown, Good
  <2> QED
    BY <2>1, <2>2, FramesStay DEF SameRecord
<1>4. CASE AppendRowRaises \/ Join \/ CloseHandles \/ Submit \/ CloseWorker
  <2>1. UNCHANGED <<worker, link, feed, history, store>>
    BY <1>4, LeaveEffect, SubmitEffect, CloseWorkerEffect
  <2> QED
    BY <2>1, FramesStay DEF SameRecord
<1>5. CASE RecordOpen
  <2>1. /\ DOMAIN link' = DOMAIN link \cup {main.id}
        /\ \A i \in DOMAIN link' :
              link'[i] = IF i = main.id THEN [tx |-> NoTx, state |-> "pending"] ELSE link[i]
        /\ UNCHANGED <<worker, feed, history, store, accepted>>
    BY <1>5, RecordOpenEffect
  <2>2. LinkShown'
    BY <2>1 DEF LinkShown, SaysSo, Good
  <2> QED
    BY <2>1, <2>2, FramesStay DEF SameRecord
<1>6. CASE RecordDecision
  <2> DEFINE e == [id |-> main.id, kind |-> "open", tx |-> NoTx, state |-> "pending"]
  <2>1. main.id \in Ids /\ FeedGains(e) /\ WorkerKeeps /\ UNCHANGED <<link, history, store>>
    BY <1>6, RecordDecisionEffect
  <2>2. e \in Entry /\ Good(e.tx, e.id) /\ SaysSo(e)
    BY <2>1 DEF Entry, Txs, Good, SaysSo
  <2> HIDE DEF e
  <2>3. FeedShown'
    BY <2>1, <2>2, PostedShown
  <2>4. WorkerShown'
    BY <2>1, FramesStay DEF WorkerKeeps, SameRecord
  <2> QED
    BY <2>1, <2>3, <2>4, FramesStay
<1>7. CASE RecordHistory
  <2>1. /\ main.id \in DOMAIN link
        /\ \A k \in DOMAIN history' :
              \/ history'[k] = [id |-> main.id, tx |-> link[main.id].tx]
              \/ k - 1 \in DOMAIN history /\ history'[k] = history[k - 1]
        /\ UNCHANGED <<worker, link, feed, store, accepted>>
    BY <1>7, RecordHistoryEffect
  <2>2. HistoryShown'
    BY <2>1 DEF HistoryShown, LinkShown, Good
  <2> QED
    BY <2>1, <2>2, FramesStay DEF SameRecord
<1>8. CASE RecordCloseEntry
  <2> DEFINE e == [id |-> main.id, kind |-> "close", tx |-> link[main.id].tx, state |-> "n/a"]
  <2>1. /\ main.pc = "closed" /\ main.id \in DOMAIN link
        /\ FeedGains(e) /\ WorkerKeeps /\ UNCHANGED <<link, history, store>>
    BY <1>8, RecordCloseEntryEffect
  <2>2. main.id \in Ids /\ link[main.id].tx \in Txs
    BY <2>1, LinkColumns
  <2>3. Good(link[main.id].tx, main.id)
    BY <2>1 DEF LinkShown
  <2>4. e \in Entry /\ e.tx = link[main.id].tx /\ e.id = main.id /\ e.kind = "close"
    BY <2>2 DEF Entry
  <2> HIDE DEF e
  <2>5. FeedShown'
    BY <2>1, <2>3, <2>4, PostedShown
  <2>6. WorkerShown'
    BY <2>1, FramesStay DEF WorkerKeeps, SameRecord
  <2> QED
    BY <2>1, <2>5, <2>6, FramesStay
<1> QED
  BY <1>1, <1>2, <1>3, <1>4, <1>5, <1>6, <1>7, <1>8 DEF MainSteps

\* So do its steps between two runs.
LEMMA ShownStepRun ==
    ASSUME TypeInv, Shown, Next, Interrupt \/ End \/ Start \/ HydrateRow \/ EnterLoop
    PROVE  Shown'
<1> USE DEF Shown
<1>1. CASE Interrupt \/ Start
  <2>1. UNCHANGED <<worker, link, feed, history, store>>
    BY <1>1, LeaveEffect, StartEffect
  <2> QED
    BY <2>1, FramesStay DEF SameRecord
<1>2. CASE End
  <2>1. /\ DOMAIN link' = {} /\ feed' = <<>> /\ history' = <<>> /\ store' = store
        /\ worker'.pc = "dead"
    BY <1>2, EndEffect, IdleFacts
  <2>2. StoreShown'
    BY <2>1, FramesStay
  <2> QED
    BY <2>1, <2>2 DEF LinkShown, FeedShown, HistoryShown, WorkerShown, Busy
<1>3. CASE HydrateRow
  <2>1. /\ feed' = feed \/ \E k \in DOMAIN store : FeedGains(Hydrated(store[k]))
        /\ UNCHANGED <<worker, link, history, store>>
    BY <1>3, HydrateRowEffect
  <2>2. ASSUME NEW k \in DOMAIN store, FeedGains(Hydrated(store[k])) PROVE FeedShown'
    <3>1. store[k] \in Row /\ Good(store[k].tx, store[k].id)
      BY DEF TypeInv, TypeOK, StoreShown
    <3>2. /\ Hydrated(store[k]) \in Entry
          /\ Hydrated(store[k]).tx = store[k].tx /\ Hydrated(store[k]).id = store[k].id
          /\ SaysSo(Hydrated(store[k]))
      BY <3>1 DEF Hydrated, Entry, Row, SaysSo
    <3> QED
      BY <2>2, <3>1, <3>2, PostedShown
  <2>3. FeedShown'
    BY <2>1, <2>2, FramesStay
  <2> QED
    BY <2>1, <2>3, FramesStay DEF SameRecord
<1>4. CASE EnterLoop
  <2>1. worker'.pc = "test" /\ UNCHANGED <<link, feed, history, store>>
    BY <1>4, EnterLoopEffect, IdleFacts
  <2>2. WorkerShown'
    BY <2>1 DEF WorkerShown, Busy
  <2> QED
    BY <2>1, <2>2, FramesStay
<1> QED
  BY <1>1, <1>2, <1>3, <1>4

\* So do the worker's, the callback included.
LEMMA ShownStepWorker ==
    ASSUME TypeInv, Shown, Next, WorkerSteps
    PROVE  Shown'
<1> USE DEF Shown
<1>0. \A i \in Ids : accepted[i] > 0 => accepted'[i] > 0
  BY TakenStays
<1>1. CASE TestStop \/ GetNothing \/ GetPill \/ GetRecord
  <2>1. UNCHANGED <<link, feed, history, store>>
    BY <1>1, WaitEffect, GetPillEffect, GetRecordEffect
  <2>2. WorkerShown'
    <3>1. \/ worker'.pc \notin Busy
          \/ worker'.pc = "post" /\ worker'.tx = NoTx /\ worker'.ref = NoId
      BY <1>1, WaitEffect, GetPillEffect, GetRecordEffect DEF Busy
    <3> QED
      BY <3>1 DEF WorkerShown, Good, Busy
  <2> QED
    BY <2>1, <2>2, FramesStay
<1>2. CASE PostAccepted \/ PostAnswerLost
  <2>1. /\ worker.pc = "post" /\ worker.id \in Ids /\ SameRecord
        /\ accepted'[worker.id] = accepted[worker.id] + 1
        /\ UNCHANGED <<link, feed, history, store>>
    BY <1>2, PostTakenEffect
  <2>2. accepted'[worker.id] > 0
    BY <2>1 DEF TypeInv, TypeOK
  <2>3. WorkerShown'
    BY <1>0, <2>1, <2>2 DEF WorkerShown, Good, SameRecord, Busy
  <2> QED
    BY <2>1, <2>3, FramesStay
<1>3. CASE PostRefused \/ PollRaises \/ AppendAnchoredRaises
  <2>1. /\ worker.pc \in {"post", "poll", "append"} /\ worker'.pc = "callback" /\ SameRecord
        /\ UNCHANGED <<link, feed, history, store, accepted>>
    BY <1>3, FailsEffect
  <2>2. WorkerShown'
    BY <2>1 DEF WorkerShown, Good, SameRecord, Busy
  <2> QED
    BY <2>1, <2>2, FramesStay
<1>4. CASE PollReturns
  <2>1. /\ worker.pc = "poll" /\ worker'.pc = "append" /\ worker'.id = worker.id
        /\ worker'.tx \in {NoTx, worker.id} /\ worker'.ref = worker.ref
        /\ UNCHANGED <<link, feed, history, store, accepted>>
    BY <1>4, PollReturnsEffect
  <2>2. WorkerShown'
    BY <2>1 DEF WorkerShown, Good, Busy
  <2> QED
    BY <2>1, <2>2, FramesStay
<1>5. CASE AppendAnchored
  <2>1. /\ worker.pc = "append" /\ worker'.pc = "callback" /\ SameRecord
        /\ DOMAIN store' = DOMAIN store \cup {Len(store) + 1}
        /\ \A k \in DOMAIN store : store'[k] = store[k]
        /\ store'[Len(store) + 1] = [id |-> worker.id, tx |-> worker.tx]
        /\ UNCHANGED <<link, feed, history, accepted>>
    BY <1>5, AppendAnchoredEffect
  <2>2. Good(worker.tx, worker.id)
    BY <2>1 DEF WorkerShown, Busy
  <2>3. StoreShown'
    BY <2>1, <2>2 DEF StoreShown, Good
  <2>4. WorkerShown'
    BY <2>1 DEF WorkerShown, Good, SameRecord, Busy
  <2> QED
    BY <2>1, <2>3, <2>4, FramesStay
<1>6. CASE Callback
  <2>1. /\ worker.pc = "callback" /\ UNCHANGED <<link, feed, history, store, accepted>>
        /\ \/ worker'.pc = "test"
           \/ /\ worker'.pc = "patch" /\ worker'.id = worker.id /\ worker'.tx = worker.tx
              /\ worker'.ref \in {NoId, worker.id}
    BY <1>6, CallbackEffect, IdleFacts
  <2>2. WorkerShown'
    BY <2>1 DEF WorkerShown, Good, Busy
  <2> QED
    BY <2>1, <2>2, FramesStay
<1>7. CASE PatchLink
  <2>1. /\ worker.pc = "patch" /\ worker'.pc = "scan" /\ SameRecord /\ DOMAIN link' = DOMAIN link
        /\ UNCHANGED <<feed, history, store, accepted>>
    BY <1>7, PatchLinkEffect
  <2>2. PICK c : Writes(c) /\ \A i \in DOMAIN link : link'[i] = IF i = worker.ref THEN c ELSE link[i]
    BY <1>7, PatchLinkEffect
  <2>3. Good(worker.tx, worker.id) /\ worker.ref \in {NoId, worker.id}
    BY <2>1 DEF WorkerShown, Busy
  <2>4. DOMAIN link \subseteq Ids /\ NoId \notin Ids
    BY DEF TypeInv, TypeOK, IsDict, Ids, NoId
  <2>5. Good(c.tx, worker.id) /\ SaysSo(c)
    BY <2>2, <2>3 DEF Writes, SaysSo
  <2>6. LinkShown'
    <3>1. ASSUME NEW i \in DOMAIN link PROVE Good(link'[i].tx, i) /\ SaysSo(link'[i])
      <4>1. CASE i = worker.ref
        BY <2>2, <2>3, <2>4, <2>5, <4>1
      <4>2. CASE i # worker.ref
        BY <2>2, <4>2 DEF LinkShown
      <4> QED
        BY <4>1, <4>2
    <3> QED
      BY <2>1, <3>1 DEF LinkShown, Good, SaysSo
  <2>7. WorkerShown'
    BY <2>1, <2>3 DEF WorkerShown, Good, SameRecord, Busy
  <2> QED
    BY <2>1, <2>6, <2>7, FramesStay
<1>8. CASE ScanRaises \/ ScanEnds
  <2>1. worker'.pc = "test" /\ UNCHANGED <<link, feed, history, store>>
    BY <1>8, DoneEffect, IdleFacts
  <2>2. WorkerShown'
    BY <2>1 DEF WorkerShown, Busy
  <2> QED
    BY <2>1, <2>2, FramesStay
<1>9. CASE ScanEntry
  <2>1. /\ worker.pc = "scan" /\ worker'.pc = "scan" /\ worker'.id = worker.id
        /\ worker'.tx = worker.tx /\ worker'.ref = worker.ref /\ DOMAIN feed' = DOMAIN feed
        /\ UNCHANGED <<link, history, store, accepted>>
    BY <1>9, ScanEntryEffect
  <2>2. PICK c : Writes(c) /\ \A k \in DOMAIN feed :
            /\ feed'[k].id = feed[k].id /\ feed'[k].kind = feed[k].kind
            /\ IF k = worker.at /\ Matches(feed[k])
               THEN feed'[k].tx = c.tx /\ feed'[k].state = c.state
               ELSE feed'[k] = feed[k]
    BY <1>9, ScanEntryEffect
  <2>3. Good(worker.tx, worker.id)
    BY <2>1 DEF WorkerShown, Busy
  <2>4. Good(c.tx, worker.id) /\ SaysSo(c)
    BY <2>2, <2>3 DEF Writes, SaysSo
  <2>5. FeedShown'
    <3>1. ASSUME NEW k \in DOMAIN feed
          PROVE  /\ Good(feed'[k].tx, feed'[k].id)
                 /\ feed'[k].kind = "open" => SaysSo(feed'[k])
      <4>1. CASE k = worker.at /\ Matches(feed[k])
        BY <2>2, <2>4, <4>1 DEF Matches, SaysSo
      <4>2. CASE ~(k = worker.at /\ Matches(feed[k]))
        BY <2>2, <4>2 DEF FeedShown
      <4> QED
        BY <4>1, <4>2
    <3> QED
      BY <2>1, <3>1 DEF FeedShown, Good, SaysSo
  <2>6. WorkerShown'
    BY <2>1 DEF WorkerShown, Good, Busy
  <2> QED
    BY <2>1, <2>5, <2>6, FramesStay
<1> QED
  BY <1>1, <1>2, <1>3, <1>4, <1>5, <1>6, <1>7, <1>8, <1>9 DEF WorkerSteps

\* What is shown is right throughout.
LEMMA ShownInvariant == Spec => []Shown
<1>1. TypeInv /\ Shown /\ [Next]_vars => Shown'
  <2>1. CASE Next
    BY <2>1, ShownStepMain, ShownStepRun, ShownStepWorker DEF Next
  <2>2. CASE UNCHANGED vars
    BY <2>2 DEF Shown, LinkShown, FeedShown, HistoryShown, StoreShown, WorkerShown, Good, SaysSo, vars
  <2> QED
    BY <2>1, <2>2
<1> QED
  BY <1>1, ShownInit, TypeInvariant, PTL DEF Spec

\* No trade is ever shown with the transaction of another, on its link, in the
\* feed, in the history or in the store.
THEOREM OwnAnchorHolds == Spec => []OwnAnchor
<1>1. Shown => OwnAnchor
  BY DEF Shown, LinkShown, FeedShown, HistoryShown, StoreShown, Good, OwnAnchor
<1> QED
  BY <1>1, ShownInvariant, PTL

\* A trade says "complete" just when it shows a transaction, which Circle took.
THEOREM CompleteMeansAnchoredHolds == Spec => []CompleteMeansAnchored
<1>1. Shown => CompleteMeansAnchored
  BY DEF Shown, LinkShown, FeedShown, Good, SaysSo, CompleteMeansAnchored
<1> QED
  BY <1>1, ShownInvariant, PTL

-----------------------------------------------------------------------------
(* The ledger: AnchorPipeline implements AnchorLedger.                     *)

\* Every record in the store has the row that was written before it was sent,
\* whatever rows the worker has added since: they only grow.
FirstRow ==
    \A i \in Stored : \E k \in DOMAIN store : store[k] = [id |-> i, tx |-> NoTx]

\* The rows of the store.
Rows == {store[k] : k \in DOMAIN store}

\* A step that touches neither records, store nor requests is none of the ledger.
LEMMA LedgerStutters ==
    ASSUME UNCHANGED <<assetOf, store, accepted>>
    PROVE  UNCHANGED Ledger!vars /\ (FirstRow => FirstRow')
BY DEF Ledger!vars, FirstRow, Stored

\* What makes, stores or sends a record; all other actions leave these alone.
LEMMA OtherActions ==
    ASSUME Next
    PROVE  \/ \E a \in Assets : Fill(a)
           \/ AppendRow
           \/ PostAccepted \/ PostAnswerLost
           \/ AppendAnchored
           \/ UNCHANGED <<assetOf, store, accepted>>
<1>1. ASSUME NEW a \in Assets, CloseTrade(a) PROVE UNCHANGED <<assetOf, store, accepted>>
  BY <1>1 DEF CloseTrade
<1>2. (AppendRowRaises \/ RecordOpen \/ RecordDecision \/ Submit \/ RecordHistory
        \/ RecordCloseEntry \/ CloseWorker \/ Join \/ CloseHandles)
      => UNCHANGED <<assetOf, store, accepted>>
  BY DEF AppendRowRaises, RecordOpen, RecordDecision, Submit, RecordHistory,
         RecordCloseEntry, CloseWorker, Join, CloseHandles
<1>3. (Interrupt \/ End \/ Start \/ HydrateRow \/ EnterLoop)
      => UNCHANGED <<assetOf, store, accepted>>
  BY DEF Interrupt, End, Start, HydrateRow, EnterLoop
<1>4. (TestStop \/ GetNothing \/ GetPill \/ GetRecord \/ PostRefused \/ PollReturns
        \/ PollRaises \/ AppendAnchoredRaises)
      => UNCHANGED <<assetOf, store, accepted>>
  BY DEF TestStop, GetNothing, GetPill, GetRecord, PostRefused, PollReturns,
         PollRaises, AppendAnchoredRaises
<1>5. (Callback \/ PatchLink \/ ScanRaises \/ ScanEntry \/ ScanEnds)
      => UNCHANGED <<assetOf, store, accepted>>
  BY DEF Callback, PatchLink, ScanRaises, ScanEntry, ScanEnds
<1> QED
  BY <1>1, <1>2, <1>3, <1>4, <1>5 DEF Next, MainSteps, WorkerSteps

\* A row more in the store is a row more in the ledger.
LEMMA RowMore ==
    ASSUME TypeInv, FirstRow, NEW r \in Row,
           DOMAIN store' = DOMAIN store \cup {Len(store) + 1},
           \A k \in DOMAIN store : store'[k] = store[k],
           store'[Len(store) + 1] = r,
           r.tx = NoTx \/ r.id \in Stored
    PROVE  /\ Rows' = Rows \cup {r}
           /\ FirstRow'
<1>1. Len(store) + 1 \notin DOMAIN store
  BY DEF TypeInv, TypeOK
<1>2. Rows' = Rows \cup {r}
  BY <1>1 DEF Rows
<1>3. \A i : i \in Stored' => i \in Stored \/ i = r.id
  BY <1>1 DEF Stored
<1>4. ASSUME NEW i \in Stored
      PROVE  \E k \in DOMAIN store' : store'[k] = [id |-> i, tx |-> NoTx]
  BY <1>4 DEF FirstRow
<1>5. r.tx = NoTx => r = [id |-> r.id, tx |-> NoTx]
  BY DEF Row
<1>6. FirstRow'
  BY <1>1, <1>3, <1>4, <1>5 DEF FirstRow
<1> QED
  BY <1>2, <1>6

\* Main persists a record: Persist.
LEMMA LedgerPersist ==
    ASSUME TypeInv, Trail, FirstRow, AppendRow
    PROVE  Ledger!Next /\ FirstRow'
<1>0. PICK i \in Ids : i = main.id
  BY AppendRowEffect
<1> DEFINE r == [id |-> i, tx |-> NoTx]
<1>1. /\ main.pc = "append" /\ i \in DOMAIN assetOf /\ accepted[i] = 0
      /\ UNCHANGED <<assetOf, accepted>>
  BY <1>0, AppendRowEffect DEF TypeInv, KeysExist, Trail, MainUnsent, Opening
<1>2. r \in Row /\ r.tx = NoTx
  BY DEF Row, Txs
<1>3. Rows' = Rows \cup {r} /\ FirstRow'
  <2>1. /\ DOMAIN store' = DOMAIN store \cup {Len(store) + 1}
        /\ \A k \in DOMAIN store : store'[k] = store[k]
        /\ store'[Len(store) + 1] = r
    BY <1>0, AppendRowEffect
  <2> HIDE DEF r
  <2> QED
    BY <1>2, <2>1, RowMore
<1>4. Ledger!Persist(i)
  BY <1>1, <1>3 DEF Ledger!Persist, Ledger!Unanchored, Rows
<1> QED
  BY <1>3, <1>4 DEF Ledger!Next

\* The worker stores a record again: with its transaction a Note, without one
\* nothing new.
LEMMA LedgerNote ==
    ASSUME TypeInv, Trail, Shown, FirstRow, AppendAnchored
    PROVE  [Ledger!Next]_(Ledger!vars) /\ FirstRow'
<1>0. PICK i \in Ids : i = worker.id
  BY AppendAnchoredEffect
<1> DEFINE r == [id |-> i, tx |-> worker.tx]
<1>1. /\ worker.pc = "append"
      /\ UNCHANGED <<assetOf, accepted>>
      /\ DOMAIN store' = DOMAIN store \cup {Len(store) + 1}
      /\ \A k \in DOMAIN store : store'[k] = store[k]
      /\ store'[Len(store) + 1] = r
  BY <1>0, AppendAnchoredEffect
<1>2. r \in Row
  BY <1>1 DEF Row, TypeInv, TypeOK, WorkerThread
<1>3. (worker.tx = NoTx \/ worker.tx = i) /\ accepted[i] > 0
  BY <1>0, <1>1 DEF Shown, WorkerShown, Good, Busy
<1>4. accepted[i] = 1 /\ i \in Stored
  BY <1>1, <1>3 DEF Trail, SentOnce, TypeInv, TypeOK
<1>5. CASE worker.tx = i
  <2>1. Rows' = Rows \cup {r} /\ FirstRow'
    <3>1. r.id = i
      OBVIOUS
    <3> HIDE DEF r
    <3> QED
      BY <1>1, <1>2, <1>4, <1>5, <3>1, RowMore
  <2>2. Ledger!Note(i)
    BY <1>1, <1>4, <1>5, <2>1 DEF Ledger!Note, Ledger!Anchored, Rows
  <2> QED
    BY <2>1, <2>2 DEF Ledger!Next
<1>6. CASE worker.tx = NoTx
  <2>1. Rows' = Rows \cup {r} /\ FirstRow'
    <3>1. r.tx = NoTx
      BY <1>6
    <3> HIDE DEF r
    <3> QED
      BY <1>1, <1>2, <3>1, RowMore
  <2>2. r \in Rows
    BY <1>4, <1>6 DEF FirstRow, Rows
  <2>3. Rows' = Rows
    BY <2>1, <2>2
  <2>4. UNCHANGED Ledger!vars
    BY <1>1, <2>3 DEF Ledger!vars, Rows
  <2> QED
    BY <2>1, <2>4
<1> QED
  BY <1>3, <1>5, <1>6

\* Circle takes a request: Anchor, for the row whose digest was sent is there,
\* and the record had not been taken before.
LEMMA LedgerAnchor ==
    ASSUME TypeInv, Trail, Shown, FirstRow, PostAccepted \/ PostAnswerLost
    PROVE  Ledger!Next /\ FirstRow'
<1>0. PICK i \in Ids : i = worker.id
  BY PostTakenEffect
<1>1. /\ worker.pc = "post"
      /\ accepted' \in [Ids -> Nat] /\ accepted'[i] = accepted[i] + 1
      /\ \A j \in Ids : j # i => accepted'[j] = accepted[j]
      /\ UNCHANGED <<assetOf, store>>
  BY <1>0, PostTakenEffect
<1>2. accepted \in [Ids -> Nat]
  BY DEF TypeInv, TypeOK
<1>3. accepted[i] = 0 /\ i \in Stored
  BY <1>0, <1>1 DEF Trail, WorkerUnsent, Unsent
<1>4. [id |-> i, tx |-> NoTx] \in Rows
  BY <1>3 DEF FirstRow, Rows
<1>5. accepted' = [accepted EXCEPT ![i] = 1]
  BY <1>1, <1>2, <1>3
<1>6. Ledger!Anchor(i)
  BY <1>1, <1>3, <1>4, <1>5 DEF Ledger!Anchor, Ledger!Unanchored, Rows
<1>7. FirstRow'
  BY <1>1 DEF FirstRow, Stored
<1> QED
  BY <1>1, <1>6, <1>7 DEF Ledger!Next

\* A fill makes a record, under an id no record has: Make.
LEMMA LedgerMake ==
    ASSUME TypeInv, FirstRow, NEW a \in Assets, Fill(a)
    PROVE  Ledger!Next /\ FirstRow'
<1>1. /\ NextId \in Ids
      /\ DOMAIN assetOf' = DOMAIN assetOf \cup {NextId}
      /\ UNCHANGED <<store, accepted>>
  BY FillEffect
<1>2. NextId \notin DOMAIN assetOf
  BY DEF NextId, TypeInv, TypeOK
<1>3. Ledger!Make(NextId)
  BY <1>1, <1>2 DEF Ledger!Make
<1>4. FirstRow'
  BY <1>1 DEF FirstRow, Stored
<1> QED
  BY <1>1, <1>3, <1>4 DEF Ledger!Next

\* Every step of either thread, the end of the process and its start included,
\* is a step of the ledger or none.
LEMMA LedgerStep ==
    ASSUME TypeInv, Trail, Shown, FirstRow, [Next]_vars
    PROVE  [Ledger!Next]_(Ledger!vars) /\ FirstRow'
<1>1. CASE UNCHANGED vars
  BY <1>1, LedgerStutters DEF vars
<1>2. CASE Next
  BY <1>2, OtherActions, LedgerStutters, LedgerMake, LedgerPersist, LedgerAnchor,
     LedgerNote
<1> QED
  BY <1>1, <1>2

\* The pipeline implements the ledger, for any queue, feed and number of trades,
\* and any sequence of lost answers, shutdowns, crashes and restarts: a record is
\* persisted before it is sent, sent once at most, and stored with a transaction
\* only after it was taken, and nothing of that is undone.
THEOREM LedgerKept == Spec => KeepsLedger
<1>1. Init => Ledger!Init /\ FirstRow
  BY DEF Init, Ledger!Init, FirstRow, Stored
<1>2. TypeInv /\ Trail /\ Shown /\ FirstRow /\ [Next]_vars
        => [Ledger!Next]_(Ledger!vars) /\ FirstRow'
  BY LedgerStep
<1> QED
  BY <1>1, <1>2, TypeInvariant, TrailInvariant, ShownInvariant, PTL
  DEF Spec, KeepsLedger, Ledger!Spec

-----------------------------------------------------------------------------
(* What stays pending.                                                     *)

\* Who has record i: main, the queue, the worker, or nobody any more.
InQueue(i) == \E j \in DOMAIN queue : queue[j] = i
InWorker(i) == worker.pc \in Busy /\ worker.id = i
InMain(i) == main.pc \in Opening /\ main.id = i
Handled(i) == InMain(i) \/ InQueue(i) \/ InWorker(i) \/ i \in silent

\* PendingExplained, with what it rests on: only an opened trade is pending, none
\* is (and no worker runs) before the loop begins, and what a scan has passed is
\* no longer pending.
PendingOpen == \A k \in DOMAIN feed : feed[k].state = "pending" => feed[k].kind = "open"
PendingHandled ==
    main.pc \in Running => \A k \in DOMAIN feed : feed[k].state = "pending" => Handled(feed[k].id)
NonePending ==
    main.pc \in {"off", "hydrate"} =>
        worker.pc = "dead" /\ \A k \in DOMAIN feed : feed[k].state # "pending"
ScanBegins == worker.pc \in Busy \ {"scan"} => worker.at = 1
ScanPassed ==
    worker.pc = "scan" /\ ~worker.torn =>
        \A k \in DOMAIN feed : k < worker.at /\ feed[k].id = worker.id => feed[k].state # "pending"
Pending == PendingOpen /\ PendingHandled /\ NonePending /\ ScanBegins /\ ScanPassed

\* Nothing is pending at the first start.
LEMMA PendingInit ==
    ASSUME Init
    PROVE  Pending
<1>1. main.pc = "off" /\ worker.pc = "dead" /\ feed = <<>>
  BY LoopFacts, IdleFacts DEF Init
<1> QED
  BY <1>1 DEF Pending, PendingOpen, PendingHandled, NonePending, ScanBegins, ScanPassed, Running, Busy

\* A post tears a scan that has begun; the others have passed nothing.
LEMMA PostedPending ==
    ASSUME TypeInv, Pending, WorkerKeeps, NEW e \in Entry, FeedGains(e),
           e.state = "pending" => e.kind = "open"
    PROVE  PendingOpen' /\ ScanBegins' /\ ScanPassed'
<1>1. worker'.pc = "scan" /\ ~worker'.torn => ~(worker'.at > 1)
  BY DEF WorkerKeeps
<1>2. worker'.at \in Nat
  BY BoundsAssumption DEF WorkerKeeps, WorkerThread
<1>3. DOMAIN feed' \subseteq Nat \ {0}
  BY DEF FeedGains
<1>4. ScanPassed'
  BY <1>1, <1>2, <1>3 DEF ScanPassed
<1>5. PendingOpen'
  BY DEF Pending, PendingOpen, FeedGains
<1>6. ScanBegins'
  BY DEF Pending, ScanBegins, WorkerKeeps
<1> QED
  BY <1>4, <1>5, <1>6

\* The main thread's steps inside a trade explain what is pending.
LEMMA PendingStepMain ==
    ASSUME TypeInv, Pending, (\E a \in Assets : Fill(a) \/ CloseTrade(a)) \/ MainSteps
    PROVE  Pending'
<1> USE DEF Pending, PendingOpen, PendingHandled, NonePending, ScanBegins, ScanPassed,
            Handled, InMain, InQueue, InWorker, Opening, Running, Closing
<1>1. ASSUME NEW a \in Assets, Fill(a) \/ CloseTrade(a) PROVE Pending'
  <2>1. /\ main.pc = "run" /\ main'.pc \in {"append", "history"}
        /\ UNCHANGED <<worker, queue, silent, feed>>
    BY <1>1, FillEffect, CloseTradeEffect
  <2> QED
    BY <2>1
<1>2. CASE AppendRow \/ RecordOpen \/ RecordHistory
  <2>1. /\ \/ main.pc \in {"append", "link"} /\ main'.pc \in {"link", "feed"}
           \/ main.pc = "history" /\ main'.pc = "closed"
        /\ main'.id = main.id
        /\ UNCHANGED <<worker, queue, silent, feed>>
    BY <1>2, AppendRowEffect, RecordOpenEffect, RecordHistoryEffect
  <2> QED
    BY <2>1
<1>3. CASE AppendRowRaises \/ Join \/ CloseHandles \/ CloseWorker
  <2>1. main'.pc \in Closing /\ UNCHANGED <<worker, feed>>
    BY <1>3, LeaveEffect, CloseWorkerEffect
  <2> QED
    BY <2>1
<1>4. CASE RecordDecision
  <2> DEFINE e == [id |-> main.id, kind |-> "open", tx |-> NoTx, state |-> "pending"]
  <2>1. /\ main.pc = "feed" /\ main'.pc = "submit" /\ main'.id = main.id /\ main.id \in Ids
        /\ FeedGains(e) /\ WorkerKeeps /\ UNCHANGED <<queue, silent>>
    BY <1>4, RecordDecisionEffect
  <2>2. e \in Entry /\ e.id = main.id /\ e.kind = "open"
    BY <2>1 DEF Entry, Txs
  <2> HIDE DEF e
  <2>3. PendingOpen' /\ ScanBegins' /\ ScanPassed'
    BY <2>1, <2>2, PostedPending
  <2>4. PendingHandled'
    <3>1. ASSUME NEW k \in DOMAIN feed', feed'[k].state = "pending" PROVE Handled(feed[k].id)'
      <4>1. CASE feed'[k] = e
        BY <2>1, <2>2, <4>1
      <4>2. CASE k - 1 \in DOMAIN feed /\ feed'[k] = feed[k - 1]
        BY <2>1, <3>1, <4>2 DEF WorkerKeeps
      <4> QED
        BY <2>1, <4>1, <4>2 DEF FeedGains
    <3> QED
      BY <3>1
  <2>5. NonePending'
    BY <2>1
  <2> QED
    BY <2>3, <2>4, <2>5
<1>5. CASE Submit
  <2>1. /\ main.pc = "submit" /\ main.id \in Ids /\ main'.pc = "run" /\ main'.id = NoId
        /\ UNCHANGED <<worker, feed>>
    BY <1>5, SubmitEffect, LoopFacts
  <2>2. \A i : Handled(i) => Handled(i)'
    <3>1. CASE queue' = queue /\ silent' = silent \cup {main.id}
      BY <2>1, <3>1
    <3>2. CASE queue' = Append(queue, main.id) /\ silent' = silent
      <4>1. main.id \in {Pill} \cup Ids /\ queue \in Seq({Pill} \cup Ids)
        BY <2>1 DEF TypeInv, TypeOK
      <4>2. /\ DOMAIN queue' = DOMAIN queue \cup {Len(queue) + 1}
            /\ queue'[Len(queue) + 1] = main.id
            /\ \A j \in DOMAIN queue : queue'[j] = queue[j]
        BY <3>2, <4>1, QueuePut
      <4> QED
        BY <2>1, <3>2, <4>2
    <3> QED
      BY <1>5, <3>1, <3>2, SubmitEffect
  <2> QED
    BY <2>1, <2>2
<1>6. CASE RecordCloseEntry
  <2> DEFINE e == [id |-> main.id, kind |-> "close", tx |-> link[main.id].tx, state |-> "n/a"]
  <2>1. /\ main.pc = "closed" /\ main'.pc = "run"
        /\ FeedGains(e) /\ WorkerKeeps /\ UNCHANGED <<queue, silent>>
    BY <1>6, RecordCloseEntryEffect, LoopFacts
  <2>2. main.id \in Ids /\ link[main.id].tx \in Txs
    BY <2>1, LinkColumns
  <2>3. e \in Entry /\ e.state = "n/a"
    BY <2>2 DEF Entry
  <2> HIDE DEF e
  <2>4. PendingOpen' /\ ScanBegins' /\ ScanPassed'
    BY <2>1, <2>3, PostedPending
  <2>5. PendingHandled'
    <3>1. ASSUME NEW k \in DOMAIN feed', feed'[k].state = "pending" PROVE Handled(feed[k].id)'
      <4>1. k - 1 \in DOMAIN feed /\ feed'[k] = feed[k - 1]
        BY <2>1, <2>3, <3>1 DEF FeedGains
      <4> QED
        BY <2>1, <3>1, <4>1 DEF WorkerKeeps
    <3> QED
      BY <3>1
  <2>6. NonePending'
    BY <2>1
  <2> QED
    BY <2>4, <2>5, <2>6
<1> QED
  BY <1>1, <1>2, <1>3, <1>4, <1>5, <1>6 DEF MainSteps

\* So do its steps between two runs.
LEMMA PendingStepRun ==
    ASSUME TypeInv, Pending, Interrupt \/ End \/ Start \/ HydrateRow \/ EnterLoop
    PROVE  Pending'
<1> USE DEF Pending, PendingOpen, PendingHandled, NonePending, ScanBegins, ScanPassed, Running, Closing, Busy
<1>1. CASE Interrupt
  <2>1. main'.pc \in Closing /\ UNCHANGED <<worker, feed>>
    BY <1>1, LeaveEffect
  <2> QED
    BY <2>1
<1>2. CASE End
  <2>1. main'.pc = "off" /\ worker'.pc = "dead" /\ feed' = <<>>
    BY <1>2, EndEffect, LoopFacts, IdleFacts
  <2> QED
    BY <2>1
<1>3. CASE Start
  <2>1. main.pc = "off" /\ main'.pc = "hydrate" /\ UNCHANGED <<worker, feed>>
    BY <1>3, StartEffect
  <2> QED
    BY <2>1
<1>4. CASE EnterLoop
  <2>1. main.pc = "hydrate" /\ main'.pc = "run" /\ worker'.pc = "test" /\ feed' = feed
    BY <1>4, EnterLoopEffect, LoopFacts, IdleFacts
  <2> QED
    BY <2>1
<1>5. CASE HydrateRow
  <2>1. /\ main.pc = "hydrate" /\ main'.pc = "hydrate" /\ worker' = worker
        /\ feed' = feed \/ \E k \in DOMAIN store : FeedGains(Hydrated(store[k]))
    BY <1>5, HydrateRowEffect
  <2>2. ASSUME NEW k \in DOMAIN feed' PROVE feed'[k].state # "pending"
    <3>1. CASE feed' = feed
      BY <2>1, <2>2, <3>1
    <3>2. ASSUME NEW j \in DOMAIN store, FeedGains(Hydrated(store[j])) PROVE feed'[k].state # "pending"
      <4>1. Hydrated(store[j]).state # "pending"
        BY DEF Hydrated
      <4>2. feed'[k] = Hydrated(store[j]) \/ (k - 1 \in DOMAIN feed /\ feed'[k] = feed[k - 1])
        BY <2>2, <3>2 DEF FeedGains
      <4> QED
        BY <2>1, <4>1, <4>2
    <3> QED
      BY <2>1, <3>1, <3>2
  <2> QED
    BY <2>1, <2>2
<1> QED
  BY <1>1, <1>2, <1>3, <1>4, <1>5

\* So do the worker's.
LEMMA PendingStepWorker ==
    ASSUME TypeInv, Pending, WorkerSteps
    PROVE  Pending'
<1> USE DEF Pending, PendingOpen, PendingHandled, NonePending, ScanBegins, ScanPassed,
            Handled, InMain, InQueue, InWorker, Busy
<1>1. CASE TestStop \/ GetNothing
  <2>1. /\ worker.pc \in {"test", "get"} /\ worker'.pc \in {"test", "get", "dead"}
        /\ UNCHANGED <<main, queue, silent, feed>>
    BY <1>1, WaitEffect
  <2> QED
    BY <2>1
<1>2. CASE GetPill \/ GetRecord
  <2>1. /\ worker.pc = "get" /\ queue # <<>> /\ queue' = Tail(queue)
        /\ \/ worker'.pc = "dead" /\ queue[1] = Pill
           \/ worker'.pc = "post" /\ worker'.id = queue[1] /\ worker'.at = 1
        /\ UNCHANGED <<main, silent, feed>>
    BY <1>2, GetPillEffect, GetRecordEffect
  <2>2. queue \in Seq({Pill} \cup Ids)
    BY DEF TypeInv, TypeOK
  <2>3. \A j \in DOMAIN queue : j # 1 => j - 1 \in DOMAIN queue' /\ queue'[j - 1] = queue[j]
    BY <2>1, <2>2, QueueGot
  <2>4. ASSUME NEW i \in Ids, Handled(i) PROVE Handled(i)'
    <3>1. CASE InQueue(i)
      <4>1. PICK j \in DOMAIN queue : queue[j] = i
        BY <3>1
      <4>2. CASE j = 1
        BY <2>1, <4>1, <4>2 DEF Pill, Ids
      <4>3. CASE j # 1
        BY <2>3, <4>1, <4>3
      <4> QED
        BY <4>2, <4>3
    <3>2. CASE ~InQueue(i)
      BY <2>1, <2>4, <3>2
    <3> QED
      BY <3>1, <3>2
  <2>5. PendingHandled'
    <3>1. \A k \in DOMAIN feed : feed[k].id \in Ids
      BY EntryIds
    <3> QED
      BY <2>1, <2>4, <3>1
  <2> QED
    BY <2>1, <2>5
<1>3. CASE \/ PostAccepted \/ PostAnswerLost \/ PostRefused \/ PollReturns \/ PollRaises
           \/ AppendAnchored \/ AppendAnchoredRaises
  <2>1. /\ worker.pc \in {"post", "poll", "append"} /\ worker'.pc \in {"poll", "append", "callback"}
        /\ worker'.id = worker.id /\ worker'.at = worker.at
        /\ UNCHANGED <<main, queue, silent, feed>>
    BY <1>3, PostTakenEffect, FailsEffect, PollReturnsEffect, AppendAnchoredEffect DEF SameRecord
  <2> QED
    BY <2>1
<1>4. CASE Callback
  <2>1. /\ worker.pc = "callback" /\ UNCHANGED <<main, queue, feed>>
        /\ \/ /\ worker'.pc = "patch" /\ worker'.id = worker.id /\ worker'.at = worker.at
              /\ silent' = silent
           \/ worker'.pc = "test" /\ silent' = silent \cup {worker.id}
    BY <1>4, CallbackEffect, IdleFacts
  <2> QED
    BY <2>1
<1>5. CASE PatchLink
  <2>1. /\ worker.pc = "patch" /\ worker'.pc = "scan" /\ worker'.id = worker.id
        /\ worker'.at = worker.at /\ UNCHANGED <<main, queue, silent, feed>>
    BY <1>5, PatchLinkEffect DEF SameRecord
  <2>2. DOMAIN feed \subseteq Nat \ {0}
    BY DEF TypeInv, TypeOK
  <2>3. ScanPassed'
    BY <2>1, <2>2
  <2> QED
    BY <2>1, <2>3
<1>6. CASE ScanRaises \/ ScanEnds
  <2>1. /\ worker.pc = "scan" /\ worker'.pc = "test" /\ UNCHANGED <<main, queue, feed>>
        /\ \/ silent' = silent \cup {worker.id}
           \/ silent' = silent /\ ~worker.torn /\ worker.at > Len(feed)
    BY <1>6, DoneEffect, IdleFacts
  <2>2. CASE silent' = silent \cup {worker.id}
    BY <2>1, <2>2
  <2>3. CASE silent' = silent /\ ~worker.torn /\ worker.at > Len(feed)
    <3>1. feed \in Seq(Entry) /\ worker.at \in Nat
      BY BoundsAssumption DEF TypeInv, TypeOK, WorkerThread
    <3>2. \A k \in DOMAIN feed : k < worker.at
      BY <2>3, <3>1
    <3>3. \A k \in DOMAIN feed : feed[k].state = "pending" => feed[k].id # worker.id
      BY <2>1, <2>3, <3>2
    <3> QED
      BY <2>1, <2>3, <3>3
  <2> QED
    BY <2>1, <2>2, <2>3
<1>7. CASE ScanEntry
  <2>1. /\ worker.pc = "scan" /\ ~worker.torn /\ worker.at \in DOMAIN feed
        /\ worker'.pc = "scan" /\ worker'.id = worker.id /\ worker'.at = worker.at + 1
        /\ DOMAIN feed' = DOMAIN feed /\ UNCHANGED <<main, queue, silent>>
    BY <1>7, ScanEntryEffect
  <2>2. PICK c : Writes(c) /\ \A k \in DOMAIN feed :
            /\ feed'[k].id = feed[k].id /\ feed'[k].kind = feed[k].kind
            /\ IF k = worker.at /\ Matches(feed[k])
               THEN feed'[k].tx = c.tx /\ feed'[k].state = c.state
               ELSE feed'[k] = feed[k]
    BY <1>7, ScanEntryEffect
  <2>3. \A k \in DOMAIN feed : feed'[k].state = "pending" => feed[k].state = "pending"
    BY <2>2 DEF Writes
  <2>4. PendingOpen' /\ PendingHandled'
    BY <2>1, <2>2, <2>3
  <2>5. ScanPassed'
    <3>1. ASSUME NEW k \in DOMAIN feed, k < worker.at + 1, feed[k].id = worker.id
          PROVE  feed'[k].state # "pending"
      <4>1. CASE k = worker.at /\ Matches(feed[k])
        BY <2>2, <4>1 DEF Writes
      <4>2. CASE k = worker.at /\ ~Matches(feed[k])
        BY <2>3, <3>1, <4>2 DEF Matches
      <4>3. CASE k # worker.at
        <5>1. k \in Nat /\ worker.at \in Nat
          BY <2>1 DEF TypeInv, TypeOK
        <5>2. k < worker.at
          BY <3>1, <4>3, <5>1
        <5> QED
          BY <2>1, <2>3, <3>1, <5>2
      <4> QED
        BY <4>1, <4>2, <4>3
    <3> QED
      BY <2>1, <2>2, <3>1
  <2>6. NonePending' /\ ScanBegins'
    BY <2>1
  <2> QED
    BY <2>4, <2>5, <2>6
<1> QED
  BY <1>1, <1>2, <1>3, <1>4, <1>5, <1>6, <1>7 DEF WorkerSteps

\* What is pending is explained throughout.
LEMMA PendingInvariant == Spec => []Pending
<1>1. TypeInv /\ Pending /\ [Next]_vars => Pending'
  <2>1. CASE Next
    BY <2>1, PendingStepMain, PendingStepRun, PendingStepWorker DEF Next
  <2>2. CASE UNCHANGED vars
    BY <2>2 DEF Pending, PendingOpen, PendingHandled, NonePending, ScanBegins, ScanPassed,
       Handled, InMain, InQueue, InWorker, vars
  <2> QED
    BY <2>1, <2>2
<1> QED
  BY <1>1, PendingInit, TypeInvariant, PTL DEF Spec

\* While the loop runs, a pending trade is with main, in the queue or with the
\* worker, unless the pipeline gave up on it at one of the three places it does.
THEOREM PendingExplainedHolds == Spec => []PendingExplained
<1>1. Pending => PendingExplained
  BY DEF Pending, PendingHandled, Handled, InMain, InQueue, InWorker, PendingExplained
<1> QED
  BY <1>1, PendingInvariant, PTL
=============================================================================
