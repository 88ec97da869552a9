---------------------------- MODULE MarketFeed ----------------------------
(***************************************************************************)
(* How prices reach the trading loop: fetch_board() asks the data source   *)
(* for every coin at once (core/data.py), and the source is either the     *)
(* REST client, three requests per coin, or the WebSocket source           *)
(* (core/ws.py), whose event loop fills a cache in the background.  Both   *)
(* take mark and funding from the shared metadata cache of MetaCache.      *)
(*                                                                         *)
(* A thread of the pool is named by the coin it fetches.  Order books and  *)
(* candles are reduced to what fetch() tests: whether a coin has both bars *)
(* and a book with two sides.  A candle loop that has died is one that     *)
(* changes nothing any more.                                               *)
(***************************************************************************)
EXTENDS MetaCache, FiniteSets

CONSTANTS
    Coins,       \* the universe, --coins
    Poller,      \* the thread the WebSocket source polls the metadata with
    MaxWorkers,  \* threads of fetch_board's pool
    Sources,     \* the data backends considered, a subset of {"rest", "ws"}
    Punctual     \* BOOLEAN: the background poll is never late or slow

ASSUME FeedAssumption ==
    /\ Callers = Coins \cup {Poller} /\ Poller \notin Coins
    /\ IsFiniteSet(Coins)
    /\ MaxWorkers \in Nat \ {0}
    /\ Sources \subseteq {"rest", "ws"} /\ Punctual \in BOOLEAN

VARIABLES
    source,   \* --source
    round,    \* fetch_board() on the main thread, and when it began
    stage,    \* per coin, its fetch in this round
    ws,       \* the hl-ws thread
    stop,     \* HyperliquidWsSource._stop
    full,     \* coins whose cache has bars and a book with both sides
    poll      \* _poll_meta_loop: in its pause, past it, or inside a call

feed == <<source, round, stage, ws, stop, full, poll>>
wsCache == <<ws, stop, full, poll>>
meta == vars
allVars == <<vars, feed>>

Pending == {"queued", "candles", "meta", "book"}
Ended == {"got", "missed"}

FeedTypeOK ==
    /\ TypeOK
    /\ source \in Sources
    /\ round \in [pc : {"starting", "between", "fetching", "over"}, began : Nat]
    /\ stage \in [Coins -> {"idle"} \cup Pending \cup Ended]
    /\ ws \in {"off", "bootstrap", "running", "crashed", "ended"}
    /\ stop \in BOOLEAN
    /\ full \subseteq Coins
    /\ poll \in {"asleep", "due", "on"}

FeedInit ==
    /\ Init
    /\ source \in Sources
    /\ round = [pc |-> IF source = "ws" THEN "starting" ELSE "between",
               began |-> 0]
    /\ stage = [a \in Coins |-> "idle"]
    /\ ws = IF source = "ws" THEN "bootstrap" ELSE "off"
    /\ stop = FALSE
    /\ full = {}
    /\ poll = "due"

-----------------------------------------------------------------------------
(* One round of fetch_board().                                             *)

To(a, s) == stage' = [stage EXCEPT ![a] = s]

\* main() goes on when every coin has data, or after 15 seconds without: at any
\* moment.
Proceed ==
    /\ round.pc = "starting"
    /\ round' = [round EXCEPT !.pc = "between"]
    /\ UNCHANGED <<meta, source, stage, wsCache>>

StartRound ==
    /\ round.pc = "between"
    /\ round' = [pc |-> "fetching", began |-> now]
    /\ stage' = [a \in Coins |-> "queued"]
    /\ UNCHANGED <<meta, source, wsCache>>

Busy == {a \in Coins : stage[a] \in Pending \ {"queued"}}

\* A thread of the pool takes the coin.  The WebSocket source looks into its
\* cache under its own lock and raises if the coin has no bars or no book; the
\* REST client posts for the candles.
BeginFetch(a) ==
    /\ stage[a] = "queued"
    /\ Cardinality(Busy) < MaxWorkers
    /\ \/ /\ source = "rest"
          /\ To(a, "candles") /\ UNCHANGED meta
       \/ /\ source = "ws" /\ a \in full
          /\ To(a, "meta") /\ Enter(a)
       \/ /\ source = "ws" /\ a \notin full
          /\ To(a, "missed") /\ UNCHANGED meta
    /\ UNCHANGED <<source, round, wsCache>>

\* The candles arrive and are not empty, or the fetch raises.
CandlesDone(a) ==
    /\ stage[a] = "candles"
    /\ \/ To(a, "meta") /\ Enter(a)
       \/ To(a, "missed") /\ UNCHANGED meta
    /\ UNCHANGED <<source, round, wsCache>>

\* Mutant: a coin that is not in the payload gets an empty row.
MetaDoneEmptyRow(a) ==
    /\ stage[a] = "meta" /\ At(a, "out")
    /\ \/ answer[a] # Cold /\ To(a, IF source = "rest" THEN "book" ELSE "got")
       \/ answer[a] # Cold /\ To(a, "empty")
       \/ To(a, "missed")
    /\ UNCHANGED <<meta, source, round, wsCache>>

\* _meta() returned or raised.  The coin's row is taken out of the payload; the
\* REST client has the order book yet to fetch.
MetaDone(a) ==
    /\ stage[a] = "meta" /\ At(a, "out")
    /\ \/ answer[a] # Cold /\ To(a, IF source = "rest" THEN "book" ELSE "got")
       \/ To(a, "missed")      \* raised, or the coin is not in the payload
    /\ UNCHANGED <<meta, source, round, wsCache>>

BookDone(a) ==
    /\ stage[a] = "book"
    /\ \E s \in Ended : To(a, s)
    /\ UNCHANGED <<meta, source, round, wsCache>>

\* Every thread has ended: the board holds the coins that were got.  step()
\* goes on with it.
EndRound ==
    /\ round.pc = "fetching"
    /\ \A a \in Coins : stage[a] \in Ended
    /\ round' = [round EXCEPT !.pc = "between"]
    /\ stage' = [a \in Coins |-> "idle"]
    /\ UNCHANGED <<meta, source, wsCache>>

\* The end of main(): the pool has been waited for; a WebSocket source is
\* closed, and its thread waited for no longer than three seconds.
Close ==
    /\ round.pc \in {"starting", "between", "fetching"}
    /\ \A a \in Coins : stage[a] \notin Pending
    /\ round' = [round EXCEPT !.pc = "over"]
    /\ stop' = (source = "ws")
    /\ UNCHANGED <<meta, source, stage, ws, full, poll>>

-----------------------------------------------------------------------------
(* The event loop of the WebSocket source.                                 *)

\* Markets load and every coin has a symbol: all loops are created at once.
\* Otherwise the thread prints the exception and ends.
Bootstrap ==
    /\ ws = "bootstrap"
    /\ ws' \in {"running", "crashed"}
    /\ UNCHANGED <<meta, source, round, stage, stop, full, poll>>

\* The order book is pushed, or the candles polled: what arrives replaces what
\* was there, a side without levels and an empty list of bars included.  A
\* failed request changes nothing.
Stream(a) ==
    /\ ws = "running"
    /\ full' \in {full \cup {a}, full \ {a}}
    /\ UNCHANGED <<meta, source, round, stage, ws, stop, poll>>

PollDue == ws = "running" /\ ~stop /\ poll = "due"

PollMeta ==
    /\ PollDue
    /\ Enter(Poller)
    /\ poll' = "on"
    /\ UNCHANGED <<source, round, stage, ws, stop, full>>

\* The poll's call ended, with a payload or an exception: it sleeps.
PollSleep ==
    /\ poll = "on" /\ At(Poller, "out")
    /\ poll' = "asleep"
    /\ UNCHANGED <<meta, source, round, stage, ws, stop, full>>

\* Mutant: the loop idles without looking at the stop flag.
EndLoopNever == FALSE /\ UNCHANGED allVars

\* Stopped: the tasks are cancelled; the pool thread inside _meta(), if any, is
\* waited for.
EndLoop ==
    /\ ws = "running" /\ stop
    /\ At(Poller, "out")
    /\ ws' = "ended"
    /\ UNCHANGED <<meta, source, round, stage, stop, full, poll>>

\* Time passes, by one pause of the poll; if the poll is punctual, not beyond
\* the moment it is done.
Pass ==
    /\ Punctual => ~(PollDue \/ poll = "on")
    /\ Tick
    /\ poll' = IF poll = "asleep" THEN "due" ELSE poll
    /\ UNCHANGED <<source, round, stage, ws, stop, full>>

MetaStep(c) == InMeta(c) /\ UNCHANGED feed

Fetching(a) == BeginFetch(a) \/ CandlesDone(a) \/ MetaDone(a) \/ BookDone(a)

EventLoop ==
    \/ Bootstrap \/ PollMeta \/ PollSleep \/ EndLoop
    \/ \E a \in Coins : Stream(a)

FeedNext ==
    \/ Proceed \/ StartRound \/ EndRound \/ Close
    \/ \E a \in Coins : Fetching(a)
    \/ \E c \in Callers : MetaStep(c)
    \/ EventLoop
    \/ Pass

\* Requests end: each has a timeout.  Threads run.  The lock of a mutex that is
\* released again and again does not pass one waiter over for ever.
FeedFairness ==
    /\ WF_allVars(EndRound)
    /\ \A a \in Coins : WF_allVars(Fetching(a))
    /\ \A c \in Callers : SF_allVars(MetaStep(c))
    /\ WF_allVars(EndLoop) /\ WF_allVars(Bootstrap)

FeedSpec == FeedInit /\ [][FeedNext]_allVars /\ FeedFairness
-----------------------------------------------------------------------------
(* Properties.                                                             *)

\* The price of a coin on the board was made during the round, or before it by
\* less than one time to live and the duration of the one request that brought
\* it: the cache stamps the arrival, so a slow answer is older than its stamp,
\* but by no more than that.  Whichever source, whoever made the request and
\* however long the thread waited for the lock, the stops of a step are never
\* tested on a price older than that (data.py _meta and both fetch()).
BoardFresh ==
    \A a \in Coins : stage[a] = "got" =>
        /\ answer[a] # Cold
        /\ LET e == answer[a]
           IN \/ e.seen >= round.began
              \/ round.began - e.seen < TTL + (e.at - e.sent)

\* Every round ends, whatever fails: a coin that cannot be fetched does not
\* hold the others up (fetch_board), and a failed or slow refresh of the
\* metadata does not leave its lock taken (data.py _meta).
RoundsEnd == (round.pc = "fetching") ~> (round.pc # "fetching")

\* After close() the WebSocket thread comes to its end (ws.py close).
CloseEnds == stop ~> (ws \in {"ended", "crashed"})

\* "The on-tick fetch() call therefore does no network I/O" (ws.py:5-6): with a
\* payload once in the cache, no fetch of a coin makes the request itself.
FetchIsCacheRead ==
    source = "ws" /\ cache # Cold => \A a \in Coins : ~At(a, "post")
=============================================================================
