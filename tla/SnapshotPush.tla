---------------------------- MODULE SnapshotPush ----------------------------
(***************************************************************************)
(* How what happened reaches the published dashboard: the trading loop     *)
(* writes the snapshot file (agent/snapshot.py write, cli/run.py main),    *)
(* and a second thread commits the file and pushes the commit              *)
(* (agent/auto_push.py).  Any write and any git command may fail; the      *)
(* process may be interrupted, or killed and started again.                *)
(*                                                                         *)
(* The contents of the file are reduced to two pieces of news, a trade and *)
(* the anchor of one, each followed from memory to the published copy, and *)
(* to whether the file is whole.  Each write makes a new content: it       *)
(* carries the time.                                                       *)
(***************************************************************************)
EXTENDS Naturals

CONSTANT MaxStarts      \* bound: times the process is started

ASSUME StartsAssumption == MaxStarts \in Nat \ {0}

VARIABLES
    main,       \* the main thread: step, write and swap, pause; then the
                \* shutdown with a last write
    at,         \* how far each piece of news has come
    failed,     \* the last write raised
    file,       \* the snapshot file
    tmp,        \* <path>.tmp beside it
    tree,       \* git: the file differs from HEAD, the index differs from
                \* HEAD, HEAD is ahead of origin
    head,       \* the snapshot as committed
    origin,     \* the snapshot as pushed
    pusher,     \* the auto-pusher thread
    stop,       \* AutoPusher._stop
    starts      \* how often the process was started

disk == <<file, tmp, tree, head, origin>>
vars == <<main, at, failed, disk, pusher, stop, starts>>

News == {"trade", "anchor"}
Places == {"none", "memory", "payload", "file", "head", "origin"}
Contents == {"none", "whole", "partial"}
Running == {"step", "write", "text", "swap", "pause"}
Closing == {"flush", "last text", "last swap", "close", "join", "drain"}

TypeOK ==
    /\ main \in Running \cup Closing \cup {"over", "killed"}
    /\ at \in [News -> Places]
    /\ failed \in BOOLEAN
    /\ {file, tmp, head, origin} \subseteq Contents
    /\ tree \in [dirty : BOOLEAN, staged : BOOLEAN, ahead : BOOLEAN]
    /\ pusher \in {"asleep", "add", "diff", "commit", "push", "ended"}
    /\ stop \in BOOLEAN
    /\ starts \in 1..MaxStarts

Init ==
    /\ main = "step"
    /\ at = [n \in News |-> "none"]
    /\ failed = FALSE
    /\ file = "none" /\ tmp = "none" /\ head = "none" /\ origin = "none"
    /\ tree = [dirty |-> FALSE, staged |-> FALSE, ahead |-> FALSE]
    /\ pusher = "asleep"
    /\ stop = FALSE
    /\ starts = 1

\* All news at one place moves on to the next.
Moved(from, to) == [n \in News |-> IF at[n] = from THEN to ELSE at[n]]
-----------------------------------------------------------------------------
(* The main thread.                                                        *)

\* step(): it may trade.  The snapshot is due now, or not yet.
Step ==
    /\ main = "step"
    /\ \/ at["trade"] = "none" /\ at' = [at EXCEPT !["trade"] = "memory"]
       \/ UNCHANGED at
    /\ main' \in {"write", "pause"}
    /\ UNCHANGED <<failed, disk, pusher, stop, starts>>

Pause ==
    /\ main = "pause"
    /\ main' = "step"
    /\ UNCHANGED <<at, failed, disk, pusher, stop, starts>>

\* The anchor worker reports to the accumulator, on its own thread: until the
\* process ends, for the worker is closed last.
AnchorNews ==
    /\ main \in Running \cup Closing
    /\ at["anchor"] = "none"
    /\ at' = [at EXCEPT !["anchor"] = "memory"]
    /\ UNCHANGED <<main, failed, disk, pusher, stop, starts>>

\* write() gathers the payload and opens the .tmp file, whatever a write that
\* was cut short has left in it.
Build ==
    /\ \/ main = "write" /\ main' = "text"
       \/ main = "flush" /\ main' = "last text"
    /\ at' = Moved("memory", "payload")
    /\ tmp' = "partial"
    /\ UNCHANGED <<failed, file, tree, head, origin, pusher, stop, starts>>

WriteText ==
    /\ \/ main = "text" /\ main' = "swap"
       \/ main = "last text" /\ main' = "last swap"
    /\ tmp' = "whole"
    /\ UNCHANGED <<at, failed, file, tree, head, origin, pusher, stop, starts>>

\* os.replace(): readers see the old file or the new one.
Replace ==
    /\ \/ main = "swap" /\ main' = "pause"
       \/ main = "last swap" /\ main' = "close"
    /\ file' = tmp
    /\ tmp' = "none"
    /\ tree' = [tree EXCEPT !.dirty = TRUE]
    /\ at' = Moved("payload", "file")
    /\ failed' = FALSE
    /\ UNCHANGED <<head, origin, pusher, stop, starts>>

Unwritten ==
    \/ main \in {"write", "text", "swap"} /\ main' = "pause"
    \/ main \in {"flush", "last text", "last swap"} /\ main' = "close"

\* Mutant: os.replace() stands in a finally clause.
WriteFailsSwapping ==
    /\ Unwritten
    /\ at' = Moved("payload", "memory")
    /\ failed' = TRUE
    /\ file' = tmp
    /\ UNCHANGED <<tmp, tree, head, origin, pusher, stop, starts>>

\* An OSError is printed, at the shutdown not even that; all goes on.
WriteFails ==
    /\ Unwritten
    /\ at' = Moved("payload", "memory")
    /\ failed' = TRUE
    /\ UNCHANGED <<disk, pusher, stop, starts>>

\* Mutant: the shutdown does not write.
InterruptNoFlush ==
    /\ main \in Running
    /\ at' = Moved("payload", "memory")
    /\ main' = "close"
    /\ UNCHANGED <<failed, disk, pusher, stop, starts>>

\* Ctrl-C, at any point of the loop: a write under way is given up.
Interrupt ==
    /\ main \in Running
    /\ at' = Moved("payload", "memory")
    /\ main' = "flush"
    /\ UNCHANGED <<failed, disk, pusher, stop, starts>>

\* AutoPusher.close() ...
ClosePusher ==
    /\ main = "close"
    /\ stop' = TRUE
    /\ main' = "join"
    /\ UNCHANGED <<at, failed, disk, pusher, starts>>

\* Mutant: close() waits for the thread without a timeout.
JoinForGood ==
    /\ main = "join" /\ pusher = "ended"
    /\ main' = "drain"
    /\ UNCHANGED <<at, failed, disk, pusher, stop, starts>>

\* ... waits for the thread, but no longer than five seconds.
Join ==
    /\ main = "join"
    /\ main' = "drain"
    /\ UNCHANGED <<at, failed, disk, pusher, stop, starts>>

\* The anchor worker, the client, the store, the agent and the data source are
\* closed and main() returns: a pusher still inside a round, a daemon thread,
\* dies with the process.
Return ==
    /\ main = "drain"
    /\ main' = "over"
    /\ pusher' = "ended"
    /\ UNCHANGED <<at, failed, disk, stop, starts>>

\* What is in memory is gone, what is on disk stays.
Kill ==
    /\ main \in Running \cup Closing
    /\ main' = "killed"
    /\ pusher' = "ended"
    /\ UNCHANGED <<at, failed, disk, stop, starts>>

Restart ==
    /\ main \in {"over", "killed"} /\ starts < MaxStarts
    /\ starts' = starts + 1
    /\ main' = "step"
    /\ at' = [n \in News |->
                IF at[n] \in {"memory", "payload"} THEN "none" ELSE at[n]]
    /\ failed' = FALSE
    /\ pusher' = "asleep"
    /\ stop' = FALSE
    /\ UNCHANGED disk
-----------------------------------------------------------------------------
(* The auto-pusher thread: one round of _push_once() per interval.         *)

ByPusher == UNCHANGED <<main, failed, file, tmp, stop, starts>>

To(pc) == pusher' = pc

\* The interval is over, and there is a file.
Wake ==
    /\ pusher = "asleep" /\ ~stop
    /\ file # "none"
    /\ To("add")
    /\ UNCHANGED <<at, tree, head, origin>> /\ ByPusher

EndPusher ==
    /\ pusher = "asleep" /\ stop
    /\ To("ended")
    /\ UNCHANGED <<at, tree, head, origin>> /\ ByPusher

Add ==
    /\ pusher = "add"
    /\ tree' = [tree EXCEPT !.staged = tree.dirty]
    /\ To("diff")
    /\ UNCHANGED <<at, head, origin>> /\ ByPusher

\* Nothing is staged: the round is over, and nothing is pushed either.
NothingNew ==
    /\ pusher = "diff" /\ ~tree.staged
    /\ To("asleep")
    /\ UNCHANGED <<at, tree, head, origin>> /\ ByPusher

\* Something is staged, or `git diff` itself failed.
SomethingNew ==
    /\ pusher = "diff"
    /\ To("commit")
    /\ UNCHANGED <<at, tree, head, origin>> /\ ByPusher

\* `git commit <path>` takes the path as it now is in the working tree, and
\* nothing else from the index; it fails if there is nothing to commit.
Commit ==
    /\ pusher = "commit" /\ (tree.dirty \/ tree.staged)
    /\ head' = file
    /\ tree' = [dirty |-> FALSE, staged |-> FALSE, ahead |-> TRUE]
    /\ at' = Moved("file", "head")
    /\ To("push")
    /\ UNCHANGED origin /\ ByPusher

Push ==
    /\ pusher = "push"
    /\ origin' = head
    /\ tree' = [tree EXCEPT !.ahead = FALSE]
    /\ at' = Moved("head", "origin")
    /\ To("asleep")
    /\ UNCHANGED head /\ ByPusher

\* Mutant: the exception ends the thread.
GitFailsForGood ==
    /\ pusher \in {"add", "commit", "push"}
    /\ To("crashed")
    /\ UNCHANGED <<at, tree, head, origin>> /\ ByPusher

\* A command that failed ends the round: it is printed and the loop continues.
GitFails ==
    /\ pusher \in {"add", "commit", "push"}
    /\ To("asleep")
    /\ UNCHANGED <<at, tree, head, origin>> /\ ByPusher
-----------------------------------------------------------------------------
Loop == Step \/ Pause \/ Build \/ WriteText \/ Replace \/ WriteFails
Shutdown == ClosePusher \/ Join \/ Return
Round == Wake \/ EndPusher \/ Add \/ NothingNew \/ SomethingNew

Next ==
    \/ Loop \/ AnchorNews \/ Interrupt \/ Shutdown \/ Kill \/ Restart
    \/ Round \/ Commit \/ Push \/ GitFails

\* The main thread runs.
Fairness == WF_vars(Loop) /\ WF_vars(Shutdown)

Spec == Init /\ [][Next]_vars /\ Fairness
-----------------------------------------------------------------------------
(* Properties.                                                             *)

\* "Written via <path>.tmp then os.replace so the dashboard never sees a
\* partial file" (agent/snapshot.py:332-333): nor does a commit, whenever the
\* pusher looks, and although a write that raised, was interrupted or was killed
\* leaves a part of the text in the .tmp file that the next one finds.
NeverPartial == "partial" \notin {file, head, origin}

\* A trade is in the file when main() returns, unless the disk refused
\* (cli/run.py:1426, the final snapshot).  The anchor of one need not be.
TradeFlushed ==
    main = "over" /\ ~failed => at["trade"] \notin {"memory", "payload"}

\* What the pusher needs of its surroundings: its thread runs, and writes and
\* git commands succeed now and then.
GitWorks ==
    /\ WF_vars(Round)
    /\ SF_vars(Add) /\ SF_vars(Commit) /\ SF_vars(Push)
    /\ SF_vars(Build) /\ SF_vars(WriteText) /\ SF_vars(Replace)
    /\ SF_vars(main = "step" /\ Step /\ main' = "write")

\* All news is published in the end, through failures of single writes, commits
\* and pushes, unless the process ends first: a commit whose push failed goes
\* out with the next one, because the snapshot goes on changing
\* (agent/auto_push.py _push_once).
Published ==
    GitWorks => \A n \in News :
        (at[n] = "memory" /\ main \in Running)
            ~> (at[n] = "origin" \/ main \notin Running)

\* A git command that hangs does not keep the process from ending
\* (agent/auto_push.py close).
ShutdownEnds == main = "flush" ~> main \in {"over", "killed"}
=============================================================================
