------------------------- MODULE SnapshotPushProofs -------------------------
(***************************************************************************)
(* Theorems about SnapshotPush, for every number of starts.                *)
(***************************************************************************)
EXTENDS SnapshotPush, TLAPS

MainStep ==
    Loop \/ AnchorNews \/ Interrupt \/ Shutdown \/ Kill \/ Restart

PusherStep == Round \/ Commit \/ Push \/ GitFails

\* Every step is one of the main thread or of the pusher.
LEMMA NextParts == Next <=> MainStep \/ PusherStep
BY DEF Next, MainStep, PusherStep

\* Moving news on keeps the places of the others (SnapshotState, git).
LEMMA MovedType ==
    ASSUME at \in [News -> Places], NEW from, NEW to \in Places
    PROVE  /\ Moved(from, to) \in [News -> Places]
           /\ \A n \in News :
                Moved(from, to)[n] = IF at[n] = from THEN to ELSE at[n]
BY DEF Moved

-----------------------------------------------------------------------------
(* Type correctness.                                                       *)

\* The main thread and its restarts (main()).
LEMMA MainType ==
    ASSUME StartsAssumption, TypeOK, MainStep
    PROVE  TypeOK'
<1> USE DEF TypeOK, disk
<1>0. /\ Moved("memory", "payload") \in [News -> Places]
      /\ Moved("payload", "file") \in [News -> Places]
      /\ Moved("payload", "memory") \in [News -> Places]
  BY MovedType DEF Places
<1>1. CASE Step
  BY <1>1 DEF Step, Running, Places, News
<1>2. CASE Pause
  BY <1>2 DEF Pause, Running
<1>3. CASE Build
  BY <1>0, <1>3 DEF Build, Running, Closing, Contents
<1>13. CASE WriteText
  BY <1>13 DEF WriteText, Running, Closing, Contents
<1>4. CASE Replace
  BY <1>0, <1>4 DEF Replace, Running, Closing, Contents
<1>5. CASE WriteFails
  BY <1>0, <1>5 DEF WriteFails, Unwritten, Running, Closing
<1>6. CASE AnchorNews
  BY <1>6 DEF AnchorNews, Places, News
<1>7. CASE Interrupt
  BY <1>0, <1>7 DEF Interrupt, Closing
<1>8. CASE ClosePusher
  BY <1>8 DEF ClosePusher, Closing
<1>9. CASE Join
  BY <1>9 DEF Join, Closing
<1>10. CASE Return
  BY <1>10 DEF Return
<1>11. CASE Kill
  BY <1>11 DEF Kill
<1>12. CASE Restart
  <2>1. at' \in [News -> Places]
    BY <1>12 DEF Restart, Places
  <2>2. starts' \in 1..MaxStarts
    BY <1>12 DEF Restart, StartsAssumption
  <2> QED
    BY <1>12, <2>1, <2>2 DEF Restart, Running
<1> QED
  BY <1>1, <1>2, <1>3, <1>4, <1>5, <1>6, <1>7, <1>8, <1>9, <1>10, <1>11, <1>12,
     <1>13 DEF MainStep, Loop, Shutdown

\* The pusher's rounds (_push_once()).
LEMMA PusherType ==
    ASSUME TypeOK, PusherStep
    PROVE  TypeOK'
<1> USE DEF TypeOK, ByPusher, To
<1>0. /\ Moved("file", "head") \in [News -> Places]
      /\ Moved("head", "origin") \in [News -> Places]
  BY MovedType DEF Places
<1>1. CASE Wake \/ EndPusher \/ NothingNew \/ SomethingNew \/ GitFails
  BY <1>1 DEF Wake, EndPusher, NothingNew, SomethingNew, GitFails
<1>2. CASE Add
  BY <1>2 DEF Add
<1>3. CASE Commit
  BY <1>0, <1>3 DEF Commit, Contents
<1>4. CASE Push
  BY <1>0, <1>4 DEF Push, Contents
<1> QED
  BY <1>1, <1>2, <1>3, <1>4 DEF PusherStep, Round

\* Every step keeps the types.
LEMMA TypeStep ==
    ASSUME StartsAssumption, TypeOK, [Next]_vars
    PROVE  TypeOK'
<1>1. CASE UNCHANGED vars
  BY <1>1 DEF vars, disk, TypeOK
<1> QED
  BY <1>1, MainType, PusherType, NextParts

\* They hold at the first start (main()).
LEMMA InitType ==
    ASSUME StartsAssumption, Init
    PROVE  TypeOK
<1>1. tree \in [dirty : BOOLEAN, staged : BOOLEAN, ahead : BOOLEAN]
  BY DEF Init
<1>2. starts \in 1..MaxStarts
  BY DEF Init, StartsAssumption
<1>3. at \in [News -> Places]
  BY DEF Init, Places
<1>4. {file, tmp, head, origin} \subseteq Contents /\ failed \in BOOLEAN /\ stop \in BOOLEAN
  BY DEF Init, Contents
<1> QED
  BY <1>1, <1>2, <1>3, <1>4 DEF Init, TypeOK, Running

\* Type correctness of the two threads and the repository.
THEOREM PushTypeCorrect ==
    ASSUME StartsAssumption
    PROVE  Spec => []TypeOK
<1>1. Init => TypeOK
  BY InitType
<1>2. TypeOK /\ [Next]_vars => TypeOK'
  BY TypeStep
<1> QED
  BY <1>1, <1>2, PTL DEF Spec

-----------------------------------------------------------------------------
(* The last snapshot.                                                      *)

\* News is in a payload only while a write is under way.  Once the interrupted
\* loop has gathered its last payload no trade is left behind in memory, for
\* step() does not run again; and from there on a write that did not fail has
\* taken it to the file.
FlushInv ==
    /\ TypeOK
    /\ at["trade"] = "payload" =>
           main \in {"text", "swap", "last text", "last swap", "killed"}
    /\ main \in {"last text", "last swap"} => at["trade"] # "memory"
    /\ main \in {"close", "join", "drain", "over"} /\ ~failed =>
           at["trade"] \notin {"memory", "payload"}

\* What a step does to the news of a trade depends on where the news is.
LEMMA FlushStep ==
    ASSUME StartsAssumption, FlushInv, [Next]_vars
    PROVE  FlushInv'
<1>1. TypeOK /\ TypeOK' /\ at \in [News -> Places] /\ "trade" \in News
  BY TypeStep DEF FlushInv, TypeOK, News
<1>2. \A from, to \in Places :
        Moved(from, to)["trade"] = IF at["trade"] = from THEN to ELSE at["trade"]
  BY <1>1, MovedType
<1>3. {"memory", "payload", "file", "head", "origin"} \subseteq Places
  BY DEF Places
<1>4. CASE Step
  BY <1>1, <1>4 DEF Step, FlushInv
<1>5. CASE Pause
  BY <1>1, <1>5 DEF Pause, FlushInv
<1>6. CASE Build
  <2>1. at'["trade"] = IF at["trade"] = "memory" THEN "payload" ELSE at["trade"]
    BY <1>2, <1>3, <1>6 DEF Build
  <2> QED
    BY <1>1, <1>6, <2>1 DEF Build, FlushInv
<1>7. CASE Replace
  <2>1. at'["trade"] = IF at["trade"] = "payload" THEN "file" ELSE at["trade"]
    BY <1>2, <1>3, <1>7 DEF Replace
  <2> QED
    BY <1>1, <1>7, <2>1 DEF Replace, FlushInv
<1>8. CASE WriteFails
  <2>1. at'["trade"] = IF at["trade"] = "payload" THEN "memory" ELSE at["trade"]
    BY <1>2, <1>3, <1>8 DEF WriteFails
  <2> QED
    BY <1>1, <1>8, <2>1 DEF WriteFails, Unwritten, FlushInv
<1>9. CASE AnchorNews
  BY <1>1, <1>9 DEF AnchorNews, FlushInv
<1>10. CASE Interrupt
  <2>1. at'["trade"] = IF at["trade"] = "payload" THEN "memory" ELSE at["trade"]
    BY <1>2, <1>3, <1>10 DEF Interrupt
  <2> QED
    BY <1>1, <1>10, <2>1 DEF Interrupt, FlushInv
<1>11. CASE ClosePusher \/ Join \/ Return \/ Kill
  BY <1>1, <1>11 DEF ClosePusher, Join, Return, Kill, FlushInv
<1>12. CASE Restart
  <2>1. at'["trade"] \notin {"memory", "payload"} /\ main' = "step"
    BY <1>1, <1>12 DEF Restart
  <2> QED
    BY <1>1, <2>1 DEF FlushInv
<1>13. CASE PusherStep
  <2>1. UNCHANGED <<main, failed>>
    BY <1>13 DEF PusherStep, Round, Wake, EndPusher, Add, NothingNew, SomethingNew,
       Commit, Push, GitFails, ByPusher
  <2>2. at' = at \/ at' = Moved("file", "head") \/ at' = Moved("head", "origin")
    BY <1>13 DEF PusherStep, Round, Wake, EndPusher, Add, NothingNew, SomethingNew,
       Commit, Push, GitFails
  <2>3. at'["trade"] = at["trade"] \/ at'["trade"] \in {"head", "origin"}
    BY <1>2, <1>3, <2>2
  <2> QED
    BY <1>1, <2>1, <2>3 DEF FlushInv
<1>14. CASE WriteText
  BY <1>1, <1>14 DEF WriteText, FlushInv
<1>15. CASE UNCHANGED vars
  BY <1>1, <1>15 DEF vars, FlushInv
<1> QED
  BY <1>4, <1>5, <1>6, <1>7, <1>8, <1>9, <1>10, <1>11, <1>12, <1>13, <1>14, <1>15,
     NextParts DEF MainStep, Loop, Shutdown

\* A trade is in the file when main() returns, unless the last write failed,
\* whenever the loop was interrupted (main(), the final snapshot).
THEOREM TradeFlushedHolds ==
    ASSUME StartsAssumption
    PROVE  Spec => []TradeFlushed
<1>1. Init => FlushInv
  BY InitType DEF Init, FlushInv, News
<1>2. FlushInv /\ [Next]_vars => FlushInv'
  BY FlushStep
<1>3. FlushInv => TradeFlushed
  BY DEF FlushInv, TradeFlushed
<1> QED
  BY <1>1, <1>2, <1>3, PTL DEF Spec

-----------------------------------------------------------------------------
(* What is committed.                                                      *)

\* What is about to be swapped in was written to its end, by this very write:
\* the text that an interrupted one left behind is opened anew before.
WholeInv ==
    /\ NeverPartial
    /\ main \in {"swap", "last swap"} => tmp = "whole"

\* The file changes by os.replace() only, and a commit takes the file.
LEMMA ContentStep ==
    ASSUME WholeInv, [Next]_vars
    PROVE  WholeInv'
<1>1. file # "partial" /\ head # "partial" /\ origin # "partial"
  BY DEF WholeInv, NeverPartial
<1> USE <1>1 DEF WholeInv, NeverPartial
<1>2. CASE Step \/ Pause \/ AnchorNews \/ Interrupt
  BY <1>2 DEF Step, Pause, AnchorNews, Interrupt, disk
<1>3. CASE Build
  BY <1>3 DEF Build
<1>4. CASE WriteText
  BY <1>4 DEF WriteText
<1>5. CASE Replace
  BY <1>5 DEF Replace
<1>6. CASE WriteFails
  BY <1>6 DEF WriteFails, Unwritten, disk
<1>7. CASE ClosePusher \/ Join \/ Return \/ Kill \/ Restart
  BY <1>7 DEF ClosePusher, Join, Return, Kill, Restart, disk
<1>8. CASE Wake \/ EndPusher \/ Add \/ NothingNew \/ SomethingNew \/ GitFails
  BY <1>8 DEF Wake, EndPusher, Add, NothingNew, SomethingNew, GitFails, ByPusher
<1>9. CASE Commit \/ Push
  BY <1>9 DEF Commit, Push, ByPusher
<1>10. CASE UNCHANGED vars
  BY <1>10 DEF vars, disk
<1> QED
  BY <1>2, <1>3, <1>4, <1>5, <1>6, <1>7, <1>8, <1>9, <1>10, NextParts
     DEF MainStep, PusherStep, Loop, Shutdown, Round

\* Neither the file nor a commit nor the published copy is ever a part of a
\* snapshot, wherever a write is cut short and the process is killed (write(),
\* _push_once()).
THEOREM NeverPartialHolds == Spec => []NeverPartial
<1>1. Init => WholeInv
  BY DEF Init, WholeInv, NeverPartial
<1>2. WholeInv /\ [Next]_vars => WholeInv'
  BY ContentStep
<1>3. WholeInv => NeverPartial
  BY DEF WholeInv
<1> QED
  BY <1>1, <1>2, <1>3, PTL DEF Spec
=============================================================================
