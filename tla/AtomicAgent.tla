---------------------------- MODULE AtomicAgent ----------------------------
(***************************************************************************)
(* What the trading loop may assume of the agent call that runs beside it  *)
(* (cli/run.py, core/synthesis.py): an answer was formed on the positions  *)
(* as they were together at one instant of the call, and while a call is   *)
(* under way the loop closes positions but opens none.                     *)
(***************************************************************************)
CONSTANT Assets

VARIABLES
    open,       \* assets with an open position
    call,       \* the call: none, asked, read, told or failed
    listed      \* the positions the call has read

vars == <<open, call, listed>>

Init ==
    /\ open = {}
    /\ call = "none"
    /\ listed = {}

\* A fill of the loop; only a close while a call is under way.
Trade ==
    /\ open' \in SUBSET (IF call \in {"asked", "read"} THEN open ELSE Assets)
    /\ UNCHANGED <<call, listed>>

Ask ==
    /\ call \in {"none", "told", "failed"}
    /\ call' = "asked"
    /\ listed' = {}
    /\ UNCHANGED open

Read ==
    /\ call = "asked"
    /\ call' = "read"
    /\ listed' = open
    /\ UNCHANGED open

Tell == call = "read" /\ call' = "told" /\ UNCHANGED <<open, listed>>

Fail ==
    /\ call \in {"asked", "read"}
    /\ call' = "failed"
    /\ listed' = {}
    /\ UNCHANGED open

\* The loop takes the answer and trades on it.
Take ==
    /\ call \in {"told", "failed"}
    /\ call' = "none"
    /\ listed' = {}
    /\ open' \in SUBSET Assets

\* The process is told to end: a call no thread has taken is cancelled.
Cancel ==
    /\ call = "asked"
    /\ call' = "none"
    /\ UNCHANGED <<open, listed>>

Next == Trade \/ Ask \/ Read \/ Tell \/ Fail \/ Take \/ Cancel

Spec == Init /\ [][Next]_vars
=============================================================================
