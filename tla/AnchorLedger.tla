---------------------------- MODULE AnchorLedger ----------------------------
(***************************************************************************)
(* What outlives the process of the anchoring of trades (agent/audit.py,   *)
(* agent/anchor_worker.py, agent/on_chain.py): the records made, the rows  *)
(* of the audit store and the requests Circle took.  A record is persisted *)
(* before it is sent, sent at most once, and stored with its transaction   *)
(* only after it was taken; nothing of this is ever undone, and to         *)
(* interrupt, crash or restart the program changes nothing in it.          *)
(***************************************************************************)
EXTENDS Naturals

CONSTANTS Ids, NoTx

VARIABLES
    made,      \* records that were given an id
    rows,      \* rows of the store: a record, and its transaction or none
    accepted   \* requests to anchor that were taken, by record

vars == <<made, rows, accepted>>

Unanchored(i) == [id |-> i, tx |-> NoTx]
Anchored(i) == [id |-> i, tx |-> i]

Init ==
    /\ made = {}
    /\ rows = {}
    /\ accepted = [i \in Ids |-> 0]

Make(i) ==
    /\ i \notin made
    /\ made' = made \cup {i}
    /\ UNCHANGED <<rows, accepted>>

Persist(i) ==
    /\ i \in made
    /\ accepted[i] = 0
    /\ rows' = rows \cup {Unanchored(i)}
    /\ UNCHANGED <<made, accepted>>

\* What is sent is the digest of the row without a transaction: it is there.
Anchor(i) ==
    /\ Unanchored(i) \in rows
    /\ accepted[i] = 0
    /\ accepted' = [accepted EXCEPT ![i] = 1]
    /\ UNCHANGED <<made, rows>>

Note(i) ==
    /\ accepted[i] = 1
    /\ rows' = rows \cup {Anchored(i)}
    /\ UNCHANGED <<made, accepted>>

Next == \E i \in Ids : Make(i) \/ Persist(i) \/ Anchor(i) \/ Note(i)

Spec == Init /\ [][Next]_vars
=============================================================================
