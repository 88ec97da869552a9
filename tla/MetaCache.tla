----------------------------- MODULE MetaCache -----------------------------
(***************************************************************************)
(* The metadata cache of HyperliquidSource (core/data.py): one payload of  *)
(* marks and funding rates for the whole universe, checked without its     *)
(* lock, refreshed under it.  The threads that call _meta() are those of   *)
(* fetch_board() and, behind a WebSocket source, the background poll.      *)
(*                                                                         *)
(* A payload is known by the moment at which the exchange produced it,     *)
(* which the program never sees: it stamps the arrival.  Kept beside it    *)
(* for the properties: when the request that brought it was sent.          *)
(* A request counts as under way from its first attempt to its last: the   *)
(* two repetitions after a 429 and their pauses are spent with the lock    *)
(* held as well.                                                           *)
(***************************************************************************)
EXTENDS Integers

CONSTANTS
    Callers,    \* the threads that call _meta()
    Nobody,     \* holder of a free lock
    TTL,        \* meta_ttl_s; 0 disables the cache
    MaxTime     \* bound: the clock stops here

ASSUME CallersAssumption == Nobody \notin Callers
ASSUME TimesAssumption == TTL \in Nat /\ MaxTime \in Nat

VARIABLES
    now,        \* time.monotonic()
    cache,      \* _meta_cache: when it was stored, when it was produced,
                \* when it was asked for
    lock,       \* _meta_lock: who holds it
    call,       \* per thread: where it is in _meta(), its first reading of
                \* the clock, when its request was sent and when the
                \* payload was produced
    answer      \* what the last _meta() of each thread returned; Cold if it
                \* raised or has not returned

vars == <<now, cache, lock, call, answer>>

Payload == [at : Nat, seen : Nat, sent : Nat]
Cold == [at |-> -1, seen |-> -1, sent |-> -1]
Out == [pc |-> "out", began |-> 0, sent |-> 0, seen |-> 0]
Holding == {"inside", "post", "reply"}

TypeOK ==
    /\ now \in Nat
    /\ cache \in Payload \cup {Cold}
    /\ lock \in Callers \cup {Nobody}
    /\ call \in [Callers -> [pc : {"out", "fast", "wait"} \cup Holding,
                             began : Nat, sent : Nat, seen : Nat]]
    /\ answer \in [Callers -> Payload \cup {Cold}]

Init ==
    /\ now = 0
    /\ cache = Cold
    /\ lock = Nobody
    /\ call = [c \in Callers |-> Out]
    /\ answer = [c \in Callers |-> Cold]

-----------------------------------------------------------------------------
\* Mutant: a payload once in the cache is used whatever its age.
FreshWithoutAge(e, t) == e # Cold /\ TTL > 0

\* The three tests before a cached payload is used.
Fresh(e, t) == e # Cold /\ TTL > 0 /\ t - e.at < TTL

At(c, pc) == call[c].pc = pc
Goto(c, pc) == call' = [call EXCEPT ![c].pc = pc]

\* _meta() returns e, or raises.
Return(c, e) ==
    /\ call' = [call EXCEPT ![c] = Out]
    /\ answer' = [answer EXCEPT ![c] = e]

Enter(c) ==
    /\ At(c, "out")
    /\ call' = [call EXCEPT ![c] =
                  [pc |-> "fast", began |-> now, sent |-> 0, seen |-> 0]]
    /\ answer' = [answer EXCEPT ![c] = Cold]
    /\ UNCHANGED <<now, cache, lock>>

\* The clock was read before the cache: both may have changed in between.
FastPath(c) ==
    /\ At(c, "fast")
    /\ IF Fresh(cache, call[c].began)
         THEN Return(c, cache)
         ELSE Goto(c, "wait") /\ UNCHANGED answer
    /\ UNCHANGED <<now, cache, lock>>

\* Mutant: the refresh does not take the lock.
AcquireNothing(c) ==
    At(c, "wait") /\ Goto(c, "inside") /\ UNCHANGED <<now, cache, lock, answer>>

Acquire(c) ==
    /\ At(c, "wait")
    /\ lock = Nobody
    /\ lock' = c
    /\ Goto(c, "inside")
    /\ UNCHANGED <<now, cache, answer>>

Post(c) == call' = [call EXCEPT ![c].pc = "post", ![c].sent = now]

\* Mutant: no second look at the cache under the lock.
RecheckSkipped(c) ==
    At(c, "inside") /\ Post(c) /\ UNCHANGED <<now, cache, lock, answer>>

Recheck(c) ==
    /\ At(c, "inside")
    /\ IF Fresh(cache, now)
         THEN Return(c, cache) /\ lock' = Nobody
         ELSE Post(c) /\ UNCHANGED <<answer, lock>>
    /\ UNCHANGED <<now, cache>>

\* The exchange produces the payload; it is on its way.
Serve(c) ==
    /\ At(c, "post")
    /\ call' = [call EXCEPT ![c].pc = "reply", ![c].seen = now]
    /\ UNCHANGED <<now, cache, lock, answer>>

\* The payload is stamped when it arrives, not when it was produced.
Arrive(c) ==
    /\ At(c, "reply")
    /\ cache' = [at |-> now, seen |-> call[c].seen, sent |-> call[c].sent]
    /\ Return(c, cache')
    /\ lock' = Nobody
    /\ UNCHANGED now

\* Mutant: an exception leaves the lock taken.
FailHolding(c) ==
    /\ call[c].pc \in {"post", "reply"}
    /\ Return(c, Cold)
    /\ UNCHANGED <<now, cache, lock>>

\* A timeout, an error status, a third 429 or an unreadable body.
Fail(c) ==
    /\ call[c].pc \in {"post", "reply"}
    /\ Return(c, Cold)
    /\ lock' = Nobody
    /\ UNCHANGED <<now, cache>>

Tick == now < MaxTime /\ now' = now + 1 /\ UNCHANGED <<cache, lock, call, answer>>

\* What a thread does inside _meta().
InMeta(c) ==
    FastPath(c) \/ Acquire(c) \/ Recheck(c) \/ Serve(c) \/ Arrive(c) \/ Fail(c)

Next == Tick \/ \E c \in Callers : Enter(c) \/ InMeta(c)

Spec == Init /\ [][Next]_vars

-----------------------------------------------------------------------------
(* Properties.                                                             *)

\* One request for the metadata at a time, however many threads miss: whoever
\* is between the lock and its release holds it alone (data.py, _meta: "so
\* concurrent fetch_board threads do not all hit the network on a cache miss").
OneRequest ==
    \A c \in Callers : call[c].pc \in Holding <=> lock = c

\* Calls look atomic: each returns a payload that was fresh when the call
\* began or one produced during it, payloads never go back in time, and two
\* refreshes are a time to live apart.
asked == [c \in Callers |-> IF call[c].pc = "out" THEN -1 ELSE call[c].began]
Abstract == INSTANCE FreshMeta WITH held <- cache
Atomic == Abstract!Spec
=============================================================================
