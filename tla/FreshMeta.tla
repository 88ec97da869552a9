----------------------------- MODULE FreshMeta -----------------------------
(***************************************************************************)
(* What HyperliquidSource._meta() (core/data.py) promises its callers: a   *)
(* call acts at one instant between its start and its return.  It gives    *)
(* the payload held, which was younger than the time to live when the      *)
(* call began, or, once that payload has expired, replaces it by a newer   *)
(* one; or it raises.                                                      *)
(***************************************************************************)
EXTENDS Integers

CONSTANTS
    Callers,    \* the threads that call _meta()
    TTL         \* meta_ttl_s; 0 disables the cache

VARIABLES
    now,        \* time.monotonic()
    held,       \* the payload held: when it was stored, which moment it shows
                \* and when it was asked for
    asked,      \* when each call under way began, Idle for none
    answer      \* what each caller's last call gave; Cold if it raised or has
                \* not returned

vars == <<now, held, asked, answer>>

Idle == -1
Cold == [at |-> -1, seen |-> -1, sent |-> -1]

\* The payload e may serve a call that read the clock at t.
Fresh(e, t) == e # Cold /\ t - e.at < TTL

Init ==
    /\ now = 0
    /\ held = Cold
    /\ asked = [c \in Callers |-> Idle]
    /\ answer = [c \in Callers |-> Cold]

Tick == now' = now + 1 /\ UNCHANGED <<held, asked, answer>>

Ask(c) ==
    /\ asked[c] = Idle
    /\ asked' = [asked EXCEPT ![c] = now]
    /\ answer' = [answer EXCEPT ![c] = Cold]
    /\ UNCHANGED <<now, held>>

Give(c, e) ==
    /\ asked[c] # Idle
    /\ asked' = [asked EXCEPT ![c] = Idle]
    /\ answer' = [answer EXCEPT ![c] = e]
    /\ UNCHANGED now

GiveHeld(c) == Fresh(held, asked[c]) /\ Give(c, held) /\ UNCHANGED held

\* The new payload was asked for during this very call, shows the market at a
\* later moment of it, and no earlier one than the payload it replaces.
GiveNew(c) ==
    \E p \in asked[c]..now : \E s \in p..now :
        /\ s >= held.seen
        /\ ~Fresh(held, now)
        /\ held' = [at |-> now, seen |-> s, sent |-> p]
        /\ Give(c, held')

Raise(c) == Give(c, Cold) /\ UNCHANGED held

Next ==
    \/ Tick
    \/ \E c \in Callers : Ask(c) \/ GiveHeld(c) \/ GiveNew(c) \/ Raise(c)

Spec == Init /\ [][Next]_vars
=============================================================================
