-------------------------- MODULE MarketFeedProofs --------------------------
(***************************************************************************)
(* Theorems about MetaCache and MarketFeed, for every set of threads and   *)
(* coins, every time to live, and either data source.                      *)
(***************************************************************************)
EXTENDS MarketFeed, TLAPS

-----------------------------------------------------------------------------
(* The metadata cache.                                                     *)

\* A payload is asked for, produced and stored in this order, and nothing of it
\* is in the future; a request under way was sent since its call began, found
\* no fresh payload, and what it brings is no older than its sending or than
\* what is held.
MetaInv ==
    /\ TypeOK
    /\ OneRequest
    /\ cache # Cold => cache.sent <= cache.seen /\ cache.seen <= cache.at
                        /\ cache.at <= now
    /\ \A c \in Callers :
        /\ call[c].pc # "out" => call[c].began <= now
        /\ call[c].pc \in {"post", "reply"} =>
            /\ ~Fresh(cache, now)
            /\ call[c].began <= call[c].sent /\ call[c].sent <= now
        /\ call[c].pc = "reply" =>
            /\ call[c].sent <= call[c].seen /\ call[c].seen <= now
            /\ cache.seen <= call[c].seen

CallRecord ==
    [pc : {"out", "fast", "wait", "inside", "post", "reply"}, began : Nat,
     sent : Nat, seen : Nat]

\* The fields of a payload (HyperliquidSource._meta_cache).
LEMMA PayloadFields ==
    ASSUME NEW e \in Payload \cup {Cold}
    PROVE  /\ e.at \in Int /\ e.seen \in Int /\ e.sent \in Int
           /\ e # Cold => e.at \in Nat /\ e.seen \in Nat /\ e.sent \in Nat
           /\ e = Cold => e.at = -1 /\ e.seen = -1 /\ e.sent = -1
BY DEF Payload, Cold

\* The fields of a call (the frame of _meta() on one thread).
LEMMA CallFields ==
    ASSUME TypeOK, NEW c \in Callers
    PROVE  /\ call \in [Callers -> CallRecord] /\ call[c] \in CallRecord
           /\ call[c].began \in Nat /\ call[c].seen \in Nat
           /\ call[c].sent \in Nat
BY DEF TypeOK, CallRecord, Holding

\* What sending the request changes (the second look of _meta()).
LEMMA PostRecord ==
    ASSUME TypeOK, NEW c \in Callers, Post(c)
    PROVE  call' = [call EXCEPT ![c] =
                      [pc |-> "post", began |-> call[c].began, sent |-> now,
                       seen |-> call[c].seen]]
<1>1. PICK r : r = call[c] /\ r \in CallRecord
  BY CallFields
<1>2. call' = [call EXCEPT ![c] = [r EXCEPT !.pc = "post", !.sent = now]]
  BY <1>1 DEF Post
<1>3. [r EXCEPT !.pc = "post"]
        = [pc |-> "post", began |-> r.began, sent |-> r.sent, seen |-> r.seen]
  BY <1>1 DEF CallRecord
<1>4. [[pc |-> "post", began |-> r.began, sent |-> r.sent, seen |-> r.seen]
          EXCEPT !.sent = now]
        = [pc |-> "post", began |-> r.began, sent |-> now, seen |-> r.seen]
  OBVIOUS
<1> QED
  BY <1>1, <1>2, <1>3, <1>4

\* One step of one thread changes that thread's entries only, and the type of
\* the state is kept (_meta()).
LEMMA MetaTypeStep ==
    ASSUME TypeOK, TimesAssumption, CallersAssumption,
           NEW c \in Callers, Enter(c) \/ InMeta(c)
    PROVE  TypeOK' /\ now' = now
<1> USE DEF TypeOK, Payload, Cold, Holding
<1>1. CASE Enter(c)
  BY <1>1 DEF Enter, At
<1>2. CASE FastPath(c)
  BY <1>2 DEF FastPath, Return, Goto, Out
<1>3. CASE Acquire(c)
  BY <1>3 DEF Acquire, Goto
<1>4. CASE Recheck(c)
  <2>1. CASE Post(c)
    BY <1>4, <2>1, PostRecord DEF Recheck, Return
  <2>2. CASE ~Post(c)
    BY <1>4, <2>2 DEF Recheck, Return, Out
  <2> QED
    BY <2>1, <2>2
<1>5. CASE Serve(c)
  BY <1>5 DEF Serve
<1>6. CASE Arrive(c)
  <2>1. call[c].seen \in Nat /\ call[c].sent \in Nat
    OBVIOUS
  <2>2. cache' \in Payload
    BY <1>6, <2>1 DEF Arrive
  <2> QED
    BY <1>6, <2>2 DEF Arrive, Return, Out
<1>7. CASE Fail(c)
  BY <1>7 DEF Fail, Return, Out
<1> QED
  BY <1>1, <1>2, <1>3, <1>4, <1>5, <1>6, <1>7 DEF InMeta

\* The invariant holds before the first request (HyperliquidSource.__init__).
LEMMA MetaInitially ==
    ASSUME Init, CallersAssumption
    PROVE  MetaInv
BY DEF Init, MetaInv, TypeOK, OneRequest, CallersAssumption, Cold, Out, Payload,
   Holding

\* Every step of a thread inside _meta() keeps it.
LEMMA MetaThreadStep ==
    ASSUME MetaInv, TimesAssumption, CallersAssumption,
           NEW c \in Callers, Enter(c) \/ InMeta(c)
    PROVE  MetaInv'
<1>1. TypeOK /\ TypeOK' /\ now' = now /\ now \in Nat
  BY MetaTypeStep DEF MetaInv, TypeOK
<1>2. \A d \in Callers : call[d] \in CallRecord /\ call'[d] \in CallRecord
  BY <1>1 DEF TypeOK, CallRecord, Holding
<1>3. call \in [Callers -> CallRecord]
  BY <1>1 DEF TypeOK, CallRecord, Holding
<1>4. OneRequest
  BY DEF MetaInv
<1>5. PICK e : cache = e /\ e \in Payload \cup {Cold}
  BY <1>1 DEF TypeOK
<1>6. e.at \in Int /\ e.seen \in Int /\ (e = Cold => e.seen = -1 /\ e.at = -1)
      /\ \A d \in Callers : call[d].began \in Nat /\ call[d].sent \in Nat
                              /\ call[d].seen \in Nat
  BY <1>1, <1>5, PayloadFields, CallFields
<1>7. CASE Enter(c)
  <2>1. /\ call' = [call EXCEPT ![c] =
                       [pc |-> "fast", began |-> now, sent |-> 0, seen |-> 0]]
        /\ call[c].pc = "out" /\ UNCHANGED <<now, cache, lock>>
    BY <1>7 DEF Enter, At
  <2>2. call'[c].pc = "fast" /\ call'[c].began = now
    BY <2>1, <1>3
  <2>3. \A d \in Callers : d # c => call'[d] = call[d]
    BY <2>1, <1>3
  <2> QED
    BY <1>1, <1>4, <2>1, <2>2, <2>3 DEF MetaInv, OneRequest, Holding
<1>8. CASE FastPath(c)
  <2>1. /\ call[c].pc = "fast" /\ UNCHANGED <<now, cache, lock>>
        /\ call' = [call EXCEPT ![c] = Out] \/ call' = [call EXCEPT ![c].pc = "wait"]
    BY <1>8 DEF FastPath, At, Return, Goto
  <2>2. call'[c].pc \in {"out", "wait"} /\ (call'[c].pc # "out" => call'[c].began = call[c].began)
    BY <2>1, <1>3, <1>2 DEF Out, CallRecord
  <2>3. \A d \in Callers : d # c => call'[d] = call[d]
    BY <2>1, <1>3
  <2> QED
    BY <1>1, <1>4, <2>1, <2>2, <2>3 DEF MetaInv, OneRequest, Holding
<1>9. CASE Acquire(c)
  <2>1. /\ call[c].pc = "wait" /\ UNCHANGED <<now, cache>>
        /\ lock = Nobody /\ lock' = c
        /\ call' = [call EXCEPT ![c].pc = "inside"]
    BY <1>9 DEF Acquire, At, Goto
  <2>2. call'[c].pc = "inside" /\ call'[c].began = call[c].began
    BY <2>1, <1>3, <1>2 DEF CallRecord
  <2>3. \A d \in Callers : d # c => call'[d] = call[d]
    BY <2>1, <1>3
  <2> QED
    BY <1>1, <1>4, <2>1, <2>2, <2>3 DEF MetaInv, OneRequest, Holding, CallersAssumption
<1>10. CASE Recheck(c)
  <2>1. /\ call[c].pc = "inside" /\ UNCHANGED <<now, cache>>
        /\ \/ call' = [call EXCEPT ![c] = Out] /\ lock' = Nobody
           \/ Post(c) /\ lock' = lock /\ ~Fresh(cache, now)
    BY <1>10 DEF Recheck, At, Return
  <2>2. /\ \/ call'[c].pc = "out" /\ lock' = Nobody
           \/ /\ call'[c].pc = "post" /\ lock' = lock /\ ~Fresh(cache, now)
              /\ call'[c].began = call[c].began /\ call'[c].sent = now
        /\ \A d \in Callers : d # c => call'[d] = call[d]
    <3>1. CASE Post(c)
      BY <2>1, <3>1, <1>1, <1>3, PostRecord DEF Out
    <3>2. CASE ~Post(c)
      BY <2>1, <3>2, <1>3 DEF Out
    <3> QED
      BY <3>1, <3>2
  <2>4. Fresh(cache, now)' <=> Fresh(cache, now)
    BY <2>1 DEF Fresh
  <2>5. call[c].began <= now
    BY <2>1 DEF MetaInv
  <2>6. OneRequest'
    BY <1>4, <2>1, <2>2 DEF OneRequest, Holding, CallersAssumption
  <2> QED
    BY <1>1, <2>1, <2>2, <2>4, <2>5, <2>6 DEF MetaInv
<1>11. CASE Serve(c)
  <2>1. /\ call[c].pc = "post" /\ UNCHANGED <<now, cache, lock>>
        /\ call' = [call EXCEPT ![c].pc = "reply", ![c].seen = now]
    BY <1>11 DEF Serve, At
  <2>2. /\ call'[c].pc = "reply" /\ call'[c].began = call[c].began
        /\ call'[c].seen = now /\ call'[c].sent = call[c].sent
    BY <2>1, <1>3, <1>2 DEF CallRecord
  <2>3. \A d \in Callers : d # c => call'[d] = call[d]
    BY <2>1, <1>3
  <2>4. /\ ~Fresh(cache, now) /\ call[c].began <= now
        /\ call[c].began <= call[c].sent /\ call[c].sent <= now
    BY <2>1 DEF MetaInv
  <2>5. cache.seen <= now
    BY <1>1, <1>5, <1>6 DEF MetaInv
  <2>6. Fresh(cache, now)' <=> Fresh(cache, now)
    BY <2>1 DEF Fresh
  <2>7. OneRequest'
    BY <1>4, <2>1, <2>2, <2>3 DEF OneRequest, Holding
  <2>8. /\ call'[c].began <= call'[c].sent /\ call'[c].sent <= now
        /\ call'[c].sent <= call'[c].seen /\ call'[c].seen <= now
        /\ cache.seen <= call'[c].seen
    BY <1>1, <2>2, <2>4, <2>5
  <2> QED
    BY <1>1, <2>1, <2>2, <2>3, <2>4, <2>6, <2>7, <2>8 DEF MetaInv
<1>12. CASE Arrive(c)
  <2>1. /\ call[c].pc = "reply" /\ now' = now
        /\ cache' = [at |-> now, seen |-> call[c].seen, sent |-> call[c].sent]
        /\ lock' = Nobody
        /\ call' = [call EXCEPT ![c] = Out]
    BY <1>12 DEF Arrive, At, Return
  <2>2. call'[c].pc = "out"
    BY <2>1, <1>3 DEF Out
  <2>3. \A d \in Callers : d # c => call'[d] = call[d]
    BY <2>1, <1>3
  <2>4. call[c].sent <= call[c].seen /\ call[c].seen <= now
    BY <2>1 DEF MetaInv
  <2>5. lock = c
    BY <2>1, <1>4 DEF OneRequest, Holding
  <2>6. \A d \in Callers : call'[d].pc \notin Holding
    BY <2>2, <2>3, <2>5, <1>4 DEF OneRequest, Holding
  <2>7. cache'.sent <= cache'.seen /\ cache'.seen <= cache'.at /\ cache'.at <= now'
    BY <2>1, <2>4, <1>1
  <2>8. OneRequest'
    BY <2>1, <2>6 DEF OneRequest, CallersAssumption
  <2>9. \A d \in Callers : call'[d].pc # "out" => call'[d].began <= now
    BY <2>2, <2>3 DEF MetaInv
  <2> QED
    BY <1>1, <2>6, <2>7, <2>8, <2>9 DEF MetaInv, Holding
<1>13. CASE Fail(c)
  <2>1. /\ call[c].pc \in {"post", "reply"} /\ UNCHANGED <<now, cache>>
        /\ lock' = Nobody
        /\ call' = [call EXCEPT ![c] = Out]
    BY <1>13 DEF Fail, Return
  <2>2. call'[c].pc = "out"
    BY <2>1, <1>3 DEF Out
  <2>3. \A d \in Callers : d # c => call'[d] = call[d]
    BY <2>1, <1>3
  <2>5. lock = c
    BY <2>1, <1>4 DEF OneRequest, Holding
  <2>6. \A d \in Callers : call'[d].pc \notin Holding
    BY <2>2, <2>3, <2>5, <1>4 DEF OneRequest, Holding
  <2> QED
    BY <1>1, <2>1, <2>2, <2>3, <2>6 DEF MetaInv, OneRequest, Holding, CallersAssumption
<1> QED
  BY <1>7, <1>8, <1>9, <1>10, <1>11, <1>12, <1>13 DEF InMeta

\* So does the passing of time: a payload that has expired stays expired.
LEMMA MetaTick ==
    ASSUME MetaInv, TimesAssumption, Tick
    PROVE  MetaInv'
<1>1. now \in Nat /\ now' = now + 1 /\ UNCHANGED <<cache, lock, call, answer>> /\ TypeOK
  BY DEF MetaInv, TypeOK, Tick
<1>2. cache.at \in Int /\ cache.seen \in Int
  BY <1>1, PayloadFields DEF TypeOK
<1>3. ~Fresh(cache, now) => ~Fresh(cache, now)'
  BY <1>1, <1>2 DEF Fresh, TimesAssumption
<1>4. TypeOK'
  BY <1>1 DEF TypeOK
<1>5. \A c \in Callers : call[c].began \in Nat /\ call[c].seen \in Nat
                          /\ call[c].sent \in Nat
  BY <1>1, CallFields
<1> QED
  BY <1>1, <1>2, <1>3, <1>4, <1>5 DEF MetaInv, OneRequest

\* Every step of MetaCache, and every step that leaves it alone.
LEMMA MetaStepKeeps ==
    ASSUME MetaInv, [Next]_vars, TimesAssumption, CallersAssumption
    PROVE  MetaInv'
<1>1. CASE Tick
  BY <1>1, MetaTick
<1>2. ASSUME NEW c \in Callers, Enter(c) \/ InMeta(c)
      PROVE  MetaInv'
  BY <1>2, MetaThreadStep
<1>3. CASE UNCHANGED vars
  BY <1>3 DEF vars, MetaInv, TypeOK, OneRequest, Fresh
<1> QED
  BY <1>1, <1>2, <1>3 DEF Next

\* One request for the metadata at a time, whoever misses (_meta(), alone).
THEOREM OneRequestAlone ==
    ASSUME TimesAssumption, CallersAssumption
    PROVE  Spec => []OneRequest
<1>1. Init => MetaInv
  BY MetaInitially
<1>2. MetaInv /\ [Next]_vars => MetaInv'
  BY MetaStepKeeps
<1>3. MetaInv => OneRequest
  BY DEF MetaInv
<1> QED
  BY <1>1, <1>2, <1>3, PTL DEF Spec

-----------------------------------------------------------------------------
(* The cache implements FreshMeta.                                         *)

\* The moments at which the calls began follow the calls (_meta()).
LEMMA AskedStep ==
    ASSUME TypeOK, NEW c \in Callers, NEW r \in CallRecord,
           call' = [call EXCEPT ![c] = r]
    PROVE  asked' = [asked EXCEPT ![c] = IF r.pc = "out" THEN -1 ELSE r.began]
<1>1. call \in [Callers -> CallRecord]
  BY DEF TypeOK, CallRecord, Holding
<1>2. call'[c] = r /\ \A d \in Callers : d # c => call'[d] = call[d]
  BY <1>1
<1>3. asked' = [d \in Callers |-> IF call'[d].pc = "out" THEN -1 ELSE call'[d].began]
  BY DEF asked
<1>4. asked = [d \in Callers |-> IF call[d].pc = "out" THEN -1 ELSE call[d].began]
  BY DEF asked
<1>5. \A d \in Callers : d # c => asked'[d] = asked[d]
  BY <1>2, <1>3, <1>4
<1>6. asked'[c] = IF r.pc = "out" THEN -1 ELSE r.began
  BY <1>2, <1>3
<1> QED
  BY <1>3, <1>4, <1>5, <1>6

\* The instance, with its substitution spelled out.
LEMMA AbstractParts ==
    /\ Abstract!Init <=> /\ now = 0 /\ cache = Cold
                         /\ asked = [c \in Callers |-> -1]
                         /\ answer = [c \in Callers |-> Cold]
    /\ \A e, t : Abstract!Fresh(e, t) <=> (e # Cold /\ t - e.at < TTL)
BY DEF Abstract!Init, Abstract!Fresh, Abstract!Cold, Abstract!Idle, Cold

\* Each step of a thread is a step of FreshMeta or none: a call that returns
\* from the fast path or from the second look gives what is held, one whose
\* payload arrives gives that, and the steps between are not seen.
LEMMA MetaRefines ==
    ASSUME MetaInv, TimesAssumption, CallersAssumption,
           NEW c \in Callers, Enter(c) \/ InMeta(c)
    PROVE  [Abstract!Next]_(Abstract!vars)
<1>1. TypeOK /\ now \in Nat
  BY DEF MetaInv, TypeOK
<1>2. call \in [Callers -> CallRecord] /\ call[c] \in CallRecord /\ call[c].began \in Nat
  BY <1>1, CallFields
<1>3. cache \in Payload \cup {Cold} /\ cache.at \in Int /\ cache.seen \in Int
  BY <1>1, PayloadFields DEF TypeOK
<1>4. asked[c] = IF call[c].pc = "out" THEN -1 ELSE call[c].began
  BY DEF asked
<1>5. ASSUME NEW p \in {"wait", "inside", "post", "reply"}, NEW q, NEW s,
             call' = [call EXCEPT ![c] = [pc |-> p, began |-> call[c].began,
                                          sent |-> q, seen |-> s]],
             UNCHANGED <<now, cache, answer>>, call[c].pc # "out"
      PROVE  [Abstract!Next]_(Abstract!vars)
  <2>1. /\ call'[c].pc # "out" /\ call'[c].began = call[c].began
        /\ \A d \in Callers : d # c => call'[d] = call[d]
    BY <1>2, <1>5
  <2>2. asked' = asked
    BY <2>1, <1>5 DEF asked
  <2> QED
    BY <2>2, <1>5 DEF Abstract!vars
<1>14. ASSUME NEW p \in {"wait", "inside"}, call' = [call EXCEPT ![c].pc = p]
       PROVE  call' = [call EXCEPT ![c] = [pc |-> p, began |-> call[c].began,
                                           sent |-> call[c].sent, seen |-> call[c].seen]]
  <2>1. PICK r : r = call[c] /\ r \in CallRecord
    BY <1>2
  <2>2. [r EXCEPT !.pc = p]
          = [pc |-> p, began |-> r.began, sent |-> r.sent, seen |-> r.seen]
    BY <2>1 DEF CallRecord
  <2>3. call' = [call EXCEPT ![c] = [r EXCEPT !.pc = p]]
    BY <2>1, <1>14
  <2> QED
    BY <2>1, <2>2, <2>3 DEF CallRecord
<1>6. ASSUME NEW e, Return(c, e), now' = now, call[c].pc # "out"
      PROVE  Abstract!Give(c, e)
  <2>1. asked' = [asked EXCEPT ![c] = -1]
    BY <1>1, <1>6, AskedStep DEF Return, Out, CallRecord
  <2>2. asked[c] # -1
    BY <1>2, <1>4, <1>6
  <2> QED
    BY <2>1, <2>2, <1>6 DEF Abstract!Give, Abstract!Idle, Return
<1>7. CASE Enter(c)
  <2>1. asked' = [asked EXCEPT ![c] = now]
    <3>1. PICK r : r = [pc |-> "fast", began |-> now, sent |-> 0, seen |-> 0]
      OBVIOUS
    <3>2. r \in CallRecord /\ r.pc # "out" /\ r.began = now
      BY <3>1, <1>1 DEF CallRecord
    <3>3. call' = [call EXCEPT ![c] = r]
      BY <3>1, <1>7 DEF Enter
    <3> QED
      BY <1>1, <3>2, <3>3, AskedStep
  <2>2. Abstract!Ask(c)
    BY <2>1, <1>4, <1>7 DEF Abstract!Ask, Abstract!Idle, Abstract!Cold, Cold, Enter, At
  <2> QED
    BY <2>2 DEF Abstract!Next
<1>8. CASE FastPath(c)
  <2>1. call[c].pc = "fast" /\ UNCHANGED <<now, cache>>
    BY <1>8 DEF FastPath, At
  <2>2. CASE Fresh(cache, call[c].began)
    <3>1. Return(c, cache)
      BY <1>8, <2>2 DEF FastPath
    <3>2. Abstract!Fresh(cache, asked[c])
      BY <2>1, <2>2, <1>4, AbstractParts DEF Fresh
    <3>3. Abstract!GiveHeld(c)
      BY <2>1, <3>1, <3>2, <1>6 DEF Abstract!GiveHeld
    <3> QED
      BY <3>3 DEF Abstract!Next
  <2>3. CASE ~Fresh(cache, call[c].began)
    <3>1. call' = [call EXCEPT ![c].pc = "wait"] /\ UNCHANGED answer
      BY <1>8, <2>3 DEF FastPath, Goto
    <3> QED
      BY <3>1, <2>1, <1>2, <1>5, <1>14
  <2> QED
    BY <2>2, <2>3
<1>9. CASE Acquire(c)
  <2>1. /\ call[c].pc = "wait" /\ UNCHANGED <<now, cache, answer>>
        /\ call' = [call EXCEPT ![c].pc = "inside"]
    BY <1>9 DEF Acquire, At, Goto
  <2> QED
    BY <2>1, <1>2, <1>5, <1>14
<1>10. CASE Recheck(c)
  <2>1. call[c].pc = "inside" /\ UNCHANGED <<now, cache>>
    BY <1>10 DEF Recheck, At
  <2>2. CASE Fresh(cache, now)
    <3>1. Return(c, cache)
      BY <1>10, <2>2 DEF Recheck
    <3>2. call[c].began <= now
      BY <2>1 DEF MetaInv
    <3>3. Abstract!Fresh(cache, asked[c])
      BY <2>1, <2>2, <3>2, <1>1, <1>2, <1>3, <1>4, AbstractParts
         DEF Fresh, TimesAssumption
    <3>4. Abstract!GiveHeld(c)
      BY <2>1, <3>1, <3>3, <1>6 DEF Abstract!GiveHeld
    <3> QED
      BY <3>4 DEF Abstract!Next
  <2>3. CASE ~Fresh(cache, now)
    <3>1. Post(c) /\ UNCHANGED answer
      BY <1>10, <2>3 DEF Recheck
    <3> QED
      BY <3>1, <2>1, <1>1, <1>5, PostRecord
  <2> QED
    BY <2>2, <2>3
<1>11. CASE Serve(c)
  <2>1. /\ call[c].pc = "post" /\ UNCHANGED <<now, cache, answer>>
        /\ call' = [call EXCEPT ![c] =
                        [pc |-> "reply", began |-> call[c].began,
                         sent |-> call[c].sent, seen |-> now]]
    <3>1. PICK r : r = call[c] /\ r \in CallRecord
      BY <1>2
    <3>2. [r EXCEPT !.pc = "reply", !.seen = now]
            = [pc |-> "reply", began |-> r.began, sent |-> r.sent, seen |-> now]
      <4>1. [r EXCEPT !.pc = "reply"]
              = [pc |-> "reply", began |-> r.began, sent |-> r.sent, seen |-> r.seen]
        BY <3>1 DEF CallRecord
      <4>2. [[pc |-> "reply", began |-> r.began, sent |-> r.sent, seen |-> r.seen]
                EXCEPT !.seen = now]
              = [pc |-> "reply", began |-> r.began, sent |-> r.sent, seen |-> now]
        OBVIOUS
      <4> QED
        BY <4>1, <4>2
    <3>3. call' = [call EXCEPT ![c].pc = "reply", ![c].seen = now]
      BY <1>11 DEF Serve
    <3>4. call' = [call EXCEPT ![c] = [r EXCEPT !.pc = "reply", !.seen = now]]
      BY <3>1, <3>3, <1>2
    <3>5. call[c].pc = "post" /\ UNCHANGED <<now, cache, answer>>
      BY <1>11 DEF Serve, At
    <3> QED
      BY <3>1, <3>2, <3>4, <3>5
  <2> QED
    BY <2>1, <1>1, <1>5
<1>12. CASE Arrive(c)
  <2>1. /\ call[c].pc = "reply" /\ now' = now
        /\ cache' = [at |-> now, seen |-> call[c].seen, sent |-> call[c].sent]
        /\ Return(c, cache')
    BY <1>12 DEF Arrive, At
  <2>2. /\ call[c].began <= call[c].sent /\ call[c].sent <= now
        /\ call[c].sent <= call[c].seen /\ call[c].seen <= now
        /\ cache.seen <= call[c].seen /\ ~Fresh(cache, now)
    BY <2>1 DEF MetaInv
  <2>3. call[c].sent \in asked[c]..now /\ call[c].seen \in call[c].sent..now
    BY <2>1, <2>2, <1>1, <1>2, <1>4, CallFields
  <2>4. ~Abstract!Fresh(cache, now)
    <3>1. cache # Cold => cache.at <= now
      BY DEF MetaInv
    <3> QED
      BY <2>2, <3>1, <1>1, <1>3, AbstractParts DEF Fresh, TimesAssumption
  <2>5. Abstract!Give(c, cache')
    <3>1. PICK e : e = cache'
      OBVIOUS
    <3>2. Abstract!Give(c, e)
      BY <3>1, <2>1, <1>6
    <3> QED
      BY <3>1, <3>2
  <2>6. Abstract!GiveNew(c)
    <3>1. call[c].seen >= cache.seen
      BY <2>2, <1>1, <1>3, CallFields
    <3> QED
      BY <2>1, <2>3, <2>4, <2>5, <3>1 DEF Abstract!GiveNew
  <2> QED
    BY <2>6 DEF Abstract!Next
<1>13. CASE Fail(c)
  <2>1. call[c].pc # "out" /\ now' = now /\ cache' = cache /\ Return(c, Cold)
    BY <1>13 DEF Fail
  <2>2. Abstract!Raise(c)
    BY <2>1, <1>6 DEF Abstract!Raise, Abstract!Cold, Cold
  <2> QED
    BY <2>2 DEF Abstract!Next
<1> QED
  BY <1>7, <1>8, <1>9, <1>10, <1>11, <1>12, <1>13 DEF InMeta

\* The passing of time is a step of FreshMeta.
LEMMA TickRefines ==
    ASSUME Tick
    PROVE  Abstract!Tick
<1>1. now' = now + 1 /\ UNCHANGED <<cache, lock, call, answer>>
  BY DEF Tick
<1>2. asked' = asked
  BY <1>1 DEF asked
<1> QED
  BY <1>1, <1>2 DEF Abstract!Tick

\* Before the first call both hold nothing.
LEMMA InitRefines ==
    ASSUME Init
    PROVE  Abstract!Init
<1>1. asked = [c \in Callers |-> -1]
  BY DEF Init, Out, asked
<1> QED
  BY <1>1, AbstractParts DEF Init

\* Every step of the cache is one of FreshMeta or none (_meta()).
LEMMA StepRefines ==
    ASSUME MetaInv, [Next]_vars, TimesAssumption, CallersAssumption
    PROVE  [Abstract!Next]_(Abstract!vars)
<1>1. CASE Tick
  BY <1>1, TickRefines DEF Abstract!Next
<1>2. ASSUME NEW c \in Callers, Enter(c) \/ InMeta(c)
      PROVE  [Abstract!Next]_(Abstract!vars)
  BY <1>2, MetaRefines
<1>3. CASE UNCHANGED vars
  BY <1>3 DEF vars, Abstract!vars, asked
<1> QED
  BY <1>1, <1>2, <1>3 DEF Next

\* _meta() implements a cache whose calls are atomic: the lock and the second
\* look lose nothing against an indivisible "give or replace".
THEOREM MetaIsAtomic ==
    ASSUME TimesAssumption, CallersAssumption
    PROVE  Spec => Atomic
<1>1. Init => MetaInv /\ Abstract!Init
  BY MetaInitially, InitRefines
<1>2. MetaInv /\ [Next]_vars => MetaInv'
  BY MetaStepKeeps
<1>3. MetaInv /\ [Next]_vars => [Abstract!Next]_(Abstract!vars)
  BY StepRefines
<1> QED
  BY <1>1, <1>2, <1>3, PTL DEF Spec, Atomic, Abstract!Spec

-----------------------------------------------------------------------------
(* The feed around the cache.                                              *)

Recent(a) ==
    \/ answer[a].seen >= round.began
    \/ round.began - answer[a].seen < TTL + (answer[a].at - answer[a].sent)

\* A coin's thread is inside _meta() only in the stage of that name; the call
\* began after the round, so that what it returned is recent enough.
FeedInv ==
    /\ MetaInv
    /\ FeedTypeOK
    /\ round.began <= now
    /\ \A a \in Coins :
        /\ round.pc # "fetching" => stage[a] \notin Pending
        /\ stage[a] # "meta" => call[a].pc = "out"
        /\ call[a].pc # "out" => round.began <= call[a].began
        /\ stage[a] \in {"meta", "book", "got"} /\ call[a].pc = "out" =>
               (answer[a] = Cold \/ Recent(a))
        /\ stage[a] \in {"book", "got"} => answer[a] # Cold

\* What a step inside _meta() does to its own thread and to the others.
LEMMA MetaEffect ==
    ASSUME MetaInv, TimesAssumption, NEW c \in Callers, InMeta(c)
    PROVE  /\ call[c].pc # "out" /\ now' = now
           /\ \A d \in Callers : d # c =>
                call'[d] = call[d] /\ answer'[d] = answer[d]
           /\ call'[c].pc # "out" => call'[c].began = call[c].began
           /\ call'[c].pc = "out" =>
                \/ answer'[c] = Cold
                \/ answer'[c].seen >= call[c].began
                \/ call[c].began - answer'[c].seen
                     < TTL + (answer'[c].at - answer'[c].sent)
<1>1. TypeOK /\ now \in Nat
  BY DEF MetaInv, TypeOK
<1>2. /\ call \in [Callers -> CallRecord] /\ call[c] \in CallRecord
      /\ answer \in [Callers -> Payload \cup {Cold}]
  BY <1>1, CallFields DEF TypeOK
<1>3. call[c].began \in Nat /\ (call[c].pc # "out" => call[c].began <= now)
  BY <1>1, CallFields DEF MetaInv
<1>4. /\ cache.at \in Int /\ cache.seen \in Int /\ cache.sent \in Int
      /\ cache # Cold => cache.sent <= cache.seen /\ cache.seen <= cache.at
  BY <1>1, PayloadFields DEF MetaInv, TypeOK
<1>5. ASSUME NEW e, Return(c, e)
      PROVE  /\ call'[c].pc = "out" /\ answer'[c] = e
             /\ \A d \in Callers : d # c =>
                  call'[d] = call[d] /\ answer'[d] = answer[d]
  BY <1>2, <1>5 DEF Return, Out
<1>6. ASSUME NEW p, p # "out", call' = [call EXCEPT ![c].pc = p], UNCHANGED answer
      PROVE  /\ call'[c].pc # "out" /\ call'[c].began = call[c].began
             /\ \A d \in Callers : d # c =>
                  call'[d] = call[d] /\ answer'[d] = answer[d]
  BY <1>2, <1>6 DEF CallRecord
<1>7. CASE FastPath(c)
  <2>1. call[c].pc = "fast" /\ now' = now
    BY <1>7 DEF FastPath, At
  <2>2. CASE Fresh(cache, call[c].began)
    <3>1. Return(c, cache)
      BY <1>7, <2>2 DEF FastPath
    <3>2. call[c].began - cache.seen < TTL + (cache.at - cache.sent)
      BY <2>2, <1>3, <1>4 DEF Fresh, TimesAssumption
    <3> QED
      BY <2>1, <3>1, <3>2, <1>5
  <2>3. CASE ~Fresh(cache, call[c].began)
    <3>1. call' = [call EXCEPT ![c].pc = "wait"] /\ UNCHANGED answer
      BY <1>7, <2>3 DEF FastPath, Goto
    <3> QED
      BY <2>1, <3>1, <1>6
  <2> QED
    BY <2>2, <2>3
<1>8. CASE Acquire(c)
  BY <1>8, <1>6 DEF Acquire, At, Goto
<1>9. CASE Recheck(c)
  <2>1. call[c].pc = "inside" /\ now' = now
    BY <1>9 DEF Recheck, At
  <2>2. CASE Fresh(cache, now)
    <3>1. Return(c, cache)
      BY <1>9, <2>2 DEF Recheck
    <3>2. call[c].began - cache.seen < TTL + (cache.at - cache.sent)
      BY <2>1, <2>2, <1>1, <1>3, <1>4 DEF Fresh, TimesAssumption
    <3> QED
      BY <2>1, <3>1, <3>2, <1>5
  <2>3. CASE ~Fresh(cache, now)
    <3>1. Post(c) /\ UNCHANGED answer
      BY <1>9, <2>3 DEF Recheck
    <3>2. call' = [call EXCEPT ![c] =
                     [pc |-> "post", began |-> call[c].began, sent |-> now,
                      seen |-> call[c].seen]]
      BY <3>1, <1>1, PostRecord
    <3> QED
      BY <2>1, <3>1, <3>2, <1>2
  <2> QED
    BY <2>2, <2>3
<1>10. CASE Serve(c)
  BY <1>10, <1>2 DEF Serve, At, CallRecord
<1>11. CASE Arrive(c)
  <2>1. PICK e : e = cache'
    OBVIOUS
  <2>2. e.seen = call[c].seen /\ Return(c, e) /\ call[c].pc = "reply" /\ now' = now
    BY <2>1, <1>11 DEF Arrive, At
  <2>3. /\ call[c].began <= call[c].sent /\ call[c].sent <= call[c].seen
        /\ call[c].sent \in Nat /\ call[c].seen \in Nat
    BY <2>2, <1>1, CallFields DEF MetaInv
  <2> QED
    BY <2>2, <2>3, <1>1, <1>3, <1>5
<1>12. CASE Fail(c)
  BY <1>12, <1>5 DEF Fail
<1> QED
  BY <1>7, <1>8, <1>9, <1>10, <1>11, <1>12 DEF InMeta

\* The feed starts with no round and no call.
LEMMA FeedInitially ==
    ASSUME FeedInit, FeedAssumption, CallersAssumption
    PROVE  FeedInv
<1>1. Init
  BY DEF FeedInit
<1>2. MetaInv /\ TypeOK
  BY <1>1, MetaInitially DEF MetaInv
<1>3. now = 0 /\ \A a \in Coins : call[a].pc = "out" /\ stage[a] = "idle"
  BY <1>1 DEF Init, FeedInit, Out, FeedAssumption
<1>4. FeedTypeOK
  BY <1>2 DEF FeedInit, FeedTypeOK
<1>5. round.began = 0
  BY DEF FeedInit
<1> QED
  BY <1>2, <1>3, <1>4, <1>5 DEF FeedInv, Pending

\* Every step of the feed is one of the metadata cache, or leaves it alone.
LEMMA FeedStepsMeta ==
    ASSUME [FeedNext]_allVars, FeedAssumption
    PROVE  [Next]_vars
<1>1. CASE Proceed \/ StartRound \/ EndRound \/ Close
  BY <1>1 DEF Proceed, StartRound, EndRound, Close, meta
<1>2. ASSUME NEW a \in Coins, Fetching(a)
      PROVE  [Next]_vars
  <2>1. a \in Callers
    BY DEF FeedAssumption
  <2>2. Enter(a) \/ UNCHANGED vars
    BY <1>2 DEF Fetching, BeginFetch, CandlesDone, MetaDone, BookDone, meta
  <2> QED
    BY <2>1, <2>2 DEF Next
<1>3. ASSUME NEW c \in Callers, MetaStep(c)
      PROVE  [Next]_vars
  BY <1>3 DEF MetaStep, Next
<1>4. CASE EventLoop
  <2>1. Poller \in Callers
    BY DEF FeedAssumption
  <2>2. Enter(Poller) \/ UNCHANGED vars
    BY <1>4 DEF EventLoop, Bootstrap, PollMeta, PollSleep, EndLoop, Stream, meta
  <2> QED
    BY <2>1, <2>2 DEF Next
<1>5. CASE Pass
  BY <1>5 DEF Pass, Next
<1>6. CASE UNCHANGED allVars
  BY <1>6 DEF allVars
<1> QED
  BY <1>1, <1>2, <1>3, <1>4, <1>5, <1>6 DEF FeedNext

\* The feed's own variables keep their types (fetch_board(), ws.py).
LEMMA FeedTypeStep ==
    ASSUME FeedTypeOK, TypeOK', [FeedNext]_allVars
    PROVE  FeedTypeOK'
<1> USE DEF FeedTypeOK, Pending, Ended
<1>0. now \in Nat
  BY DEF TypeOK
<1>1. CASE Proceed \/ StartRound \/ EndRound \/ Close
  <2>1. round' \in [pc : {"starting", "between", "fetching", "over"}, began : Nat]
    BY <1>0, <1>1 DEF Proceed, StartRound, EndRound, Close
  <2>2. stage' \in [Coins -> {"idle"} \cup Pending \cup Ended]
    BY <1>1 DEF Proceed, StartRound, EndRound, Close
  <2>3. stop' \in BOOLEAN /\ UNCHANGED <<source, ws, full, poll>>
    BY <1>1 DEF Proceed, StartRound, EndRound, Close, wsCache
  <2> QED
    BY <2>1, <2>2, <2>3
<1>2. ASSUME NEW a \in Coins, Fetching(a)
      PROVE  FeedTypeOK'
  <2>1. UNCHANGED <<source, round, ws, stop, full, poll>>
    BY <1>2 DEF Fetching, BeginFetch, CandlesDone, MetaDone, BookDone, wsCache
  <2>2. \E s \in Pending \cup Ended : To(a, s)
    BY <1>2 DEF Fetching, BeginFetch, CandlesDone, MetaDone, BookDone
  <2>3. stage' \in [Coins -> {"idle"} \cup Pending \cup Ended]
    BY <2>2 DEF To
  <2> QED
    BY <2>1, <2>3
<1>3. ASSUME NEW c \in Callers, MetaStep(c)
      PROVE  FeedTypeOK'
  BY <1>3 DEF MetaStep, feed
<1>4. CASE EventLoop
  BY <1>4 DEF EventLoop, Bootstrap, PollMeta, PollSleep, EndLoop, Stream
<1>5. CASE Pass
  BY <1>5 DEF Pass
<1>6. CASE UNCHANGED allVars
  BY <1>6 DEF allVars, feed, vars
<1> QED
  BY <1>1, <1>2, <1>3, <1>4, <1>5, <1>6 DEF FeedNext

\* What FeedInv says of one coin.
CoinInv(a) ==
    /\ round.pc # "fetching" => stage[a] \notin Pending
    /\ stage[a] # "meta" => call[a].pc = "out"
    /\ call[a].pc # "out" => round.began <= call[a].began
    /\ stage[a] \in {"meta", "book", "got"} /\ call[a].pc = "out" =>
           (answer[a] = Cold \/ Recent(a))
    /\ stage[a] \in {"book", "got"} => answer[a] # Cold

\* A thread enters _meta() with the clock of that moment.
LEMMA EnterEffect ==
    ASSUME TypeOK, NEW c \in Callers, Enter(c)
    PROVE  /\ now' = now /\ call'[c].pc = "fast" /\ call'[c].began = now
           /\ answer'[c] = Cold
           /\ \A d \in Callers : d # c =>
                call'[d] = call[d] /\ answer'[d] = answer[d]
BY DEF Enter, TypeOK

\* A coin that the step does not touch.
LEMMA CoinUntouched ==
    ASSUME NEW a \in Coins, CoinInv(a), round' = round, stage'[a] = stage[a],
           call'[a] = call[a], answer'[a] = answer[a]
    PROVE  CoinInv(a)'
BY DEF CoinInv, Recent

\* The thread of a coin goes from stage to stage (_safe_fetch() and fetch()).
LEMMA FetchStep ==
    ASSUME FeedInv, FeedAssumption, NEW a \in Coins, Fetching(a)
    PROVE  \A b \in Coins : CoinInv(b)'
<1>1. TypeOK /\ now \in Nat /\ stage \in [Coins -> {"idle"} \cup Pending \cup Ended]
  BY DEF FeedInv, FeedTypeOK, MetaInv, TypeOK
<1>2. \A b \in Coins : CoinInv(b) /\ b \in Callers
  BY DEF FeedInv, CoinInv, FeedAssumption
<1>3. round' = round /\ round.began <= now
  BY DEF FeedInv, Fetching, BeginFetch, CandlesDone, MetaDone, BookDone
<1>4. \A b \in Coins : b # a => stage'[b] = stage[b]
  BY <1>1 DEF Fetching, BeginFetch, CandlesDone, MetaDone, BookDone, To
<1>5. stage[a] \in Pending
  BY DEF Fetching, BeginFetch, CandlesDone, MetaDone, BookDone, Pending
<1>6. round.pc = "fetching"
  BY <1>2, <1>5 DEF CoinInv
<1>7. ASSUME Enter(a), To(a, "meta")
      PROVE  \A b \in Coins : CoinInv(b)'
  <2>1. /\ call'[a].pc = "fast" /\ call'[a].began = now /\ answer'[a] = Cold
        /\ \A d \in Callers : d # a => call'[d] = call[d] /\ answer'[d] = answer[d]
    BY <1>1, <1>2, <1>7, EnterEffect
  <2>2. stage'[a] = "meta"
    BY <1>1, <1>7 DEF To
  <2>3. CoinInv(a)'
    BY <2>1, <2>2, <1>3, <1>6 DEF CoinInv
  <2> QED
    BY <2>1, <2>3, <1>2, <1>3, <1>4, CoinUntouched
<1>8. ASSUME UNCHANGED vars, NEW s, To(a, s),
             \/ s = "missed" /\ call[a].pc = "out"
             \/ s \in {"candles"} /\ call[a].pc = "out"
             \/ s \in {"book", "got"} /\ answer[a] # Cold /\ call[a].pc = "out"
                /\ stage[a] \in {"meta", "book"}
      PROVE  \A b \in Coins : CoinInv(b)'
  <2>1. call' = call /\ answer' = answer
    BY <1>8 DEF vars
  <2>2. stage'[a] = s
    BY <1>1, <1>8 DEF To
  <2>3. Recent(a)' <=> Recent(a)
    BY <2>1, <1>3 DEF Recent
  <2>4. CoinInv(a)'
    BY <2>1, <2>2, <2>3, <1>2, <1>3, <1>6, <1>8 DEF CoinInv
  <2> QED
    BY <2>1, <2>4, <1>2, <1>3, <1>4, CoinUntouched
<1>9. stage[a] # "meta" => call[a].pc = "out"
  BY <1>2 DEF CoinInv
<1>10. CASE BeginFetch(a)
  BY <1>10, <1>7, <1>8, <1>9 DEF BeginFetch, meta
<1>11. CASE CandlesDone(a)
  BY <1>11, <1>7, <1>8, <1>9 DEF CandlesDone, meta
<1>12. CASE MetaDone(a)
  BY <1>12, <1>8 DEF MetaDone, meta, At
<1>13. CASE BookDone(a)
  <2>1. stage[a] = "book" /\ answer[a] # Cold /\ call[a].pc = "out"
    BY <1>13, <1>2 DEF BookDone, CoinInv
  <2> QED
    BY <1>13, <2>1, <1>8 DEF BookDone, meta, Ended
<1> QED
  BY <1>10, <1>11, <1>12, <1>13 DEF Fetching

\* All steps keep what FeedInv says of the coins.
LEMMA CoinsStep ==
    ASSUME FeedInv, FeedAssumption, TimesAssumption, [FeedNext]_allVars
    PROVE  \A b \in Coins : CoinInv(b)'
<1>1. /\ TypeOK /\ MetaInv /\ now \in Nat /\ round.began <= now
      /\ stage \in [Coins -> {"idle"} \cup Pending \cup Ended]
      /\ round \in [pc : {"starting", "between", "fetching", "over"}, began : Nat]
  BY DEF FeedInv, FeedTypeOK, MetaInv, TypeOK
<1>2. \A b \in Coins : CoinInv(b) /\ b \in Callers
  BY DEF FeedInv, CoinInv, FeedAssumption
<1>3. CASE Proceed \/ Close
  <2>1. /\ UNCHANGED <<stage, call, answer>> /\ round'.began = round.began
        /\ round.pc = "starting" \/ \A b \in Coins : stage[b] \notin Pending
    BY <1>1, <1>3 DEF Proceed, Close, meta, vars
  <2>2. \A b \in Coins : stage[b] \notin Pending
    BY <2>1, <1>2 DEF CoinInv
  <2> QED
    BY <2>1, <2>2, <1>2 DEF CoinInv, Recent
<1>4. CASE StartRound
  <2>1. /\ UNCHANGED <<call, answer>> /\ round.pc = "between"
        /\ round'.pc = "fetching" /\ \A b \in Coins : stage'[b] = "queued"
    BY <1>4 DEF StartRound, meta, vars
  <2>2. \A b \in Coins : call[b].pc = "out"
    BY <2>1, <1>2 DEF CoinInv, Pending
  <2> QED
    BY <2>1, <2>2 DEF CoinInv
<1>5. CASE EndRound
  <2>1. /\ UNCHANGED <<call, answer>>
        /\ \A b \in Coins : stage[b] \in Ended /\ stage'[b] = "idle"
    BY <1>5 DEF EndRound, meta, vars
  <2>2. \A b \in Coins : call[b].pc = "out"
    BY <2>1, <1>2 DEF CoinInv, Ended
  <2> QED
    BY <2>1, <2>2 DEF CoinInv, Pending
<1>6. ASSUME NEW a \in Coins, Fetching(a)
      PROVE  \A b \in Coins : CoinInv(b)'
  BY <1>6, FetchStep
<1>7. ASSUME NEW c \in Callers, MetaStep(c)
      PROVE  \A b \in Coins : CoinInv(b)'
  <2>1. InMeta(c) /\ UNCHANGED <<round, stage>>
    BY <1>7 DEF MetaStep, feed
  <2>2. /\ call[c].pc # "out"
        /\ \A d \in Callers : d # c =>
             call'[d] = call[d] /\ answer'[d] = answer[d]
        /\ call'[c].pc # "out" => call'[c].began = call[c].began
        /\ call'[c].pc = "out" =>
             \/ answer'[c] = Cold
             \/ answer'[c].seen >= call[c].began
             \/ call[c].began - answer'[c].seen
                  < TTL + (answer'[c].at - answer'[c].sent)
    BY <2>1, <1>1, MetaEffect
  <2>3. ASSUME c \in Coins
        PROVE  CoinInv(c)'
    <3>1. stage[c] = "meta" /\ round.began <= call[c].began /\ round.pc = "fetching"
      BY <2>2, <2>3, <1>2 DEF CoinInv, Pending
    <3>2. call'[c].pc = "out" => (answer'[c] = Cold \/ Recent(c)')
      <4>1. call[c].began \in Nat /\ round.began \in Nat
        BY <1>1, CallFields
      <4>2. answer'[c].at \in Int /\ answer'[c].seen \in Int /\ answer'[c].sent \in Int
        <5>1. TypeOK'
          BY <1>1, <2>1, MetaTypeStep, CallersAssumption
        <5>2. answer'[c] \in Payload \cup {Cold}
          BY <5>1 DEF TypeOK
        <5> QED
          BY <5>2, PayloadFields
      <4> QED
        BY <2>1, <2>2, <3>1, <4>1, <4>2, TimesAssumption DEF Recent, TimesAssumption
    <3> QED
      BY <2>1, <2>2, <3>1, <3>2 DEF CoinInv
  <2> QED
    BY <2>1, <2>2, <2>3, <1>2, CoinUntouched
<1>8. CASE EventLoop
  <2>1. UNCHANGED <<round, stage>> /\ (Enter(Poller) \/ UNCHANGED vars)
    BY <1>8 DEF EventLoop, Bootstrap, PollMeta, PollSleep, EndLoop, Stream, meta
  <2>2. \A b \in Coins : call'[b] = call[b] /\ answer'[b] = answer[b]
    BY <2>1, <1>1, <1>2, EnterEffect DEF FeedAssumption, vars
  <2> QED
    BY <2>1, <2>2, <1>2, CoinUntouched
<1>9. CASE Pass
  BY <1>9, <1>2, CoinUntouched DEF Pass, Tick
<1>10. CASE UNCHANGED allVars
  BY <1>10, <1>2, CoinUntouched DEF allVars, feed, vars
<1> QED
  BY <1>3, <1>4, <1>5, <1>6, <1>7, <1>8, <1>9, <1>10 DEF FeedNext

\* Every step of the feed keeps its invariant (fetch_board(), ws.py).
LEMMA FeedStepKeeps ==
    ASSUME FeedInv, [FeedNext]_allVars,
           FeedAssumption, TimesAssumption, CallersAssumption
    PROVE  FeedInv'
<1>1. MetaInv'
  BY FeedStepsMeta, MetaStepKeeps DEF FeedInv
<1>2. FeedTypeOK'
  BY <1>1, FeedTypeStep DEF FeedInv, MetaInv
<1>3. \A b \in Coins : CoinInv(b)'
  BY CoinsStep
<1>4. now \in Nat /\ now' \in Nat /\ round.began \in Nat /\ round.began <= now
  BY <1>1 DEF FeedInv, MetaInv, FeedTypeOK, TypeOK
<1>5. now <= now'
  BY <1>4, FeedStepsMeta, MetaEffect, EnterEffect DEF FeedInv, MetaInv, Next, Tick, vars
<1>6. round'.began = round.began \/ round'.began = now
  <2>1. round \in [pc : {"starting", "between", "fetching", "over"}, began : Nat]
    BY DEF FeedInv, FeedTypeOK
  <2>2. CASE Proceed \/ StartRound \/ EndRound \/ Close
    BY <2>1, <2>2 DEF Proceed, StartRound, EndRound, Close
  <2>3. CASE ~(Proceed \/ StartRound \/ EndRound \/ Close)
    BY <2>3 DEF FeedNext, allVars, feed, Fetching, BeginFetch, CandlesDone, MetaDone,
         BookDone, MetaStep, EventLoop, Bootstrap, PollMeta, PollSleep, EndLoop, Stream, Pass
  <2> QED
    BY <2>2, <2>3
<1>7. round'.began <= now'
  BY <1>4, <1>5, <1>6
<1> QED
  BY <1>1, <1>2, <1>3, <1>7 DEF FeedInv, CoinInv, Recent

-----------------------------------------------------------------------------
(* The theorems of the composition.                                        *)

\* The invariant holds throughout, whichever the source.
LEMMA FeedInvariant ==
    ASSUME FeedAssumption, TimesAssumption, CallersAssumption
    PROVE  FeedSpec => []FeedInv
<1>1. FeedInit => FeedInv
  BY FeedInitially
<1>2. FeedInv /\ [FeedNext]_allVars => FeedInv'
  BY FeedStepKeeps
<1> QED
  BY <1>1, <1>2, PTL DEF FeedSpec

\* Type correctness of the feed, the cache included.
THEOREM FeedTypeCorrect ==
    ASSUME FeedAssumption, TimesAssumption, CallersAssumption
    PROVE  FeedSpec => []FeedTypeOK
<1>1. FeedInv => FeedTypeOK
  BY DEF FeedInv
<1> QED
  BY <1>1, FeedInvariant, PTL

\* The price of a coin on the board was made no longer before the round than one
\* time to live and the duration of the request that brought it (fetch_board(),
\* _meta()).
THEOREM BoardFreshHolds ==
    ASSUME FeedAssumption, TimesAssumption, CallersAssumption
    PROVE  FeedSpec => []BoardFresh
<1>1. FeedInv => BoardFresh
  BY DEF FeedInv, BoardFresh, Recent
<1> QED
  BY <1>1, FeedInvariant, PTL

\* With rounds, failures and the background poll around it, the cache remains a
\* cache whose calls are atomic.
THEOREM FeedIsAtomic ==
    ASSUME FeedAssumption, TimesAssumption, CallersAssumption
    PROVE  FeedSpec => Atomic
<1>1. FeedInit => Init
  BY DEF FeedInit
<1>2. [FeedNext]_allVars => [Next]_vars
  BY FeedStepsMeta
<1>3. FeedSpec => Spec
  BY <1>1, <1>2, PTL DEF FeedSpec, Spec
<1> QED
  BY <1>3, MetaIsAtomic
=============================================================================
