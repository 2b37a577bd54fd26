---------------------------- MODULE RateLimiter ----------------------------
(***************************************************************************)
(* The token-bucket limiter of the unauthenticated surfaces                *)
(* (src/limit.rs).  A request reads the clock and then waits for the mutex *)
(* of the buckets, so requests can reach a bucket in another order than    *)
(* they read the clock, and a bucket's updated may move back.              *)
(*                                                                         *)
(* Time is counted in ticks, of which a second has Second and a minute     *)
(* Minute.  Tokens are counted in parts: one token is Minute parts, so a   *)
(* budget of n per minute refills n parts a tick and everything is whole   *)
(* (the code has f64; its rounding is not modelled).  A key stands for its *)
(* (class, client) pair, PerMin[k] is the budget of its class.             *)
(*                                                                         *)
(* watch is a history variable: from any moment on, it follows one key.    *)
(***************************************************************************)
EXTENDS Integers

CONSTANTS
    Callers,   \* requests inside the limiter at the same time
    Keys,      \* (class, client) pairs
    PerMin,    \* budget per minute of the key's class, 0 for a disabled one
    Second,    \* ticks in a second
    Minute,    \* ticks in a minute
    MaxWait,   \* the most ticks a request waits for the mutex
    MaxTime,   \* bound: the last tick
    Idle,      \* a request that is not in the limiter
    Absent,    \* a key without a bucket
    NotYet     \* nothing is watched, nothing was promised

ASSUME LimiterAssumption ==
    /\ PerMin \in [Keys -> Nat]
    /\ Second \in Nat \ {0} /\ Minute \in Nat \ {0} /\ MaxTime \in Nat
    /\ MaxWait \in 0..Minute
    /\ Idle \notin [key : Keys, clock : Nat]
    /\ Absent \notin [tokens : Int, updated : Nat]
    /\ NotYet \notin [key : Keys, since : Nat, count : Nat, rewound : Nat]
    /\ NotYet \notin Nat

VARIABLES
    now,         \* the clock
    bucket,      \* the map of buckets
    last_prune,  \* when idle buckets were last swept
    request,     \* per request, its key and the clock it read
    watch,       \* the watched key: since when, how many requests that came
                 \* since then were admitted, ticks its updated moved back
    promise      \* the earliest time a refused request of the watched key
                 \* was told, unless one was admitted since

limiterVars == <<now, bucket, last_prune, request, watch, promise>>

-----------------------------------------------------------------------------
PRUNE_INTERVAL == 2 * Minute

\* Mutant: idle buckets are dropped before they have refilled.
EarlyEvictMutant == Minute \div 2

IDLE_EVICT == 2 * Minute

Capacity(k) == PerMin[k] * Minute

AtMost(x, y) == IF x <= y THEN x ELSE y

\* Instant::duration_since saturates at zero.
Since(later, earlier) == IF later >= earlier THEN later - earlier ELSE 0

\* The tokens of a bucket, refilled up to a clock reading.
Refilled(k, b, clock) ==
    AtMost(Capacity(k), b.tokens + Since(clock, b.updated) * PerMin[k])

\* The buckets left when the check of that clock reading has swept.
Swept(clock) ==
    IF Since(clock, last_prune) < PRUNE_INTERVAL THEN bucket
    ELSE [k \in Keys |-> IF bucket[k] # Absent /\ Since(clock, bucket[k].updated) >= IDLE_EVICT
                         THEN Absent ELSE bucket[k]]

\* or_insert: a key without a bucket starts full.
Entry(k, clock) ==
    IF Swept(clock)[k] = Absent THEN [tokens |-> Capacity(k), updated |-> clock]
    ELSE Swept(clock)[k]

\* Mutant: the wait is rounded down.
RoundedDownMutant(k, tokens) == ((Minute - tokens) \div PerMin[k]) \div Second

\* Whole seconds until one token is back (never 0: something is missing).
RetryAfter(k, tokens) ==
    (Minute - tokens + PerMin[k] * Second - 1) \div (PerMin[k] * Second)

-----------------------------------------------------------------------------
\* The middleware picks the key, check reads the clock.
Arrive(r, k) ==
    /\ request[r] = Idle
    /\ request' = [request EXCEPT ![r] = [key |-> k, clock |-> now]]
    /\ UNCHANGED <<now, bucket, last_prune, watch, promise>>

\* A disabled class admits without a bucket.
Pass(r) ==
    /\ request[r] # Idle
    /\ PerMin[request[r].key] = 0
    /\ request' = [request EXCEPT ![r] = Idle]
    /\ UNCHANGED <<now, bucket, last_prune, watch, promise>>

\* What a request finds under the mutex.
Old(r) == Entry(request[r].key, request[r].clock)

Found(r) == Refilled(request[r].key, Old(r), request[r].clock)

Admitted(r) == Found(r) >= Minute

Told(r) == request[r].clock + RetryAfter(request[r].key, Found(r)) * Second

Watched(r) == watch # NotYet /\ watch.key = request[r].key

\* The body of check under the mutex.
Take(r) ==
    /\ request[r] # Idle
    /\ PerMin[request[r].key] # 0
    /\ bucket' = [Swept(request[r].clock) EXCEPT
                     ![request[r].key] =
                         [tokens |-> IF Admitted(r) THEN Found(r) - Minute ELSE Found(r),
                          updated |-> request[r].clock]]
    /\ last_prune' = IF Since(request[r].clock, last_prune) < PRUNE_INTERVAL
                     THEN last_prune ELSE request[r].clock
    /\ watch' = IF ~Watched(r) THEN watch
                ELSE [key |-> watch.key, since |-> watch.since,
                      count |-> IF Admitted(r) /\ request[r].clock >= watch.since
                                THEN watch.count + 1 ELSE watch.count,
                      rewound |-> watch.rewound + Since(Old(r).updated, request[r].clock)]
    /\ promise' = IF ~Watched(r) THEN promise
                  ELSE IF Admitted(r) THEN NotYet
                  ELSE IF promise = NotYet THEN Told(r)
                  ELSE AtMost(promise, Told(r))
    /\ request' = [request EXCEPT ![r] = Idle]
    /\ UNCHANGED now

\* The mutex is held for a lookup and some arithmetic, so nobody waits long.
Tick ==
    /\ now < MaxTime
    /\ \A r \in Callers : request[r] # Idle => now - request[r].clock < MaxWait
    /\ now' = now + 1
    /\ UNCHANGED <<bucket, last_prune, request, watch, promise>>

\* The history begins.
Watch(k) ==
    /\ watch = NotYet /\ PerMin[k] # 0
    /\ watch' = [key |-> k, since |-> now, count |-> 0, rewound |-> 0]
    /\ UNCHANGED <<now, bucket, last_prune, request, promise>>

LimiterInit ==
    /\ now = 0 /\ last_prune = 0
    /\ bucket = [k \in Keys |-> Absent]
    /\ request = [r \in Callers |-> Idle]
    /\ watch = NotYet /\ promise = NotYet

LimiterNext ==
    \/ \E r \in Callers, k \in Keys : Arrive(r, k)
    \/ \E r \in Callers : Pass(r)
    \/ \E r \in Callers : Take(r)
    \/ Tick
    \/ \E k \in Keys : Watch(k)

LimiterSpec == LimiterInit /\ [][LimiterNext]_limiterVars

-----------------------------------------------------------------------------
(* Properties                                                              *)

TypeOK ==
    /\ now \in Nat /\ last_prune \in Nat
    /\ bucket \in [Keys -> [tokens : Int, updated : Nat] \cup {Absent}]
    /\ request \in [Callers -> [key : Keys, clock : Nat] \cup {Idle}]
    /\ watch \in [key : Keys, since : Nat, count : Nat, rewound : Nat] \cup {NotYet}
    /\ promise \in Nat \cup {NotYet}

\* What a request of the key that read that clock would find.
Available(k, clock) ==
    IF bucket[k] = Absent THEN Capacity(k) ELSE Refilled(k, bucket[k], clock)

\* Of the requests a client makes in any window, at most its budget at once
\* and its rate for the length of the window are admitted, also across sweeps
\* that drop its bucket and bring it back full.  Ticks by which a late request
\* moved the bucket's clock back are refilled a second time and count as well
\* (check reads the clock before it locks the buckets).
AdmittedWithinBudget ==
    watch # NotYet =>
        watch.count * Minute
            <= Capacity(watch.key) + PerMin[watch.key] * (now - watch.since + watch.rewound)

\* Retry-After says when one token will be back: at that time it is there,
\* whatever was refused or swept meanwhile, unless a request was admitted.
RetryAfterHonest ==
    promise # NotYet => Available(watch.key, promise) >= Minute
=============================================================================
