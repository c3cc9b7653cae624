---------------------------- MODULE RateLimiter ----------------------------
(***************************************************************************)
(* The request limiter of backend/internal/middleware/ratelimit.go.  A     *)
(* request is counted under its client and route in the Redis key of the   *)
(* minute it arrived in; when Redis fails it is counted in the server's    *)
(* own map instead, under the minute in which the map is locked.  Its      *)
(* count decides whether it goes on or is answered 429.                    *)
(*                                                                         *)
(* Time is the minute the code truncates to.  Redis (INCR and EXPIRE in    *)
(* one MULTI) and the network to it are outside the repository: the server *)
(* may see an error whether or not EXEC took effect.                       *)
(***************************************************************************)
EXTENDS Naturals, FiniteSets

CONSTANTS
    Requests,     \* each arrives once
    Servers,      \* backend processes sharing the Redis
    Keys,         \* ClientIP ":" FullPath
    Limit,        \* REQUEST_LIMIT
    CleanupAt,    \* size at which a map is cleaned (512)
    LastMinute,   \* bound on the clock
    RedisEnabled, \* REDIS_ADDR is set
    None

ASSUME LimiterAssumption ==
    /\ Limit \in Nat \ {0} /\ CleanupAt \in Nat \ {0} /\ LastMinute \in Nat
    /\ RedisEnabled \in BOOLEAN
    /\ "redis" \notin Servers

VARIABLES
    now,     \* the current minute
    redis,   \* minute -> key -> [count, touched], None if there is no such key
    local,   \* server -> key -> [window, count], None if not in the map
    pc,      \* "idle", "exec" (pipeline sent), "local", "done"
    job,     \* [server, key, window] of a request in flight
    ticket,  \* the count that decided a request, and who gave it
    hits     \* every increment made, for the properties

vars == <<now, redis, local, pc, job, ticket, hits>>

Minutes == 0..LastMinute

Backends == Servers \cup {"redis"}

Job == [server : Servers, key : Keys, window : Minutes]

ASSUME NoneAssumption ==
    /\ None \notin [count : Nat, touched : Minutes]
    /\ None \notin [window : Minutes, count : Nat]
    /\ None \notin [backend : Backends, window : Minutes, key : Keys, count : Nat]

\* The clock, the counters and the requests stay within their types.
TypeOK ==
    /\ now \in Minutes
    /\ redis \in [Minutes -> [Keys -> [count : Nat \ {0}, touched : Minutes]
                                        \cup {None}]]
    /\ local \in [Servers -> [Keys -> [window : Minutes, count : Nat \ {0}]
                                        \cup {None}]]
    /\ pc \in [Requests -> {"idle", "exec", "local", "done"}]
    /\ job \in [Requests -> Job \cup {None}]
    /\ ticket \in [Requests -> [backend : Backends, window : Minutes,
                                key : Keys, count : Nat \ {0}] \cup {None}]
    /\ hits \subseteq [backend : Backends, window : Minutes, key : Keys,
                       request : Requests]

Init ==
    /\ now = 0
    /\ redis = [w \in Minutes |-> [k \in Keys |-> None]]
    /\ local = [s \in Servers |-> [k \in Keys |-> None]]
    /\ pc = [r \in Requests |-> "idle"]
    /\ job = [r \in Requests |-> None]
    /\ ticket = [r \in Requests |-> None]
    /\ hits = {}

-----------------------------------------------------------------------------
(* Counting in Redis                                                       *)

\* Middleware computes the key and increment formats the minute.  Without a
\* Redis client increment fails at once.
Arrive(r) ==
    /\ pc[r] = "idle"
    /\ \E s \in Servers, k \in Keys :
          job' = [job EXCEPT ![r] = [server |-> s, key |-> k, window |-> now]]
    /\ pc' = [pc EXCEPT ![r] = IF RedisEnabled THEN "exec" ELSE "local"]
    /\ UNCHANGED <<now, redis, local, ticket, hits>>

Counted(w, k) == IF redis[w][k] = None THEN 0 ELSE redis[w][k].count

\* INCR and EXPIRE take effect on the key of the minute the request arrived in.
Increment(r) ==
    LET w == job[r].window
        k == job[r].key
    IN  /\ redis' = [redis EXCEPT ![w][k] =
                        [count |-> Counted(w, k) + 1, touched |-> now]]
        /\ hits' = hits \cup {[backend |-> "redis", window |-> w, key |-> k,
                               request |-> r]}

\* Mutant: the count handed on is that before the increment.
DecideUncounted(r, backend, w, count) ==
    /\ ticket' = [ticket EXCEPT ![r] =
          [backend |-> backend, window |-> w, key |-> job[r].key, count |-> count - 1]]
    /\ pc' = [pc EXCEPT ![r] = "done"]
    /\ job' = [job EXCEPT ![r] = None]

\* The request's count is known: count > limit answers 429, else c.Next().
Decide(r, backend, w, count) ==
    /\ ticket' = [ticket EXCEPT ![r] =
          [backend |-> backend, window |-> w, key |-> job[r].key, count |-> count]]
    /\ pc' = [pc EXCEPT ![r] = "done"]
    /\ job' = [job EXCEPT ![r] = None]

Exec(r) ==
    /\ pc[r] = "exec"
    /\ now <= job[r].window + 1
    /\ Increment(r)
    /\ Decide(r, "redis", job[r].window, Counted(job[r].window, job[r].key) + 1)
    /\ UNCHANGED <<now, local>>

\* The pipeline returns an error: before EXEC took effect or after it.
ExecFails(r) ==
    /\ pc[r] = "exec"
    /\ pc' = [pc EXCEPT ![r] = "local"]
    /\ \/ UNCHANGED <<redis, hits>>
       \/ now <= job[r].window + 1 /\ Increment(r)
    /\ UNCHANGED <<now, local, job, ticket>>

-----------------------------------------------------------------------------
(* Counting in the server's own map, under its mutex                       *)

Tracked(s) == {k \in Keys : local[s][k] # None}

\* cleanupLocal: nothing below the threshold, else earlier minutes go.
Cleaned(s) ==
    IF Cardinality(Tracked(s)) < CleanupAt THEN local[s]
    ELSE [k \in Keys |-> IF local[s][k] # None /\ local[s][k].window < now
                         THEN None ELSE local[s][k]]

\* Mutant: the bucket of an earlier minute is not replaced, only renamed.
NextCountCarried(bucket, w) == IF bucket = None THEN 1 ELSE bucket.count + 1

\* A bucket of another minute starts again from zero.
NextCount(bucket, w) ==
    IF bucket = None \/ bucket.window # w THEN 1 ELSE bucket.count + 1

\* Mutant: the minute is the one read on arrival, before the lock.
LockedWindowEarly(r) == job[r].window

\* incrementLocal reads the time after it has the lock.
LockedWindow(r) == now

IncrementLocal(r) ==
    /\ pc[r] = "local"
    /\ LET s     == job[r].server
           k     == job[r].key
           w     == LockedWindow(r)
           count == NextCount(Cleaned(s)[k], w)
       IN  /\ local' = [local EXCEPT ![s] =
                  [Cleaned(s) EXCEPT ![k] = [window |-> w, count |-> count]]]
           /\ hits' = hits \cup {[backend |-> s, window |-> w, key |-> k,
                                  request |-> r]}
           /\ Decide(r, s, w, count)
    /\ UNCHANGED <<now, redis>>

-----------------------------------------------------------------------------
(* Time                                                                    *)

\* Bound on the delay between formatting the key and EXEC: go-redis' dial,
\* write and read timeouts (seconds) end a call within the next minute.
Tick ==
    /\ now < LastMinute
    /\ now' = now + 1
    /\ UNCHANGED <<redis, local, pc, job, ticket, hits>>

\* Mutant: the key lives for one minute.
KeyLifetimeShort == 1

\* pipeline.Expire(ctx, redisKey, 2*time.Minute), renewed by every INCR.
KeyLifetime == 2

Expire ==
    /\ \E w \in Minutes, k \in Keys :
          /\ redis[w][k] # None /\ now >= redis[w][k].touched + KeyLifetime
          /\ redis' = [redis EXCEPT ![w][k] = None]
    /\ UNCHANGED <<now, local, pc, job, ticket, hits>>

Next ==
    \/ \E r \in Requests :
          Arrive(r) \/ Exec(r) \/ ExecFails(r) \/ IncrementLocal(r)
    \/ Tick
    \/ Expire

Spec == Init /\ [][Next]_vars

-----------------------------------------------------------------------------
(* Properties                                                              *)

Admitted(b, w, k) ==
    {r \in Requests : /\ ticket[r] # None
                      /\ ticket[r].backend = b /\ ticket[r].window = w
                      /\ ticket[r].key = k /\ ticket[r].count <= Limit}

\* Each counter lets at most Limit requests of a client and route through for
\* one minute, whatever errors, delays, expiries and cleanups come between.
\* (With Redis failing now and then, a client has one allowance there and one
\* more at every server: the bound per minute is Limit per counter.)
AtMostLimit ==
    \A b \in Backends, w \in Minutes, k \in Keys :
        Cardinality(Admitted(b, w, k)) <= Limit

\* A request is refused only when more than Limit different requests of the
\* same client and route were counted by the same counter in that minute:
\* neither an earlier minute nor another key weighs on it.
RefusalJustified ==
    \A r \in Requests :
        (ticket[r] # None /\ ticket[r].count > Limit) =>
            Cardinality({h \in hits : /\ h.backend = ticket[r].backend
                                      /\ h.window = ticket[r].window
                                      /\ h.key = ticket[r].key}) > Limit

\* A server's map grows past the cleanup size only with the clients of one
\* and the same minute: what earlier minutes left is never carried along.
MemoryBounded ==
    \A s \in Servers :
        \/ Cardinality(Tracked(s)) <= CleanupAt
        \/ \A j, k \in Tracked(s) : local[s][j].window = local[s][k].window
=============================================================================
