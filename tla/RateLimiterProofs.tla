-------------------------- MODULE RateLimiterProofs --------------------------
(***************************************************************************)
(* Proofs about RateLimiter, for any number of requests, servers, keys and *)
(* minutes and any limit: a counter that starts again is never one that    *)
(* still decides about requests of its minute.                             *)
(***************************************************************************)
EXTENDS RateLimiter, FiniteSetTheorems, TLAPS

RedisKey == [count : Nat \ {0}, touched : Minutes]

Bucket == [window : Minutes, count : Nat \ {0}]

Ticket == [backend : Backends, window : Minutes, key : Keys, count : Nat \ {0}]

Hit == [backend : Backends, window : Minutes, key : Keys, request : Requests]

\* No record is taken for a missing one.
LEMMA NoneFacts == None \notin RedisKey /\ None \notin Bucket /\ None \notin Ticket
<1>1. /\ RedisKey \subseteq [count : Nat, touched : Minutes]
      /\ Bucket \subseteq [window : Minutes, count : Nat]
      /\ Ticket \subseteq [backend : Backends, window : Minutes, key : Keys, count : Nat]
  BY DEF RedisKey, Bucket, Ticket
<1>2. QED
  BY <1>1, NoneAssumption

-----------------------------------------------------------------------------
(* Types                                                                   *)

CountersType ==
    /\ redis \in [Minutes -> [Keys -> RedisKey \cup {None}]]
    /\ local \in [Servers -> [Keys -> Bucket \cup {None}]]

RequestsType ==
    /\ pc \in [Requests -> {"idle", "exec", "local", "done"}]
    /\ job \in [Requests -> Job \cup {None}]
    /\ ticket \in [Requests -> Ticket \cup {None}]

LEMMA TypeParts ==
    /\ TypeOK <=> now \in Minutes /\ CountersType /\ RequestsType /\ hits \subseteq Hit
    /\ TypeOK' <=> now' \in Minutes /\ CountersType' /\ RequestsType' /\ hits' \subseteq Hit
BY DEF TypeOK, CountersType, RequestsType, RedisKey, Bucket, Ticket, Hit

\* A request in flight has its server, its key and a minute that has come.
InFlight ==
    \A r \in Requests :
        pc[r] \in {"exec", "local"} => job[r] \in Job /\ job[r].window <= now

\* Keys were touched in or after their minute; buckets are of no later minute.
CountersPast ==
    /\ \A w \in Minutes, k \in Keys : redis[w][k] # None =>
          w <= redis[w][k].touched /\ redis[w][k].touched <= now
    /\ \A s \in Servers, k \in Keys : local[s][k] # None => local[s][k].window <= now

TypeInv == TypeOK /\ InFlight /\ CountersPast

LEMMA InitTypes == Init => TypeInv
<1> SUFFICES ASSUME Init PROVE TypeInv
  OBVIOUS
<1>1. now \in Minutes
  BY LimiterAssumption DEF Init, Minutes
<1>2. RequestsType
  BY DEF Init, RequestsType
<1>3. CountersType /\ hits \subseteq Hit
  BY DEF Init, CountersType
<1>4. InFlight /\ CountersPast
  BY DEF Init, InFlight, CountersPast
<1>5. QED
  BY <1>1, <1>2, <1>3, <1>4, TypeParts DEF TypeInv

LEMMA MinuteFacts == \A w \in Minutes : w \in Nat
BY LimiterAssumption DEF Minutes

\* INCR and EXPIRE on a key.
LEMMA IncrementTypes ==
    ASSUME TypeInv, NEW r \in Requests, pc[r] = "exec", Increment(r)
    PROVE  LET w == job[r].window
               k == job[r].key
               n == Counted(w, k) + 1
           IN  /\ w \in Minutes /\ k \in Keys /\ n \in Nat \ {0}
               /\ redis'[w][k] = [count |-> n, touched |-> now]
               /\ redis'[w][k] \in RedisKey /\ redis'[w][k] # None
               /\ \A v \in Minutes, j \in Keys : ~(v = w /\ j = k) => redis'[v][j] = redis[v][j]
               /\ redis' \in [Minutes -> [Keys -> RedisKey \cup {None}]]
               /\ hits' \subseteq Hit
<1> DEFINE w == job[r].window
           k == job[r].key
           n == Counted(w, k) + 1
<1>1. w \in Minutes /\ k \in Keys
  BY DEF TypeInv, InFlight, Job
<1>2. CountersType /\ now \in Minutes /\ hits \subseteq Hit
  BY TypeParts DEF TypeInv
<1>3. n \in Nat \ {0}
  BY <1>1, <1>2 DEF Counted, CountersType, RedisKey
<1>4. redis' = [redis EXCEPT ![w][k] = [count |-> n, touched |-> now]]
  BY DEF Increment
<1>5. hits' = hits \cup {[backend |-> "redis", window |-> w, key |-> k, request |-> r]}
  BY DEF Increment
<1> HIDE DEF w, k, n
<1>6. [count |-> n, touched |-> now] \in RedisKey
  BY <1>2, <1>3 DEF RedisKey
<1>7. /\ redis'[w][k] = [count |-> n, touched |-> now]
      /\ \A v \in Minutes, j \in Keys : ~(v = w /\ j = k) => redis'[v][j] = redis[v][j]
      /\ redis' \in [Minutes -> [Keys -> RedisKey \cup {None}]]
  BY <1>1, <1>2, <1>4, <1>6 DEF CountersType
<1>8. [backend |-> "redis", window |-> w, key |-> k, request |-> r] \in Hit
  BY <1>1 DEF Hit, Backends
<1>9. hits' \subseteq Hit
  BY <1>2, <1>5, <1>8
<1>10. QED
  BY <1>1, <1>3, <1>6, <1>7, <1>9, NoneFacts DEF w, k, n

\* The request that was counted is done.
LEMMA DecideTypes ==
    ASSUME RequestsType, NEW r \in Requests, NEW b \in Backends, NEW w \in Minutes,
           NEW n \in Nat \ {0}, job[r].key \in Keys, Decide(r, b, w, n)
    PROVE  /\ RequestsType'
           /\ ticket'[r] = [backend |-> b, window |-> w, key |-> job[r].key, count |-> n]
           /\ ticket'[r] \in Ticket /\ ticket'[r] # None
           /\ pc'[r] = "done"
           /\ \A x \in Requests \ {r} :
                 ticket'[x] = ticket[x] /\ pc'[x] = pc[x] /\ job'[x] = job[x]
<1> DEFINE t == [backend |-> b, window |-> w, key |-> job[r].key, count |-> n]
<1>1. t \in Ticket
  BY DEF Ticket
<1>2. /\ ticket' = [ticket EXCEPT ![r] = t]
      /\ pc' = [pc EXCEPT ![r] = "done"]
      /\ job' = [job EXCEPT ![r] = None]
  BY DEF Decide
<1> HIDE DEF t
<1>3. /\ RequestsType' /\ ticket'[r] = t /\ pc'[r] = "done"
      /\ \A x \in Requests \ {r} :
            ticket'[x] = ticket[x] /\ pc'[x] = pc[x] /\ job'[x] = job[x]
  BY <1>1, <1>2 DEF RequestsType
<1>4. QED
  BY <1>1, <1>3, NoneFacts DEF t

\* Cleaning drops nothing of the current minute.
LEMMA CleanedFacts ==
    ASSUME CountersType, NEW s \in Servers
    PROVE  /\ Cleaned(s) \in [Keys -> Bucket \cup {None}]
           /\ \A k \in Keys :
                 \/ Cleaned(s)[k] = local[s][k]
                 \/ Cleaned(s)[k] = None /\ local[s][k].window < now
<1>1. local[s] \in [Keys -> Bucket \cup {None}]
  BY DEF CountersType
<1>2. CASE Cardinality(Tracked(s)) < CleanupAt
  BY <1>1, <1>2 DEF Cleaned
<1>3. CASE ~(Cardinality(Tracked(s)) < CleanupAt)
  BY <1>1, <1>3 DEF Cleaned
<1>4. QED
  BY <1>2, <1>3

\* incrementLocal puts one bucket of the current minute into the cleaned map.
LEMMA LocalMoves ==
    ASSUME TypeInv, NEW r \in Requests, IncrementLocal(r)
    PROVE  LET s == job[r].server
               k == job[r].key
               n == NextCount(Cleaned(s)[k], now)
           IN  /\ s \in Servers /\ k \in Keys /\ n \in Nat \ {0}
               /\ local'[s][k] = [window |-> now, count |-> n]
               /\ local'[s][k] \in Bucket /\ local'[s][k] # None
               /\ \A j \in Keys \ {k} : local'[s][j] = Cleaned(s)[j]
               /\ \A x \in Servers \ {s} : local'[x] = local[x]
               /\ local' \in [Servers -> [Keys -> Bucket \cup {None}]]
               /\ hits' = hits \cup
                     {[backend |-> s, window |-> now, key |-> k, request |-> r]}
               /\ hits' \subseteq Hit
               /\ Decide(r, s, now, n)
               /\ pc[r] = "local" /\ UNCHANGED <<now, redis>>
<1> DEFINE s == job[r].server
           k == job[r].key
           n == NextCount(Cleaned(s)[k], now)
<1>1. s \in Servers /\ k \in Keys
  BY DEF TypeInv, InFlight, Job, IncrementLocal
<1>2. CountersType /\ now \in Minutes /\ hits \subseteq Hit
  BY TypeParts DEF TypeInv
<1>3. Cleaned(s) \in [Keys -> Bucket \cup {None}]
  BY <1>1, <1>2, CleanedFacts
<1>4. n \in Nat \ {0}
  BY <1>1, <1>3 DEF NextCount, Bucket
<1>5. /\ local' = [local EXCEPT ![s] = [Cleaned(s) EXCEPT ![k] = [window |-> now, count |-> n]]]
      /\ hits' = hits \cup {[backend |-> s, window |-> now, key |-> k, request |-> r]}
      /\ Decide(r, s, now, n)
      /\ pc[r] = "local" /\ UNCHANGED <<now, redis>>
  BY DEF IncrementLocal, LockedWindow
<1> HIDE DEF s, k, n
<1>6. [window |-> now, count |-> n] \in Bucket
  BY <1>2, <1>4 DEF Bucket
<1>7. [backend |-> s, window |-> now, key |-> k, request |-> r] \in Hit
  BY <1>1, <1>2 DEF Hit, Backends
<1>8. /\ local'[s] = [Cleaned(s) EXCEPT ![k] = [window |-> now, count |-> n]]
      /\ \A x \in Servers \ {s} : local'[x] = local[x]
  BY <1>1, <1>2, <1>5 DEF CountersType
<1>9. /\ local'[s][k] = [window |-> now, count |-> n]
      /\ \A j \in Keys \ {k} : local'[s][j] = Cleaned(s)[j]
      /\ local'[s] \in [Keys -> Bucket \cup {None}]
  BY <1>1, <1>3, <1>6, <1>8
<1>10. local' \in [Servers -> [Keys -> Bucket \cup {None}]]
  BY <1>1, <1>2, <1>3, <1>5, <1>6 DEF CountersType
<1>11. hits' \subseteq Hit
  BY <1>2, <1>5, <1>7
<1>12. QED
  BY <1>1, <1>4, <1>5, <1>6, <1>9, <1>8, <1>10, <1>11, NoneFacts DEF s, k, n

LEMMA StepTypes == TypeInv /\ [Next]_vars => TypeInv'
<1> SUFFICES ASSUME TypeInv, [Next]_vars PROVE TypeInv'
  OBVIOUS
<1>1. /\ now \in Minutes /\ now \in Nat /\ CountersType /\ RequestsType /\ hits \subseteq Hit
      /\ InFlight /\ CountersPast
  BY TypeParts, MinuteFacts DEF TypeInv
<1>2. ASSUME NEW r \in Requests, Arrive(r) PROVE TypeInv'
  <2>1. PICK s \in Servers, k \in Keys :
          job' = [job EXCEPT ![r] = [server |-> s, key |-> k, window |-> now]]
    BY <1>2 DEF Arrive
  <2>2. [server |-> s, key |-> k, window |-> now] \in Job
    BY <1>1 DEF Job
  <2>3. pc' \in [Requests -> {"idle", "exec", "local", "done"}]
        /\ \A x \in Requests \ {r} : pc'[x] = pc[x]
    BY <1>1, <1>2 DEF Arrive, RequestsType
  <2>4. job' \in [Requests -> Job \cup {None}] /\ job'[r] \in Job /\ job'[r].window = now
        /\ \A x \in Requests \ {r} : job'[x] = job[x]
    BY <1>1, <2>1, <2>2 DEF RequestsType
  <2>5. UNCHANGED <<now, redis, local, ticket, hits>>
    BY <1>2 DEF Arrive
  <2>6. InFlight'
    BY <1>1, <2>3, <2>4, <2>5 DEF InFlight
  <2>7. QED
    BY <1>1, <2>3, <2>4, <2>5, <2>6, TypeParts DEF TypeInv, CountersType, RequestsType, CountersPast
<1>3. ASSUME NEW r \in Requests, Exec(r) \/ ExecFails(r) PROVE TypeInv'
  <2>1. pc[r] = "exec" /\ UNCHANGED <<now, local>>
        /\ (Increment(r) \/ UNCHANGED <<redis, hits>>)
    BY <1>3 DEF Exec, ExecFails
  <2>2. RequestsType' /\ \A x \in Requests \ {r} : pc'[x] = pc[x] /\ job'[x] = job[x]
    <3>1. CASE Exec(r)
      <4>1. job[r].window \in Minutes /\ job[r].key \in Keys
        BY <1>1, <2>1 DEF InFlight, Job
      <4>2. Counted(job[r].window, job[r].key) + 1 \in Nat \ {0}
        BY <2>1, <3>1, IncrementTypes DEF Exec
      <4>3. Decide(r, "redis", job[r].window, Counted(job[r].window, job[r].key) + 1)
        BY <3>1 DEF Exec
      <4>4. "redis" \in Backends
        BY DEF Backends
      <4>5. QED
        BY <1>1, <4>1, <4>2, <4>3, <4>4, DecideTypes
    <3>2. CASE ExecFails(r)
      BY <1>1, <3>2 DEF ExecFails, RequestsType
    <3>3. QED
      BY <1>3, <3>1, <3>2
  <2>3. pc'[r] \in {"local", "done"} /\ (pc'[r] = "local" => job'[r] = job[r])
    BY <1>1, <1>3, <2>1 DEF Exec, ExecFails, Decide, RequestsType
  <2>4. InFlight'
    BY <1>1, <2>1, <2>2, <2>3 DEF InFlight
  <2>5. CountersType' /\ hits' \subseteq Hit /\ CountersPast'
    <3>1. CASE Increment(r)
      <4> DEFINE w == job[r].window
      <4>1. w <= now
        BY <1>1, <2>1 DEF InFlight
      <4>2. hits' \subseteq Hit /\ CountersType'
        BY <1>1, <2>1, <3>1, IncrementTypes DEF CountersType
      <4> DEFINE j == job[r].key
      <4>3. \A v \in Minutes, k \in Keys : redis'[v][k] # None =>
                \/ redis[v][k] # None /\ redis'[v][k] = redis[v][k]
                \/ v = w /\ redis'[v][k].touched = now
        <5>1. /\ \A v \in Minutes, k \in Keys :
                    ~(v = w /\ k = j) => redis'[v][k] = redis[v][k]
              /\ redis'[w][j] = [count |-> Counted(w, j) + 1, touched |-> now]
          BY <2>1, <3>1, IncrementTypes
        <5>2. redis'[w][j].touched = now
          BY <5>1
        <5> HIDE DEF w, j
        <5>3. QED
          BY <5>1, <5>2
      <4>4. CountersPast'
        BY <1>1, <2>1, <4>1, <4>3 DEF CountersPast
      <4>5. QED
        BY <4>2, <4>4
    <3>2. CASE UNCHANGED <<redis, hits>>
      BY <1>1, <2>1, <3>2 DEF CountersType, CountersPast
    <3>3. QED
      BY <2>1, <3>1, <3>2
  <2>6. QED
    BY <1>1, <2>1, <2>2, <2>4, <2>5, TypeParts DEF TypeInv
<1>4. ASSUME NEW r \in Requests, IncrementLocal(r) PROVE TypeInv'
  <2> DEFINE s == job[r].server
             k == job[r].key
             n == NextCount(Cleaned(s)[k], now)
  <2>1. /\ s \in Servers /\ k \in Keys /\ n \in Nat \ {0} /\ Decide(r, s, now, n)
        /\ UNCHANGED <<now, redis>> /\ hits' \subseteq Hit
        /\ local' \in [Servers -> [Keys -> Bucket \cup {None}]]
    BY <1>4, LocalMoves
  <2>2. s \in Backends /\ job[r].key \in Keys
    BY <2>1 DEF Backends
  <2>3. /\ RequestsType' /\ pc'[r] = "done"
        /\ \A x \in Requests \ {r} : pc'[x] = pc[x] /\ job'[x] = job[x]
    BY <1>1, <2>1, <2>2, DecideTypes
  <2>4. InFlight'
    BY <1>1, <2>1, <2>3 DEF InFlight
  <2>5. \A x \in Servers, j \in Keys : local'[x][j] # None =>
            \/ local[x][j] # None /\ local'[x][j] = local[x][j]
            \/ local'[x][j].window = now
    <3>1. /\ local'[s][k] = [window |-> now, count |-> n]
          /\ \A j \in Keys \ {k} : local'[s][j] = Cleaned(s)[j]
          /\ \A x \in Servers \ {s} : local'[x] = local[x]
      BY <1>4, LocalMoves
    <3>2. local'[s][k].window = now
      BY <3>1
    <3>3. \A j \in Keys : Cleaned(s)[j] # None => Cleaned(s)[j] = local[s][j]
      BY <1>1, <2>1, CleanedFacts
    <3> HIDE DEF s, k, n
    <3>4. QED
      BY <3>1, <3>2, <3>3
  <2>6. CountersType' /\ CountersPast'
    BY <1>1, <2>1, <2>5 DEF CountersPast, CountersType
  <2>7. QED
    BY <1>1, <2>1, <2>3, <2>4, <2>6, TypeParts DEF TypeInv
<1>5. CASE Tick
  <2>1. now' \in Minutes /\ now < now' /\ UNCHANGED <<redis, local, pc, job, ticket, hits>>
    BY <1>1, <1>5, LimiterAssumption DEF Tick, Minutes
  <2>2. InFlight'
    <3>1. ASSUME NEW x \in Requests, pc[x] \in {"exec", "local"}
          PROVE  job[x] \in Job /\ job[x].window \in Nat /\ job[x].window <= now
      BY <1>1, <3>1, MinuteFacts DEF InFlight, Job
    <3>2. now' \in Nat
      BY <2>1, MinuteFacts
    <3>3. QED
      BY <1>1, <2>1, <3>1, <3>2 DEF InFlight
  <2>3. CountersPast'
    <3>1. now' \in Nat
      BY <2>1, MinuteFacts
    <3>2. ASSUME NEW w \in Minutes, NEW k \in Keys, redis[w][k] # None
          PROVE  redis[w][k].touched <= now'
      <4>1. redis[w][k].touched \in Nat /\ redis[w][k].touched <= now
        BY <1>1, <3>2, MinuteFacts DEF CountersType, CountersPast, RedisKey
      <4>2. QED
        BY <1>1, <2>1, <3>1, <4>1
    <3>3. ASSUME NEW s \in Servers, NEW k \in Keys, local[s][k] # None
          PROVE  local[s][k].window <= now'
      <4>1. local[s][k].window \in Nat /\ local[s][k].window <= now
        BY <1>1, <3>3, MinuteFacts DEF CountersType, CountersPast, Bucket
      <4>2. QED
        BY <1>1, <2>1, <3>1, <4>1
    <3>4. QED
      BY <1>1, <2>1, <3>2, <3>3 DEF CountersPast
  <2>4. QED
    BY <1>1, <2>1, <2>2, <2>3, TypeParts DEF TypeInv, CountersType, RequestsType
<1>6. CASE Expire
  <2>1. PICK w \in Minutes, k \in Keys : redis' = [redis EXCEPT ![w][k] = None]
    BY <1>6 DEF Expire
  <2>2. /\ redis' \in [Minutes -> [Keys -> RedisKey \cup {None}]]
        /\ \A v \in Minutes, j \in Keys :
              redis'[v][j] # None => redis[v][j] # None /\ redis'[v][j] = redis[v][j]
    BY <1>1, <2>1 DEF CountersType
  <2>3. UNCHANGED <<now, local, pc, job, ticket, hits>>
    BY <1>6 DEF Expire
  <2>4. InFlight' /\ CountersPast'
    BY <1>1, <2>2, <2>3 DEF InFlight, CountersPast
  <2>5. QED
    BY <1>1, <2>2, <2>3, <2>4, TypeParts DEF TypeInv, CountersType, RequestsType
<1>7. CASE UNCHANGED vars
  BY <1>1, <1>7, TypeParts DEF vars, TypeInv, CountersType, RequestsType, InFlight, CountersPast
<1>8. QED
  BY <1>2, <1>3, <1>4, <1>5, <1>6, <1>7 DEF Next

-----------------------------------------------------------------------------
(* The servers' maps                                                       *)

MemoryInv == TypeInv /\ MemoryBounded /\ \A s \in Servers : IsFiniteSet(Tracked(s))

LEMMA InitMemory == Init => MemoryInv
<1> SUFFICES ASSUME Init PROVE MemoryInv
  OBVIOUS
<1>1. \A s \in Servers : Tracked(s) = {}
  BY DEF Init, Tracked
<1>2. QED
  BY <1>1, InitTypes, FS_EmptySet DEF MemoryInv, MemoryBounded

\* What cleaning leaves is below the threshold or of the current minute.
LEMMA LocalMemory ==
    ASSUME MemoryInv, TypeInv', NEW r \in Requests, IncrementLocal(r)
    PROVE  MemoryInv'
<1>0. PICK s \in Servers, k \in Keys : s = job[r].server /\ k = job[r].key
  BY LocalMoves DEF MemoryInv
<1> DEFINE left == {j \in Keys : Cleaned(s)[j] # None}
<1>1. /\ s \in Servers /\ k \in Keys
      /\ local'[s][k] # None /\ local'[s][k].window = now
      /\ \A j \in Keys \ {k} : local'[s][j] = Cleaned(s)[j]
      /\ \A x \in Servers \ {s} : local'[x] = local[x]
  <2>1. local'[s][k] = [window |-> now, count |-> NextCount(Cleaned(s)[k], now)]
    BY <1>0, LocalMoves DEF MemoryInv
  <2>2. local'[s][k].window = now
    BY <2>1
  <2>3. QED
    BY <1>0, <2>2, LocalMoves DEF MemoryInv
<1>2. CountersType /\ CountersPast /\ now \in Nat
  BY TypeParts, MinuteFacts DEF MemoryInv, TypeInv
<1>3. /\ \A j \in Keys : \/ Cleaned(s)[j] = local[s][j]
                         \/ Cleaned(s)[j] = None
      /\ left \subseteq Tracked(s)
  BY <1>1, <1>2, CleanedFacts DEF Tracked
<1>4. IsFiniteSet(left) /\ Cardinality(left) <= Cardinality(Tracked(s))
  BY <1>1, <1>3, FS_Subset DEF MemoryInv
<1>5. Tracked(s)' = left \cup {k}
  BY <1>1 DEF Tracked
<1>6. /\ IsFiniteSet(Tracked(s)') /\ Cardinality(Tracked(s)') <= Cardinality(left) + 1
      /\ Cardinality(left) \in Nat /\ Cardinality(Tracked(s)) \in Nat
      /\ Cardinality(Tracked(s)') \in Nat
  <2>1. IsFiniteSet(Tracked(s)) /\ IsFiniteSet(left)
    BY <1>4 DEF MemoryInv
  <2>2. Cardinality(left) \in Nat /\ Cardinality(Tracked(s)) \in Nat
    BY <2>1, FS_CardinalityType
  <2> HIDE DEF left
  <2>3. /\ IsFiniteSet(left \cup {k})
        /\ Cardinality(left \cup {k}) = IF k \in left THEN Cardinality(left)
                                       ELSE Cardinality(left) + 1
    BY <2>1, FS_AddElement
  <2>4. QED
    BY <1>5, <2>2, <2>3
<1>7. \/ Cardinality(Tracked(s)') <= CleanupAt
      \/ \A i, j \in Tracked(s)' : local'[s][i].window = local'[s][j].window
  <2>1. CASE Cardinality(Tracked(s)) < CleanupAt
    BY <1>4, <1>6, <2>1, LimiterAssumption
  <2>2. CASE ~(Cardinality(Tracked(s)) < CleanupAt)
    <3>1. ASSUME NEW j \in left PROVE local[s][j].window = now /\ Cleaned(s)[j] = local[s][j]
      <4>1. local[s][j] # None /\ ~(local[s][j].window < now) /\ Cleaned(s)[j] = local[s][j]
        BY <2>2, <3>1 DEF Cleaned
      <4>2. local[s][j].window \in Nat /\ local[s][j].window <= now
        BY <1>1, <1>2, <3>1, <4>1, MinuteFacts DEF CountersType, CountersPast, Bucket
      <4>3. QED
        BY <1>2, <4>1, <4>2
    <3>2. \A j \in Tracked(s)' : local'[s][j].window = now
      BY <1>1, <1>5, <3>1
    <3>3. QED
      BY <3>2
  <2>3. QED
    BY <2>1, <2>2
<1>8. ASSUME NEW x \in Servers
      PROVE  /\ IsFiniteSet(Tracked(x)')
             /\ \/ Cardinality(Tracked(x)') <= CleanupAt
                \/ \A i, j \in Tracked(x)' : local'[x][i].window = local'[x][j].window
  <2>1. CASE x = s
    BY <1>6, <1>7, <2>1
  <2>2. CASE x # s
    <3>1. local'[x] = local[x] /\ Tracked(x)' = Tracked(x)
      BY <1>1, <2>2 DEF Tracked
    <3>2. QED
      BY <3>1 DEF MemoryInv, MemoryBounded
  <2>3. QED
    BY <2>1, <2>2
<1>9. QED
  BY <1>8 DEF MemoryInv, MemoryBounded

LEMMA StepMemory == MemoryInv /\ [Next]_vars => MemoryInv'
<1> SUFFICES ASSUME MemoryInv, [Next]_vars PROVE MemoryInv'
  OBVIOUS
<1>1. TypeInv'
  BY StepTypes DEF MemoryInv
<1>2. CASE \E r \in Requests : IncrementLocal(r)
  BY <1>1, <1>2, LocalMemory
<1>3. CASE ~ \E r \in Requests : IncrementLocal(r)
  <2>1. local' = local
    BY <1>3 DEF Next, vars, Arrive, Exec, ExecFails, Tick, Expire
  <2>2. QED
    BY <1>1, <2>1 DEF MemoryInv, MemoryBounded, Tracked
<1>4. QED
  BY <1>2, <1>3

-----------------------------------------------------------------------------
(* Tickets                                                                 *)

\* A key that expired belongs to a minute nobody counts in any more.
RedisTicket(t) ==
    IF redis[t.window][t.key] = None THEN now > t.window + 1
    ELSE t.count <= redis[t.window][t.key].count

\* A bucket that was replaced or dropped belongs to an earlier minute.
LocalTicket(t) ==
    LET b == local[t.backend][t.key] IN
    /\ t.window <= now
    /\ IF b = None \/ b.window # t.window THEN t.window < now ELSE t.count <= b.count

TicketHolds(t) == IF t.backend = "redis" THEN RedisTicket(t) ELSE LocalTicket(t)

SameSlot(t, u) == t.backend = u.backend /\ t.window = u.window /\ t.key = u.key

TicketsDistinct ==
    \A r, q \in Requests :
        (r # q /\ ticket[r] # None /\ ticket[q] # None /\ SameSlot(ticket[r], ticket[q])) =>
            ticket[r].count # ticket[q].count

TicketInv ==
    /\ TypeInv
    /\ \A r \in Requests, t \in Ticket : ticket[r] = t => TicketHolds(t)
    /\ TicketsDistinct

\* A request decided with a count above all others of its slot.
LEMMA TicketAdded ==
    ASSUME TicketInv, TypeInv', NEW r \in Requests, NEW t \in Ticket, ticket'[r] = t,
           \A x \in Requests \ {r} : ticket'[x] = ticket[x],
           \A u \in Ticket : TicketHolds(u) => TicketHolds(u)',
           TicketHolds(t)',
           \A u \in Ticket : TicketHolds(u) /\ SameSlot(u, t) => u.count < t.count
    PROVE  TicketInv'
<1>1. \A x \in Requests : ticket[x] # None => ticket[x] \in Ticket /\ TicketHolds(ticket[x])
  BY TypeParts DEF TicketInv, TypeInv, RequestsType
<1>2. ASSUME NEW x \in Requests, NEW u \in Ticket, ticket'[x] = u PROVE TicketHolds(u)'
  <2>1. CASE x = r
    BY <1>2, <2>1
  <2>2. CASE x # r
    <3>1. ticket[x] = u
      BY <1>2, <2>2
    <3>2. TicketHolds(u)
      BY <3>1 DEF TicketInv
    <3>3. QED
      BY <3>2
  <2>3. QED
    BY <2>1, <2>2
<1>3. ASSUME NEW x \in Requests, NEW q \in Requests, x # q, ticket'[x] # None,
             ticket'[q] # None, SameSlot(ticket'[x], ticket'[q])
      PROVE  ticket'[x].count # ticket'[q].count
  <2>1. CASE x = r
    <3>1. ticket[q] \in Ticket /\ TicketHolds(ticket[q]) /\ SameSlot(ticket[q], t)
      BY <1>1, <1>3, <2>1 DEF SameSlot
    <3>2. ticket[q].count < t.count /\ ticket[q].count \in Nat /\ t.count \in Nat
      BY <3>1 DEF Ticket
    <3>3. QED
      BY <1>3, <2>1, <3>2
  <2>2. CASE q = r
    <3>1. ticket[x] \in Ticket /\ TicketHolds(ticket[x]) /\ SameSlot(ticket[x], t)
      BY <1>1, <1>3, <2>2 DEF SameSlot
    <3>2. ticket[x].count < t.count /\ ticket[x].count \in Nat /\ t.count \in Nat
      BY <3>1 DEF Ticket
    <3>3. QED
      BY <1>3, <2>2, <3>2
  <2>3. CASE x # r /\ q # r
    BY <1>3, <2>3 DEF TicketInv, TicketsDistinct
  <2>4. QED
    BY <2>1, <2>2, <2>3
<1>4. TicketsDistinct'
  BY <1>3 DEF TicketsDistinct, SameSlot
<1>5. QED
  BY <1>2, <1>4 DEF TicketInv

\* No request decided.
LEMMA TicketsStay ==
    ASSUME TicketInv, TypeInv', UNCHANGED ticket,
           \A u \in Ticket : TicketHolds(u) => TicketHolds(u)'
    PROVE  TicketInv'
<1>1. \A x \in Requests, u \in Ticket : ticket'[x] = u => TicketHolds(u)'
  BY DEF TicketInv
<1>2. QED
  BY <1>1 DEF TicketInv, TicketsDistinct, SameSlot

\* An increment in Redis raises the count of a key above all tickets it gave.
LEMMA RedisCounts ==
    ASSUME TypeInv, TypeInv', NEW r \in Requests, pc[r] = "exec", Increment(r),
           now <= job[r].window + 1, UNCHANGED <<now, local>>
    PROVE  /\ \A u \in Ticket : TicketHolds(u) => TicketHolds(u)'
           /\ \A u \in Ticket :
                 /\ TicketHolds(u) /\ u.backend = "redis"
                 /\ u.window = job[r].window /\ u.key = job[r].key
                 => u.count < Counted(job[r].window, job[r].key) + 1
<1>0. PICK w \in Minutes, k \in Keys, n \in Nat \ {0} :
        /\ w = job[r].window /\ k = job[r].key /\ n = Counted(job[r].window, job[r].key) + 1
        /\ redis'[w][k] = [count |-> n, touched |-> now] /\ redis'[w][k] # None
        /\ \A v \in Minutes, j \in Keys : ~(v = w /\ j = k) => redis'[v][j] = redis[v][j]
  BY IncrementTypes
<1>1. redis'[w][k].count = n
  BY <1>0
<1>2. ASSUME NEW u \in Ticket, TicketHolds(u), u.backend = "redis", u.window = w, u.key = k
      PROVE  u.count < n
  <2>1. redis[w][k] # None /\ u.count <= redis[w][k].count
    <3>1. w \in Nat /\ now \in Nat /\ ~(now > w + 1)
      BY <1>0, TypeParts, MinuteFacts DEF TypeInv
    <3>2. QED
      BY <1>2, <3>1 DEF TicketHolds, RedisTicket
  <2>2. n = redis[w][k].count + 1
    BY <1>0, <2>1 DEF Counted
  <2>3. u.count \in Nat /\ redis[w][k].count \in Nat
    BY <2>1, TypeParts DEF TypeInv, CountersType, RedisKey, Ticket
  <2>4. QED
    BY <2>1, <2>2, <2>3
<1>3. ASSUME NEW u \in Ticket, TicketHolds(u) PROVE TicketHolds(u)'
  <2>1. CASE u.backend = "redis" /\ u.window = w /\ u.key = k
    <3>1. u.count < n /\ u.count \in Nat
      BY <1>2, <1>3, <2>1 DEF Ticket
    <3>2. QED
      BY <1>0, <1>1, <2>1, <3>1 DEF TicketHolds, RedisTicket
  <2>2. CASE u.backend = "redis" /\ ~(u.window = w /\ u.key = k)
    <3>1. u.window \in Minutes /\ u.key \in Keys
      BY DEF Ticket
    <3>2. redis'[u.window][u.key] = redis[u.window][u.key]
      BY <1>0, <2>2, <3>1
    <3>3. QED
      BY <1>3, <2>2, <3>2 DEF TicketHolds, RedisTicket
  <2>3. CASE u.backend # "redis"
    BY <1>3, <2>3 DEF TicketHolds, LocalTicket
  <2>4. QED
    BY <2>1, <2>2, <2>3
<1>4. QED
  BY <1>0, <1>2, <1>3

\* So does an increment of a bucket, which starts again only for a new minute.
LEMMA LocalCounts ==
    ASSUME TypeInv, TypeInv', NEW r \in Requests, IncrementLocal(r),
           NEW s \in Servers, NEW k \in Keys, s = job[r].server, k = job[r].key,
           NEW n \in Nat \ {0}, n = NextCount(Cleaned(s)[k], now)
    PROVE  /\ \A u \in Ticket : TicketHolds(u) => TicketHolds(u)'
           /\ \A u \in Ticket :
                 /\ TicketHolds(u) /\ u.backend = s /\ u.window = now /\ u.key = k
                 => u.count < n
           /\ local'[s][k] = [window |-> now, count |-> n] /\ local'[s][k] # None
           /\ UNCHANGED <<now, redis>>
<1>1. /\ local'[s][k] = [window |-> now, count |-> n] /\ local'[s][k] # None
      /\ \A j \in Keys \ {k} : local'[s][j] = Cleaned(s)[j]
      /\ \A x \in Servers \ {s} : local'[x] = local[x]
      /\ UNCHANGED <<now, redis>>
  BY LocalMoves
<1>2. local'[s][k].window = now /\ local'[s][k].count = n
  BY <1>1
<1>3. /\ CountersType /\ CountersPast /\ now \in Nat /\ s # "redis"
  BY TypeParts, MinuteFacts, LimiterAssumption DEF TypeInv
<1>4. ASSUME NEW u \in Ticket, TicketHolds(u), u.backend = s, u.window = now, u.key = k
      PROVE  u.count < n
  <2>1. local[s][k] # None /\ local[s][k].window = now /\ u.count <= local[s][k].count
    BY <1>3, <1>4 DEF TicketHolds, LocalTicket
  <2>2. Cleaned(s)[k] = local[s][k]
    BY <1>3, <2>1, CleanedFacts
  <2>3. n = local[s][k].count + 1
    BY <2>1, <2>2 DEF NextCount
  <2>4. u.count \in Nat /\ local[s][k].count \in Nat
    BY <1>3, <2>1 DEF CountersType, Bucket, Ticket
  <2>5. QED
    BY <2>1, <2>3, <2>4
<1>5. ASSUME NEW u \in Ticket, TicketHolds(u) PROVE TicketHolds(u)'
  <2>1. u.backend \in Servers \cup {"redis"} /\ u.window \in Nat /\ u.key \in Keys /\ u.count \in Nat
    BY MinuteFacts DEF Ticket, Backends
  <2>2. CASE u.backend = "redis"
    BY <1>1, <1>5, <2>2 DEF TicketHolds, RedisTicket
  <2>3. CASE u.backend = s /\ u.key = k
    <3>1. LocalTicket(u)
      BY <1>3, <1>5, <2>3 DEF TicketHolds
    <3>2. u.window <= now /\ (u.window = now => u.count < n)
      BY <1>4, <1>5, <2>3, <3>1 DEF LocalTicket
    <3>3. LocalTicket(u)'
      BY <1>1, <1>2, <1>3, <2>1, <2>3, <3>2 DEF LocalTicket
    <3>4. QED
      BY <1>3, <2>3, <3>3 DEF TicketHolds
  <2>4. CASE u.backend = s /\ u.key # k
    <3>1. LocalTicket(u)
      BY <1>3, <1>5, <2>4 DEF TicketHolds
    <3>2. \/ local'[s][u.key] = local[s][u.key]
          \/ local'[s][u.key] = None /\ local[s][u.key].window < now
      <4>1. u.key \in Keys \ {k}
        BY <2>1, <2>4
      <4>2. local'[s][u.key] = Cleaned(s)[u.key]
        BY <1>1, <4>1
      <4>3. QED
        BY <1>3, <2>1, <4>2, CleanedFacts
    <3>3. local[s][u.key] # None => local[s][u.key].window \in Nat
      BY <1>3, <2>1, MinuteFacts DEF CountersType, Bucket
    <3>4. LocalTicket(u)'
      BY <1>1, <1>3, <2>1, <2>4, <3>1, <3>2, <3>3 DEF LocalTicket
    <3>5. QED
      BY <1>3, <2>4, <3>4 DEF TicketHolds
  <2>5. CASE u.backend \in Servers \ {s}
    <3>1. u.backend # "redis" /\ local'[u.backend] = local[u.backend]
      BY <1>1, <2>5, LimiterAssumption
    <3>2. QED
      BY <1>1, <1>5, <3>1 DEF TicketHolds, LocalTicket
  <2>6. QED
    BY <2>1, <2>2, <2>3, <2>4, <2>5
<1>6. QED
  BY <1>1, <1>4, <1>5

LEMMA ClockKeepsTickets ==
    ASSUME TypeInv, TypeInv', Tick \/ Expire, NEW u \in Ticket, TicketHolds(u)
    PROVE  TicketHolds(u)'
<1>1. /\ u.backend \in Backends /\ u.window \in Minutes /\ u.window \in Nat /\ u.key \in Keys
      /\ now \in Nat /\ now' \in Nat
  BY TypeParts, MinuteFacts DEF Ticket, TypeInv
<1>2. CASE Tick
  <2>1. now' = now + 1 /\ UNCHANGED <<redis, local>>
    BY <1>2 DEF Tick
  <2>2. CASE u.backend = "redis"
    BY <1>1, <2>1, <2>2 DEF TicketHolds, RedisTicket
  <2>3. CASE u.backend # "redis"
    BY <1>1, <2>1, <2>3 DEF TicketHolds, LocalTicket
  <2>4. QED
    BY <2>2, <2>3
<1>3. CASE Expire
  <2>1. PICK w \in Minutes, k \in Keys :
          /\ redis[w][k] # None /\ now >= redis[w][k].touched + 2
          /\ redis' = [redis EXCEPT ![w][k] = None]
    BY <1>3 DEF Expire, KeyLifetime
  <2>2. UNCHANGED <<now, local>>
    BY <1>3 DEF Expire
  <2>3. CASE u.backend = "redis" /\ u.window = w /\ u.key = k
    <3>1. redis'[w][k] = None
      BY <2>1, TypeParts DEF TypeInv, CountersType
    <3>2. w <= redis[w][k].touched /\ redis[w][k].touched \in Nat
      BY <2>1, TypeParts, MinuteFacts DEF TypeInv, CountersPast, CountersType, RedisKey
    <3>3. now > w + 1
      BY <1>1, <2>1, <2>3, <3>2
    <3>4. QED
      BY <2>2, <2>3, <3>1, <3>3 DEF TicketHolds, RedisTicket
  <2>4. CASE u.backend = "redis" /\ ~(u.window = w /\ u.key = k)
    <3>1. redis'[u.window][u.key] = redis[u.window][u.key]
      BY <1>1, <2>1, <2>4, TypeParts DEF TypeInv, CountersType
    <3>2. QED
      BY <2>2, <2>4, <3>1 DEF TicketHolds, RedisTicket
  <2>5. CASE u.backend # "redis"
    BY <2>2, <2>5 DEF TicketHolds, LocalTicket
  <2>6. QED
    BY <2>3, <2>4, <2>5
<1>4. QED
  BY <1>2, <1>3

LEMMA StepTickets == TicketInv /\ [Next]_vars => TicketInv'
<1> SUFFICES ASSUME TicketInv, [Next]_vars PROVE TicketInv'
  OBVIOUS
<1>1. TypeInv /\ TypeInv' /\ RequestsType
  BY StepTypes, TypeParts DEF TicketInv, TypeInv
<1>2. ASSUME NEW r \in Requests, Exec(r) PROVE TicketInv'
  <2>1. PICK w \in Minutes, k \in Keys, n \in Nat \ {0} :
          w = job[r].window /\ k = job[r].key /\ n = Counted(job[r].window, job[r].key) + 1
    BY <1>1, <1>2, IncrementTypes DEF Exec
  <2> DEFINE t == [backend |-> "redis", window |-> w, key |-> k, count |-> n]
  <2>2. /\ ticket'[r] = t /\ t \in Ticket
        /\ \A x \in Requests \ {r} : ticket'[x] = ticket[x]
    <3>1. Decide(r, "redis", w, n) /\ "redis" \in Backends /\ job[r].key \in Keys
      BY <1>2, <2>1 DEF Exec, Backends
    <3>2. QED
      BY <1>1, <2>1, <3>1, DecideTypes
  <2>3. /\ \A u \in Ticket : TicketHolds(u) => TicketHolds(u)'
        /\ \A u \in Ticket : /\ TicketHolds(u) /\ u.backend = "redis"
                             /\ u.window = w /\ u.key = k
                             => u.count < n
    BY <1>1, <1>2, <2>1, RedisCounts DEF Exec
  <2>4. redis'[w][k] = [count |-> n, touched |-> now] /\ redis'[w][k] # None
    BY <1>1, <1>2, <2>1, IncrementTypes DEF Exec
  <2>5. redis'[w][k].count = n
    BY <2>4
  <2>6. t.backend = "redis" /\ t.window = w /\ t.key = k /\ t.count = n
    OBVIOUS
  <2> HIDE DEF t
  <2>7. TicketHolds(t)'
    BY <2>4, <2>5, <2>6 DEF TicketHolds, RedisTicket
  <2>8. QED
    BY <1>1, <2>2, <2>3, <2>6, <2>7, TicketAdded DEF SameSlot
<1>3. ASSUME NEW r \in Requests, ExecFails(r) PROVE TicketInv'
  <2>1. UNCHANGED <<now, local, ticket>> /\ pc[r] = "exec"
    BY <1>3 DEF ExecFails
  <2>2. CASE UNCHANGED <<redis, hits>>
    <3>1. \A u \in Ticket : TicketHolds(u) => TicketHolds(u)'
      BY <2>1, <2>2 DEF TicketHolds, RedisTicket, LocalTicket
    <3>2. QED
      BY <1>1, <2>1, <3>1, TicketsStay
  <2>3. CASE now <= job[r].window + 1 /\ Increment(r)
    BY <1>1, <2>1, <2>3, RedisCounts, TicketsStay
  <2>4. QED
    BY <1>3, <2>2, <2>3 DEF ExecFails
<1>4. ASSUME NEW r \in Requests, IncrementLocal(r) PROVE TicketInv'
  <2>1. PICK s \in Servers, k \in Keys, n \in Nat \ {0} :
          s = job[r].server /\ k = job[r].key /\ n = NextCount(Cleaned(s)[k], now)
    <3> DEFINE server == job[r].server
               key == job[r].key
               count == NextCount(Cleaned(server)[key], now)
    <3>1. server \in Servers /\ key \in Keys /\ count \in Nat \ {0}
      BY <1>1, <1>4, LocalMoves
    <3> HIDE DEF server, key, count
    <3>2. \E s \in Servers, k \in Keys, n \in Nat \ {0} : s = server /\ k = key /\ n = count
      BY <3>1
    <3>3. QED
      BY <3>2 DEF server, key, count
  <2>2. PICK w \in Minutes : w = now
    BY <1>1, TypeParts DEF TypeInv
  <2> DEFINE t == [backend |-> s, window |-> w, key |-> k, count |-> n]
  <2>3. /\ ticket'[r] = t /\ t \in Ticket
        /\ \A x \in Requests \ {r} : ticket'[x] = ticket[x]
    <3>1. Decide(r, s, w, n)
      BY <1>1, <1>4, <2>1, <2>2, LocalMoves
    <3>2. s \in Backends /\ job[r].key \in Keys
      BY <2>1 DEF Backends
    <3>3. QED
      BY <1>1, <2>1, <3>1, <3>2, DecideTypes
  <2>4. /\ \A u \in Ticket : TicketHolds(u) => TicketHolds(u)'
        /\ \A u \in Ticket :
              TicketHolds(u) /\ u.backend = s /\ u.window = now /\ u.key = k => u.count < n
        /\ local'[s][k] = [window |-> now, count |-> n] /\ local'[s][k] # None
        /\ UNCHANGED <<now, redis>>
    BY <1>1, <1>4, <2>1, LocalCounts
  <2>5. local'[s][k].window = w /\ local'[s][k].count = n
    BY <2>2, <2>4
  <2>6. t.backend = s /\ t.window = w /\ t.key = k /\ t.count = n
    OBVIOUS
  <2> HIDE DEF t
  <2>7. TicketHolds(t)'
    BY <2>2, <2>4, <2>5, <2>6, MinuteFacts, LimiterAssumption DEF TicketHolds, LocalTicket
  <2>8. QED
    BY <1>1, <2>2, <2>3, <2>4, <2>6, <2>7, TicketAdded DEF SameSlot
<1>5. CASE Tick \/ Expire
  <2>1. UNCHANGED ticket
    BY <1>5 DEF Tick, Expire
  <2>2. QED
    BY <1>1, <1>5, <2>1, ClockKeepsTickets, TicketsStay
<1>6. CASE UNCHANGED <<now, redis, local, ticket>>
  <2>1. \A u \in Ticket : TicketHolds(u) => TicketHolds(u)'
    BY <1>6 DEF TicketHolds, RedisTicket, LocalTicket
  <2>2. QED
    BY <1>1, <1>6, <2>1, TicketsStay
<1>7. QED
  BY <1>2, <1>3, <1>4, <1>5, <1>6 DEF Next, Arrive, vars

-----------------------------------------------------------------------------
(* Hits                                                                    *)

HitsOf(b, w, k) == {h \in hits : h.backend = b /\ h.window = w /\ h.key = k}

Hits(b, w, k) == Cardinality(HitsOf(b, w, k))

\* A request is counted at most once in Redis and after that at most once by
\* its server.
HitsOnce ==
    \A h \in hits : /\ pc[h.request] \in {"local", "done"}
                    /\ h.backend # "redis" => pc[h.request] = "done"

\* No counter and no ticket exceeds the increments made.
RedisHits == \A w \in Minutes, k \in Keys :
    redis[w][k] # None => redis[w][k].count <= Hits("redis", w, k)

LocalHits == \A s \in Servers, k \in Keys, b \in Bucket :
    local[s][k] = b => b.count <= Hits(s, b.window, k)

TicketHits == \A r \in Requests, t \in Ticket :
    ticket[r] = t => t.count <= Hits(t.backend, t.window, t.key)

HitInv == TypeInv /\ IsFiniteSet(hits) /\ HitsOnce /\ RedisHits /\ LocalHits /\ TicketHits

LEMMA InitHits == Init => HitInv
<1> SUFFICES ASSUME Init PROVE HitInv
  OBVIOUS
<1>1. IsFiniteSet(hits)
  BY FS_EmptySet DEF Init
<1>2. HitsOnce /\ RedisHits /\ LocalHits /\ TicketHits
  BY NoneFacts DEF Init, HitsOnce, RedisHits, LocalHits, TicketHits
<1>3. QED
  BY <1>1, <1>2, InitTypes DEF HitInv

LEMMA HitsAreNumbers ==
    ASSUME IsFiniteSet(hits), NEW b, NEW w, NEW k
    PROVE  IsFiniteSet(HitsOf(b, w, k)) /\ Hits(b, w, k) \in Nat
<1>1. HitsOf(b, w, k) \in SUBSET hits
  BY DEF HitsOf
<1>2. IsFiniteSet(HitsOf(b, w, k))
  BY <1>1, FS_Subset
<1>3. QED
  BY <1>2, FS_CardinalityType DEF Hits

\* One new hit: its slot grows by one, the others stay.
LEMMA HitAdded ==
    ASSUME IsFiniteSet(hits), NEW h, h \notin hits, hits' = hits \cup {h}
    PROVE  /\ IsFiniteSet(hits')
           /\ \A b, w, k : /\ Hits(b, w, k) \in Nat /\ Hits(b, w, k)' \in Nat
                           /\ Hits(b, w, k) <= Hits(b, w, k)'
           /\ Hits(h.backend, h.window, h.key)' = Hits(h.backend, h.window, h.key) + 1
<1>1. IsFiniteSet(hits')
  BY FS_AddElement
<1>2. ASSUME NEW b, NEW w, NEW k
      PROVE  /\ Hits(b, w, k) \in Nat
             /\ b = h.backend /\ w = h.window /\ k = h.key => Hits(b, w, k)' = Hits(b, w, k) + 1
             /\ ~(b = h.backend /\ w = h.window /\ k = h.key) => Hits(b, w, k)' = Hits(b, w, k)
  <2>1. IsFiniteSet(HitsOf(b, w, k)) /\ Hits(b, w, k) \in Nat
    BY HitsAreNumbers
  <2>2. CASE b = h.backend /\ w = h.window /\ k = h.key
    <3>1. HitsOf(b, w, k)' = HitsOf(b, w, k) \cup {h} /\ h \notin HitsOf(b, w, k)
      BY <2>2 DEF HitsOf
    <3>2. Cardinality(HitsOf(b, w, k) \cup {h}) = Cardinality(HitsOf(b, w, k)) + 1
      BY <2>1, <3>1, FS_AddElement
    <3>3. QED
      BY <2>1, <2>2, <3>1, <3>2 DEF Hits
  <2>3. CASE ~(b = h.backend /\ w = h.window /\ k = h.key)
    <3>1. HitsOf(b, w, k)' = HitsOf(b, w, k)
      BY <2>3 DEF HitsOf
    <3>2. QED
      BY <2>1, <2>3, <3>1 DEF Hits
  <2>4. QED
    BY <2>2, <2>3
<1>3. ASSUME NEW b, NEW w, NEW k
      PROVE  Hits(b, w, k) \in Nat /\ Hits(b, w, k)' \in Nat /\ Hits(b, w, k) <= Hits(b, w, k)'
  <2>1. CASE b = h.backend /\ w = h.window /\ k = h.key
    BY <1>2, <2>1
  <2>2. CASE ~(b = h.backend /\ w = h.window /\ k = h.key)
    BY <1>2, <2>2
  <2>3. QED
    BY <2>1, <2>2
<1>4. Hits(h.backend, h.window, h.key)' = Hits(h.backend, h.window, h.key) + 1
  BY <1>2
<1>5. QED
  BY <1>1, <1>3, <1>4

\* Counts below as many hits stay below more hits.
LEMMA FewerThanMore ==
    ASSUME HitInv, TypeInv',
           \A b, w, k : /\ Hits(b, w, k) \in Nat /\ Hits(b, w, k)' \in Nat
                        /\ Hits(b, w, k) <= Hits(b, w, k)'
    PROVE  /\ \A w \in Minutes, k \in Keys : redis[w][k] # None =>
                 redis[w][k].count <= Hits("redis", w, k)'
           /\ \A s \in Servers, k \in Keys, b \in Bucket : local[s][k] = b =>
                 b.count <= Hits(s, b.window, k)'
           /\ \A r \in Requests, t \in Ticket : ticket[r] = t =>
                 t.count <= Hits(t.backend, t.window, t.key)'
<1>1. CountersType
  BY TypeParts DEF HitInv, TypeInv
<1>2. ASSUME NEW w \in Minutes, NEW k \in Keys, redis[w][k] # None
      PROVE  redis[w][k].count <= Hits("redis", w, k)'
  <2>1. redis[w][k].count \in Nat /\ redis[w][k].count <= Hits("redis", w, k)
    BY <1>1, <1>2 DEF HitInv, RedisHits, CountersType, RedisKey
  <2>2. Hits("redis", w, k) \in Nat /\ Hits("redis", w, k)' \in Nat
           /\ Hits("redis", w, k) <= Hits("redis", w, k)'
    OBVIOUS
  <2>3. QED
    BY <2>1, <2>2
<1>3. ASSUME NEW s \in Servers, NEW k \in Keys, NEW b \in Bucket, local[s][k] = b
      PROVE  b.count <= Hits(s, b.window, k)'
  <2>1. b.count \in Nat /\ b.count <= Hits(s, b.window, k)
    BY <1>3, NoneFacts DEF HitInv, LocalHits, Bucket
  <2>2. Hits(s, b.window, k) \in Nat /\ Hits(s, b.window, k)' \in Nat
           /\ Hits(s, b.window, k) <= Hits(s, b.window, k)'
    OBVIOUS
  <2>3. QED
    BY <2>1, <2>2
<1>4. ASSUME NEW r \in Requests, NEW t \in Ticket, ticket[r] = t
      PROVE  t.count <= Hits(t.backend, t.window, t.key)'
  <2>1. t.count \in Nat /\ t.count <= Hits(t.backend, t.window, t.key)
    BY <1>4 DEF HitInv, TicketHits, Ticket
  <2>2. Hits(t.backend, t.window, t.key) \in Nat /\ Hits(t.backend, t.window, t.key)' \in Nat
           /\ Hits(t.backend, t.window, t.key) <= Hits(t.backend, t.window, t.key)'
    OBVIOUS
  <2>3. QED
    BY <2>1, <2>2
<1>5. QED
  BY <1>2, <1>3, <1>4

LEMMA ExecHits ==
    ASSUME HitInv, TypeInv', NEW r \in Requests, Exec(r) \/ (ExecFails(r) /\ Increment(r))
    PROVE  HitInv'
<1>1. TypeInv /\ RequestsType /\ pc[r] = "exec" /\ Increment(r) /\ UNCHANGED local
  BY TypeParts DEF HitInv, TypeInv, Exec, ExecFails
<1>2. PICK w \in Minutes, k \in Keys, n \in Nat \ {0} :
        /\ w = job[r].window /\ k = job[r].key /\ n = Counted(job[r].window, job[r].key) + 1
        /\ redis'[w][k] = [count |-> n, touched |-> now] /\ redis'[w][k] # None
        /\ \A v \in Minutes, j \in Keys : ~(v = w /\ j = k) => redis'[v][j] = redis[v][j]
  BY <1>1, IncrementTypes
<1> DEFINE h == [backend |-> "redis", window |-> w, key |-> k, request |-> r]
<1>3. hits' = hits \cup {h}
  BY <1>1, <1>2 DEF Increment
<1>4. h.backend = "redis" /\ h.window = w /\ h.key = k /\ h.request = r
  OBVIOUS
<1> HIDE DEF h
<1>5. h \notin hits
  BY <1>1, <1>4 DEF HitInv, HitsOnce
<1>6. /\ IsFiniteSet(hits')
      /\ \A b, v, j : /\ Hits(b, v, j) \in Nat /\ Hits(b, v, j)' \in Nat
                      /\ Hits(b, v, j) <= Hits(b, v, j)'
      /\ Hits("redis", w, k)' = Hits("redis", w, k) + 1
  <2>1. IsFiniteSet(hits)
    BY DEF HitInv
  <2>2. Hits(h.backend, h.window, h.key)' = Hits(h.backend, h.window, h.key) + 1
    BY <1>3, <1>5, <2>1, HitAdded
  <2>3. Hits("redis", w, k)' = Hits("redis", w, k) + 1
    BY <1>4, <2>2, <1>3 DEF Hits, HitsOf
  <2>4. QED
    BY <1>3, <1>5, <2>1, <2>3, HitAdded
<1>7. /\ \A v \in Minutes, j \in Keys : redis[v][j] # None =>
            redis[v][j].count <= Hits("redis", v, j)'
      /\ \A s \in Servers, j \in Keys, b \in Bucket : local[s][j] = b =>
            b.count <= Hits(s, b.window, j)'
      /\ \A q \in Requests, t \in Ticket : ticket[q] = t =>
            t.count <= Hits(t.backend, t.window, t.key)'
  BY <1>6, FewerThanMore
<1>8. n <= Hits("redis", w, k)'
  <2>1. Hits("redis", w, k) \in Nat
    BY <1>6
  <2>2. CASE redis[w][k] = None
    BY <1>2, <1>6, <2>1, <2>2 DEF Counted
  <2>3. CASE redis[w][k] # None
    <3>1. redis[w][k].count <= Hits("redis", w, k) /\ n = redis[w][k].count + 1
      BY <1>2, <2>3 DEF Counted, HitInv, RedisHits
    <3>2. redis[w][k].count \in Nat
      BY <1>1, <2>3, TypeParts DEF TypeInv, CountersType, RedisKey
    <3>3. QED
      BY <1>6, <2>1, <3>1, <3>2
  <2>4. QED
    BY <2>2, <2>3
<1>9. RedisHits'
  <2>1. redis'[w][k].count = n
    BY <1>2
  <2>2. ASSUME NEW v \in Minutes, NEW j \in Keys, redis'[v][j] # None
        PROVE  redis'[v][j].count <= Hits("redis", v, j)'
    <3>1. CASE v = w /\ j = k
      BY <1>8, <2>1, <3>1
    <3>2. CASE ~(v = w /\ j = k)
      BY <1>2, <1>7, <2>2, <3>2
    <3>3. QED
      BY <3>1, <3>2
  <2>3. QED
    BY <2>2 DEF RedisHits
<1>10. LocalHits'
  BY <1>1, <1>7 DEF LocalHits
<1>11. /\ pc'[r] \in {"local", "done"}
       /\ \A x \in Requests \ {r} : pc'[x] = pc[x] /\ ticket'[x] = ticket[x]
       /\ \A t \in Ticket : ticket'[r] = t =>
             \/ ticket[r] = t
             \/ t.backend = "redis" /\ t.window = w /\ t.key = k /\ t.count = n
  <2>1. CASE ExecFails(r)
    BY <1>1, <2>1 DEF ExecFails, RequestsType
  <2>2. CASE Exec(r)
    <3>1. Decide(r, "redis", w, n) /\ "redis" \in Backends /\ job[r].key \in Keys
      BY <1>2, <2>2 DEF Exec, Backends
    <3>2. /\ ticket'[r] = [backend |-> "redis", window |-> w, key |-> job[r].key, count |-> n]
          /\ pc'[r] = "done"
          /\ \A x \in Requests \ {r} : pc'[x] = pc[x] /\ ticket'[x] = ticket[x]
      BY <1>1, <3>1, DecideTypes
    <3>3. QED
      BY <1>2, <3>2
  <2>3. QED
    BY <2>1, <2>2
<1>12. TicketHits'
  <2>1. ASSUME NEW x \in Requests, NEW t \in Ticket, ticket'[x] = t
        PROVE  t.count <= Hits(t.backend, t.window, t.key)'
    <3>1. CASE ticket[x] = t
      BY <1>7, <3>1
    <3>2. CASE ticket[x] # t
      <4>1. t.backend = "redis" /\ t.window = w /\ t.key = k /\ t.count = n
        BY <1>11, <2>1, <3>2
      <4>2. Hits(t.backend, t.window, t.key)' = Hits("redis", w, k)'
        BY <4>1 DEF Hits, HitsOf
      <4>3. QED
        BY <1>8, <4>1, <4>2
    <3>3. QED
      BY <3>1, <3>2
  <2>2. QED
    BY <2>1 DEF TicketHits
<1>13. HitsOnce'
  <2>1. ASSUME NEW g \in hits'
        PROVE  pc'[g.request] \in {"local", "done"} /\ (g.backend # "redis" => pc'[g.request] = "done")
    <3>1. CASE g = h
      BY <1>4, <1>11, <3>1
    <3>2. CASE g \in hits
      <4>1. g.request \in Requests
        BY <1>1, <3>2, TypeParts DEF TypeInv, Hit
      <4>2. /\ pc[g.request] \in {"local", "done"}
            /\ g.backend # "redis" => pc[g.request] = "done"
        BY <3>2 DEF HitInv, HitsOnce
      <4>3. g.request # r
        BY <1>1, <4>2
      <4>4. QED
        BY <1>11, <4>1, <4>2, <4>3
    <3>3. QED
      BY <1>3, <2>1, <3>1, <3>2
  <2>2. QED
    BY <2>1 DEF HitsOnce
<1>14. QED
  BY <1>6, <1>9, <1>10, <1>12, <1>13 DEF HitInv

LEMMA IncrementLocalHits ==
    ASSUME HitInv, TypeInv', NEW r \in Requests, IncrementLocal(r)
    PROVE  HitInv'
<1>1. TypeInv /\ RequestsType /\ CountersType /\ pc[r] = "local" /\ UNCHANGED <<now, redis>>
  BY TypeParts, LocalMoves DEF HitInv, TypeInv
<1>2. PICK s \in Servers, k \in Keys, w \in Minutes :
        s = job[r].server /\ k = job[r].key /\ w = now
  BY <1>1, LocalMoves, TypeParts DEF TypeInv
<1>3. PICK n \in Nat \ {0} : n = NextCount(Cleaned(s)[k], now)
  BY <1>1, <1>2, LocalMoves
<1> DEFINE h == [backend |-> s, window |-> w, key |-> k, request |-> r]
           c == [window |-> w, count |-> n]
<1>4. /\ local'[s][k] = c
      /\ \A j \in Keys \ {k} : local'[s][j] = Cleaned(s)[j]
      /\ \A x \in Servers \ {s} : local'[x] = local[x]
      /\ hits' = hits \cup {h}
      /\ Decide(r, s, w, n)
  BY <1>1, <1>2, <1>3, LocalMoves
<1>5. /\ h.backend = s /\ h.window = w /\ h.key = k /\ h.request = r
      /\ c.window = w /\ c.count = n
  OBVIOUS
<1> HIDE DEF h, c
<1>6. h \notin hits /\ s # "redis"
  BY <1>1, <1>2, <1>5, LimiterAssumption DEF HitInv, HitsOnce
<1>7. /\ IsFiniteSet(hits')
      /\ \A b, v, j : /\ Hits(b, v, j) \in Nat /\ Hits(b, v, j)' \in Nat
                      /\ Hits(b, v, j) <= Hits(b, v, j)'
      /\ Hits(s, w, k)' = Hits(s, w, k) + 1
  <2>1. IsFiniteSet(hits)
    BY DEF HitInv
  <2>2. Hits(h.backend, h.window, h.key)' = Hits(h.backend, h.window, h.key) + 1
    BY <1>4, <1>6, <2>1, HitAdded
  <2>3. Hits(s, w, k)' = Hits(s, w, k) + 1
    BY <1>5, <2>2, <1>4 DEF Hits, HitsOf
  <2>4. QED
    BY <1>4, <1>6, <2>1, <2>3, HitAdded
<1>8. /\ \A v \in Minutes, j \in Keys : redis[v][j] # None =>
            redis[v][j].count <= Hits("redis", v, j)'
      /\ \A x \in Servers, j \in Keys, b \in Bucket : local[x][j] = b =>
            b.count <= Hits(x, b.window, j)'
      /\ \A q \in Requests, t \in Ticket : ticket[q] = t =>
            t.count <= Hits(t.backend, t.window, t.key)'
  BY <1>7, FewerThanMore
<1>9. n <= Hits(s, w, k)'
  <2>1. Hits(s, w, k) \in Nat
    BY <1>7
  <2>2. CASE Cleaned(s)[k] = None \/ Cleaned(s)[k].window # now
    BY <1>3, <1>7, <2>1, <2>2 DEF NextCount
  <2>3. CASE Cleaned(s)[k] # None /\ Cleaned(s)[k].window = now
    <3>1. local[s][k] # None /\ local[s][k] = Cleaned(s)[k] /\ local[s][k] \in Bucket
      BY <1>1, <2>3, CleanedFacts DEF CountersType
    <3>2. n = local[s][k].count + 1 /\ local[s][k].window = w
      BY <1>2, <1>3, <2>3, <3>1 DEF NextCount
    <3>3. local[s][k].count <= Hits(s, w, k) /\ local[s][k].count \in Nat
      <4>1. PICK b \in Bucket : b = local[s][k]
        BY <3>1
      <4>2. b.count <= Hits(s, b.window, k) /\ b.window = w
        BY <3>2, <4>1 DEF HitInv, LocalHits
      <4>3. QED
        BY <4>1, <4>2 DEF Bucket
    <3>4. QED
      BY <1>7, <2>1, <3>2, <3>3
  <2>4. QED
    BY <2>2, <2>3
<1>10. RedisHits'
  BY <1>1, <1>8 DEF RedisHits
<1>11. LocalHits'
  <2>1. ASSUME NEW x \in Servers, NEW j \in Keys, NEW b \in Bucket, local'[x][j] = b
        PROVE  b.count <= Hits(x, b.window, j)'
    <3>1. CASE x = s /\ j = k
      <4>1. b.count = n /\ b.window = w
        BY <1>4, <1>5, <2>1, <3>1
      <4>2. Hits(x, b.window, j)' = Hits(s, w, k)'
        BY <3>1, <4>1 DEF Hits, HitsOf
      <4>3. QED
        BY <1>9, <4>1, <4>2
    <3>2. CASE ~(x = s /\ j = k)
      <4>1. local[x][j] = b
        BY <1>1, <1>4, <2>1, <3>2, CleanedFacts, NoneFacts
      <4>2. QED
        BY <1>8, <4>1
    <3>3. QED
      BY <3>1, <3>2
  <2>2. QED
    BY <2>1 DEF LocalHits
<1>12. /\ pc'[r] = "done"
       /\ \A x \in Requests \ {r} : pc'[x] = pc[x] /\ ticket'[x] = ticket[x]
       /\ \A t \in Ticket : ticket'[r] = t =>
             t.backend = s /\ t.window = w /\ t.key = k /\ t.count = n
  <2>1. s \in Backends /\ job[r].key \in Keys
    BY <1>2 DEF Backends
  <2>2. /\ ticket'[r] = [backend |-> s, window |-> w, key |-> job[r].key, count |-> n]
        /\ pc'[r] = "done"
        /\ \A x \in Requests \ {r} : pc'[x] = pc[x] /\ ticket'[x] = ticket[x]
    BY <1>1, <1>4, <2>1, DecideTypes
  <2>3. QED
    BY <1>2, <2>2
<1>13. TicketHits'
  <2>1. ASSUME NEW x \in Requests, NEW t \in Ticket, ticket'[x] = t
        PROVE  t.count <= Hits(t.backend, t.window, t.key)'
    <3>1. CASE x # r
      BY <1>8, <1>12, <2>1, <3>1
    <3>2. CASE x = r
      <4>1. t.backend = s /\ t.window = w /\ t.key = k /\ t.count = n
        BY <1>12, <2>1, <3>2
      <4>2. Hits(t.backend, t.window, t.key)' = Hits(s, w, k)'
        BY <4>1 DEF Hits, HitsOf
      <4>3. QED
        BY <1>9, <4>1, <4>2
    <3>3. QED
      BY <3>1, <3>2
  <2>2. QED
    BY <2>1 DEF TicketHits
<1>14. HitsOnce'
  <2>1. ASSUME NEW g \in hits'
        PROVE  pc'[g.request] \in {"local", "done"} /\ (g.backend # "redis" => pc'[g.request] = "done")
    <3>1. CASE g = h
      BY <1>5, <1>12, <3>1
    <3>2. CASE g \in hits
      <4>1. g.request \in Requests
        BY <1>1, <3>2, TypeParts DEF TypeInv, Hit
      <4>2. /\ pc[g.request] \in {"local", "done"}
            /\ g.backend # "redis" => pc[g.request] = "done"
        BY <3>2 DEF HitInv, HitsOnce
      <4>3. QED
        BY <1>12, <4>1, <4>2
    <3>3. QED
      BY <1>4, <2>1, <3>1, <3>2
  <2>2. QED
    BY <2>1 DEF HitsOnce
<1>15. QED
  BY <1>7, <1>10, <1>11, <1>13, <1>14 DEF HitInv

LEMMA StepHits == HitInv /\ [Next]_vars => HitInv'
<1> SUFFICES ASSUME HitInv, [Next]_vars PROVE HitInv'
  OBVIOUS
<1>1. TypeInv /\ TypeInv' /\ RequestsType /\ CountersType
  BY StepTypes, TypeParts DEF HitInv, TypeInv
<1>2. ASSUME NEW r \in Requests, Exec(r) \/ (ExecFails(r) /\ Increment(r)) PROVE HitInv'
  BY <1>1, <1>2, ExecHits
<1>3. ASSUME NEW r \in Requests, IncrementLocal(r) PROVE HitInv'
  BY <1>1, <1>3, IncrementLocalHits
<1>4. ASSUME UNCHANGED <<hits, local, ticket>>,
             \A w \in Minutes, k \in Keys : redis'[w][k] # None =>
                 redis[w][k] # None /\ redis'[w][k] = redis[w][k],
             \A x \in Requests :
                 \/ pc'[x] = pc[x]
                 \/ pc[x] \in {"idle", "exec"}
      PROVE  HitInv'
  <2>1. \A b, w, k : Hits(b, w, k)' = Hits(b, w, k)
    BY <1>4 DEF Hits, HitsOf
  <2>2. RedisHits' /\ LocalHits' /\ TicketHits'
    BY <1>4, <2>1 DEF HitInv, RedisHits, LocalHits, TicketHits
  <2>3. ASSUME NEW g \in hits
        PROVE  pc'[g.request] \in {"local", "done"} /\ (g.backend # "redis" => pc'[g.request] = "done")
    <3>1. g.request \in Requests
      BY <1>1, TypeParts DEF TypeInv, Hit
    <3>2. QED
      BY <1>4, <3>1 DEF HitInv, HitsOnce
  <2>4. HitsOnce'
    BY <1>4, <2>3 DEF HitsOnce
  <2>5. QED
    BY <1>1, <1>4, <2>2, <2>4 DEF HitInv
<1>5. ASSUME NEW r \in Requests, Arrive(r) \/ (ExecFails(r) /\ UNCHANGED <<redis, hits>>)
      PROVE  HitInv'
  <2>1. /\ UNCHANGED <<hits, local, ticket, redis>>
        /\ \A x \in Requests : pc'[x] = pc[x] \/ pc[x] \in {"idle", "exec"}
    BY <1>1, <1>5 DEF Arrive, ExecFails, RequestsType
  <2>2. QED
    BY <1>4, <2>1
<1>6. CASE Tick
  BY <1>4, <1>6 DEF Tick
<1>7. CASE Expire
  <2>1. PICK w \in Minutes, k \in Keys : redis' = [redis EXCEPT ![w][k] = None]
    BY <1>7 DEF Expire
  <2>2. \A v \in Minutes, j \in Keys : redis'[v][j] # None =>
            redis[v][j] # None /\ redis'[v][j] = redis[v][j]
    BY <1>1, <2>1 DEF CountersType
  <2>3. QED
    BY <1>4, <1>7, <2>2 DEF Expire
<1>8. CASE UNCHANGED vars
  BY <1>4, <1>8 DEF vars
<1>9. QED
  BY <1>2, <1>3, <1>5, <1>6, <1>7, <1>8 DEF Next, ExecFails

-----------------------------------------------------------------------------
(* Theorems                                                                *)

\* Counters, tickets and hits keep their types; no minute is in the future.
THEOREM LimiterTypes == Spec => []TypeOK
<1>1. TypeInv => TypeOK
  BY DEF TypeInv
<1>2. QED
  BY <1>1, InitTypes, StepTypes, PTL DEF Spec

\* A server's map keeps to the cleanup size or to one minute's clients.
THEOREM LimiterMemory == Spec => []MemoryBounded
<1>1. MemoryInv => MemoryBounded
  BY DEF MemoryInv
<1>2. QED
  BY <1>1, InitMemory, StepMemory, PTL DEF Spec

LEMMA FewAdmitted ==
    ASSUME TicketInv, NEW b \in Backends, NEW w \in Minutes, NEW k \in Keys
    PROVE  Cardinality(Admitted(b, w, k)) <= Limit
<1> DEFINE A == Admitted(b, w, k)
           f == [r \in A |-> ticket[r].count]
<1>1. \A r \in A : ticket[r] \in Ticket /\ ticket[r].count \in 1..Limit /\ ticket[r] # None
  <2>1. ASSUME NEW r \in A PROVE ticket[r] \in Ticket /\ ticket[r].count <= Limit /\ ticket[r] # None
    BY TypeParts DEF Admitted, TicketInv, TypeInv, RequestsType
  <2>2. QED
    BY <2>1, LimiterAssumption DEF Ticket
<1>2. \A r, q \in A : f[r] = f[q] => r = q
  BY DEF Admitted, TicketInv, TicketsDistinct, SameSlot
<1>3. f \in [A -> 1..Limit]
  BY <1>1
<1>4. f \in Injection(A, 1..Limit)
  BY <1>2, <1>3 DEF Injection, IsInjective
<1>5. IsFiniteSet(1..Limit) /\ Cardinality(1..Limit) = Limit
  BY FS_Interval, LimiterAssumption
<1> HIDE DEF A, f
<1>6. Cardinality(A) <= Limit
  BY <1>4, <1>5, FS_Injection
<1>7. QED
  BY <1>6 DEF A

\* At most Limit requests of a client and route pass each counter in a minute.
THEOREM LimitHolds == Spec => []AtMostLimit
<1>1. Init => TicketInv
  BY InitTypes, NoneFacts DEF Init, TicketInv, TicketsDistinct
<1>2. TicketInv => AtMostLimit
  BY FewAdmitted DEF AtMostLimit
<1>3. QED
  BY <1>1, <1>2, StepTickets, PTL DEF Spec

\* Who is refused was one of more than Limit requests counted in that minute.
THEOREM RefusalsJustified == Spec => []RefusalJustified
<1>1. HitInv => RefusalJustified
  <2> SUFFICES ASSUME HitInv, NEW r \in Requests, ticket[r] # None, ticket[r].count > Limit
               PROVE  Cardinality({h \in hits : /\ h.backend = ticket[r].backend
                                                /\ h.window = ticket[r].window
                                                /\ h.key = ticket[r].key}) > Limit
    BY DEF RefusalJustified
  <2>1. PICK t \in Ticket : ticket[r] = t
    BY TypeParts DEF HitInv, TypeInv, RequestsType
  <2>2. t.count <= Hits(t.backend, t.window, t.key) /\ t.count \in Nat /\ t.count > Limit
    BY <2>1 DEF HitInv, TicketHits, Ticket
  <2>3. Hits(t.backend, t.window, t.key) \in Nat
    BY HitsAreNumbers DEF HitInv
  <2>4. Hits(t.backend, t.window, t.key) > Limit
    BY <2>2, <2>3, LimiterAssumption
  <2>5. QED
    BY <2>1, <2>4 DEF Hits, HitsOf
<1>2. QED
  BY <1>1, InitHits, StepHits, PTL DEF Spec
==============================================================================
