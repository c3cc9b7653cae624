---------------------------- MODULE StartupProofs ----------------------------
(***************************************************************************)
(* Proofs about Startup, for any number of processes, attempts and        *)
(* failures: what Seed does without a transaction over its tables, booted *)
(* by several processes at once and broken off anywhere.                  *)
(***************************************************************************)
EXTENDS Startup, TLAPS

LEMMA SeedOrderFacts ==
    /\ Len(SeedOrder) = 5
    /\ \A n \in 1..5 : SeedOrder[n] \in Tables
    /\ \A t \in Tables : \E n \in 1..5 : t = SeedOrder[n]
BY DEF SeedOrder, Tables

-----------------------------------------------------------------------------
(* The inductive invariant                                                 *)

\* Rows exist only in tables that were seeded: the first other row comes from
\* a process that serves.
RowsAfterSeeds == \A t \in Tables : live[t] > 0 => seedings[t] > 0

\* A process has passed a table only when it was seeded, by whomever.
PassedTablesSeeded ==
    \A s \in Servers : pc[s] \in {"count", "insert"} =>
        \A n \in 1..5 : n < stage[s] => seedings[SeedOrder[n]] > 0

\* And it leaves Seed when it has passed them all.
SeededAfterSeed ==
    \A s \in Servers : pc[s] \in {"redis", "serving"} =>
        \A t \in Tables : seedings[t] > 0

\* Seed begins with the first table: Exit forgets how far the last boot came.
SeedFromFirst ==
    \A s \in Servers : pc[s] \in {"down", "connect", "migrate", "create"} => stage[s] = 1

SeedInv ==
    /\ TypeOK
    /\ SeedFromFirst
    /\ SeededAtMostOnce
    /\ RowsAfterSeeds
    /\ PassedTablesSeeded
    /\ SeededAfterSeed

-----------------------------------------------------------------------------
(* Where a process goes                                                    *)

\* No table's seeds are forgotten.
SeedsStay == \A t \in Tables : seedings[t] > 0 => seedings'[t] > 0

\* A process that moves on, and nothing of the tables that is forgotten, keep
\* the two parts about processes.
LEMMA ProcessMoves ==
    ASSUME SeedInv, TypeOK', SeedsStay, NEW s \in Servers,
           \A x \in Servers \ {s} : pc'[x] = pc[x] /\ stage'[x] = stage[x],
           pc'[s] \in {"count", "insert"} =>
               \A n \in 1..5 : n < stage'[s] => seedings'[SeedOrder[n]] > 0,
           pc'[s] \in {"redis", "serving"} => \A t \in Tables : seedings'[t] > 0,
           pc'[s] \in {"down", "connect", "migrate", "create"} => stage'[s] = 1
    PROVE  PassedTablesSeeded' /\ SeededAfterSeed' /\ SeedFromFirst'
<1>1. ASSUME NEW x \in Servers, pc'[x] \in {"count", "insert"}, NEW n \in 1..5, n < stage'[x]
      PROVE  seedings'[SeedOrder[n]] > 0
  BY <1>1, SeedOrderFacts DEF SeedInv, PassedTablesSeeded, SeedsStay
<1>2. ASSUME NEW x \in Servers, pc'[x] \in {"redis", "serving"}, NEW t \in Tables
      PROVE  seedings'[t] > 0
  BY <1>2 DEF SeedInv, SeededAfterSeed, SeedsStay
<1>3. ASSUME NEW x \in Servers, pc'[x] \in {"down", "connect", "migrate", "create"}
      PROVE  stage'[x] = 1
  BY <1>3 DEF SeedInv, SeedFromFirst
<1>4. QED
  BY <1>1, <1>2, <1>3 DEF PassedTablesSeeded, SeededAfterSeed, SeedFromFirst

LEMMA GotoMoves ==
    ASSUME TypeOK, NEW s \in Servers, NEW step \in
               {"down", "connect", "migrate", "create", "count", "insert", "redis", "serving"},
           Goto(s, step)
    PROVE  /\ pc' \in [Servers -> {"down", "connect", "migrate", "create", "count",
                                   "insert", "redis", "serving"}]
           /\ attempt' = attempt /\ stage' = stage /\ pc'[s] = step
           /\ \A x \in Servers \ {s} : pc'[x] = pc[x]
BY DEF TypeOK, Goto

LEMMA ExitMoves ==
    ASSUME TypeOK, NEW s \in Servers, Exit(s)
    PROVE  /\ pc' \in [Servers -> {"down", "connect", "migrate", "create", "count",
                                   "insert", "redis", "serving"}]
           /\ attempt' \in [Servers -> 0..Attempts]
           /\ stage' \in [Servers -> 1..Len(SeedOrder)]
           /\ pc'[s] = "down" /\ stage'[s] = 1
           /\ \A x \in Servers \ {s} : pc'[x] = pc[x] /\ stage'[x] = stage[x]
BY StartupAssumption, SeedOrderFacts DEF TypeOK, Exit

\* Having passed the table at its stage, a process goes to the next or leaves.
LEMMA NextTableMoves ==
    ASSUME SeedInv, NEW s \in Servers, pc[s] \in {"count", "insert"}, NextTable(s),
           SeedsStay, seedings'[SeedOrder[stage[s]]] > 0
    PROVE  /\ pc' \in [Servers -> {"down", "connect", "migrate", "create", "count",
                                   "insert", "redis", "serving"}]
           /\ attempt' = attempt
           /\ stage' \in [Servers -> 1..Len(SeedOrder)]
           /\ \A x \in Servers \ {s} : pc'[x] = pc[x] /\ stage'[x] = stage[x]
           /\ pc'[s] \in {"count", "redis"}
           /\ pc'[s] = "count" => \A n \in 1..5 : n < stage'[s] => seedings'[SeedOrder[n]] > 0
           /\ pc'[s] = "redis" => \A t \in Tables : seedings'[t] > 0
<1>1. TypeOK /\ stage[s] \in 1..5
  BY SeedOrderFacts DEF SeedInv, TypeOK
<1>2. \A n \in 1..5 : n <= stage[s] => seedings'[SeedOrder[n]] > 0
  BY <1>1, SeedOrderFacts DEF SeedInv, PassedTablesSeeded, SeedsStay
<1>3. CASE stage[s] < 5
  BY <1>1, <1>2, <1>3, SeedOrderFacts DEF NextTable, TypeOK
<1>4. CASE stage[s] = 5
  BY <1>1, <1>2, <1>4, SeedOrderFacts DEF NextTable, Goto, TypeOK
<1>5. QED
  BY <1>1, <1>3, <1>4

-----------------------------------------------------------------------------
(* Every step                                                              *)

LEMMA InitSeed == Init => SeedInv
<1> SUFFICES ASSUME Init PROVE SeedInv
  OBVIOUS
<1>1. TypeOK
  <2>1. dbUp \in BOOLEAN /\ redisUp \in BOOLEAN
    BY DEF Init
  <2>2. schema \in BOOLEAN
    BY DEF Init
  <2>3. /\ live \in [Tables -> 0..MaxLive] /\ seedings \in [Tables -> Nat]
        /\ attempt \in [Servers -> 0..Attempts]
        /\ stage \in [Servers -> 1..Len(SeedOrder)] /\ failures \in 0..MaxFailures
    BY StartupAssumption, SeedOrderFacts DEF Init
  <2>4. pc \in [Servers -> {"down", "connect", "migrate", "create", "count",
                           "insert", "redis", "serving"}]
    BY DEF Init
  <2>5. QED
    BY <2>1, <2>2, <2>3, <2>4 DEF TypeOK
<1>2. QED
  BY <1>1 DEF Init, SeedInv, SeededAtMostOnce, RowsAfterSeeds, PassedTablesSeeded,
     SeededAfterSeed, SeedFromFirst

\* Steps that leave rows and seeds alone.
LEMMA ProcessStep ==
    ASSUME SeedInv, NEW s \in Servers,
           UNCHANGED <<dbUp, redisUp, live, seedings, failures>>, schema' \in BOOLEAN,
           \/ Exit(s)
           \/ NextTable(s) /\ pc[s] = "count" /\ seedings[SeedOrder[stage[s]]] > 0
           \/ Goto(s, "connect") /\ pc[s] = "down"
           \/ Goto(s, "migrate") /\ pc[s] = "connect"
           \/ Goto(s, "create") /\ pc[s] = "migrate"
           \/ Goto(s, "count") /\ pc[s] \in {"migrate", "create"}
           \/ Goto(s, "insert") /\ pc[s] = "count"
           \/ Goto(s, "serving") /\ pc[s] = "redis"
    PROVE  SeedInv'
<1>1. TypeOK /\ SeedsStay
  BY DEF SeedInv, SeedsStay
<1>2. ASSUME TypeOK', PassedTablesSeeded', SeededAfterSeed', SeedFromFirst'
      PROVE  SeedInv'
  BY <1>2 DEF SeedInv, SeededAtMostOnce, RowsAfterSeeds
<1>3. CASE Exit(s)
  <2>1. TypeOK'
    BY <1>1, <1>3, ExitMoves DEF TypeOK
  <2>2. QED
    BY <1>1, <1>2, <1>3, <2>1, ExitMoves, ProcessMoves
<1>4. CASE NextTable(s) /\ pc[s] = "count" /\ seedings[SeedOrder[stage[s]]] > 0
  <2>1. TypeOK'
    BY <1>1, <1>4, NextTableMoves DEF TypeOK
  <2>2. QED
    BY <1>1, <1>2, <1>4, <2>1, NextTableMoves, ProcessMoves
<1>5. ASSUME NEW step \in {"connect", "migrate", "create", "count", "insert", "serving"},
             Goto(s, step),
             step \in {"connect", "migrate", "create", "count"}
                => pc[s] \in {"down", "connect", "migrate", "create"},
             step = "insert" => pc[s] = "count",
             step = "serving" => pc[s] = "redis"
      PROVE  SeedInv'
  <2>1. TypeOK'
    BY <1>1, <1>5, GotoMoves DEF TypeOK
  <2>2. pc'[s] = step /\ stage' = stage /\ \A x \in Servers \ {s} : pc'[x] = pc[x]
    BY <1>1, <1>5, GotoMoves
  <2>3. pc'[s] \in {"count", "insert"} =>
           \A n \in 1..5 : n < stage'[s] => seedings'[SeedOrder[n]] > 0
    BY <1>5, <2>2 DEF SeedInv, PassedTablesSeeded, SeedFromFirst
  <2>4. pc'[s] \in {"redis", "serving"} => \A t \in Tables : seedings'[t] > 0
    BY <1>5, <2>2 DEF SeedInv, SeededAfterSeed
  <2>5. pc'[s] \in {"down", "connect", "migrate", "create"} => stage'[s] = 1
    BY <1>5, <2>2 DEF SeedInv, SeedFromFirst
  <2>6. QED
    BY <1>1, <1>2, <2>1, <2>2, <2>3, <2>4, <2>5, ProcessMoves
<1>6. QED
  BY <1>3, <1>4, <1>5

\* The INSERT that goes in.
LEMMA SeedStep ==
    ASSUME SeedInv, NEW s \in Servers, pc[s] = "insert", NextTable(s),
           CodesFree(SeedOrder[stage[s]]),
           live' = [live EXCEPT ![SeedOrder[stage[s]]] = SeedRows],
           seedings' = [seedings EXCEPT ![SeedOrder[stage[s]]] = @ + 1],
           UNCHANGED <<dbUp, redisUp, schema, failures>>
    PROVE  SeedInv'
<1> DEFINE t == SeedOrder[stage[s]]
<1>1. TypeOK /\ t \in Tables
  BY SeedOrderFacts DEF SeedInv, TypeOK
<1>2. /\ seedings' \in [Tables -> Nat] /\ seedings[t] = 0 /\ seedings'[t] = 1
      /\ \A x \in Tables \ {t} : seedings'[x] = seedings[x]
  BY <1>1 DEF TypeOK, CodesFree
<1>3. /\ live' \in [Tables -> 0..MaxLive]
      /\ \A x \in Tables \ {t} : live'[x] = live[x]
  BY <1>1, StartupAssumption DEF TypeOK
<1> HIDE DEF t
<1>4. SeedsStay
  BY <1>1, <1>2 DEF SeedsStay
<1>5. TypeOK'
  BY <1>1, <1>2, <1>3, <1>4, NextTableMoves DEF TypeOK, t
<1>6. SeededAtMostOnce' /\ RowsAfterSeeds'
  BY <1>2, <1>3 DEF SeedInv, SeededAtMostOnce, RowsAfterSeeds
<1>7. PassedTablesSeeded' /\ SeededAfterSeed' /\ SeedFromFirst'
  BY <1>2, <1>4, <1>5, NextTableMoves, ProcessMoves DEF t
<1>8. QED
  BY <1>5, <1>6, <1>7 DEF SeedInv

LEMMA BootKeeps ==
    ASSUME SeedInv, NEW s \in Servers, Boot(s) \/ Restart(s)
    PROVE  SeedInv'
<1> USE DEF tables
<1>0. TypeOK
  BY DEF SeedInv
<1>1. CASE Restart(s)
  BY <1>0, <1>1, ProcessStep DEF Restart, TypeOK
<1>2. CASE Connect(s)
  <2>1. CASE /\ attempt[s] + 1 < Attempts
             /\ attempt' = [attempt EXCEPT ![s] = @ + 1]
             /\ UNCHANGED <<pc, stage>>
    <3>1. attempt' \in [Servers -> 0..Attempts]
      BY <1>0, <2>1, StartupAssumption DEF TypeOK
    <3>2. QED
      BY <1>0, <1>2, <2>1, <3>1 DEF Connect, TypeOK, SeedInv, SeededAtMostOnce,
         RowsAfterSeeds, PassedTablesSeeded, SeededAfterSeed, SeedFromFirst
  <2>2. CASE Goto(s, "migrate") \/ Exit(s)
    BY <1>0, <1>2, <2>2, ProcessStep DEF Connect, TypeOK
  <2>3. QED
    BY <1>2, <2>1, <2>2 DEF Connect
<1>3. CASE Migrate(s)
  BY <1>0, <1>3, ProcessStep DEF Migrate, TypeOK
<1>4. CASE CreateTables(s)
  BY <1>0, <1>4, ProcessStep DEF CreateTables, TypeOK
<1>5. CASE CountRows(s)
  <2>1. SeedOrder[stage[s]] \in Tables
    BY <1>0, SeedOrderFacts DEF TypeOK
  <2>2. live[SeedOrder[stage[s]]] > 0 => seedings[SeedOrder[stage[s]]] > 0
    BY <2>1 DEF SeedInv, RowsAfterSeeds
  <2>3. QED
    BY <1>0, <1>5, <2>2, ProcessStep DEF CountRows, TypeOK
<1>6. CASE InsertSeeds(s)
  <2>1. CASE Exit(s) /\ UNCHANGED tables
    BY <1>0, <1>6, <2>1, ProcessStep DEF InsertSeeds, TypeOK
  <2>2. CASE ~(Exit(s) /\ UNCHANGED tables)
    BY <1>6, <2>2, SeedStep DEF InsertSeeds
  <2>3. QED
    BY <2>1, <2>2
<1>7. CASE PingRedis(s)
  BY <1>0, <1>7, ProcessStep DEF PingRedis, TypeOK
<1>8. QED
  BY <1>1, <1>2, <1>3, <1>4, <1>5, <1>6, <1>7 DEF Boot

\* Rows created and deleted by processes that serve.
LEMMA RowsKeep ==
    ASSUME SeedInv, NEW s \in Servers, CreateRow(s) \/ DeleteRow(s)
    PROVE  SeedInv'
<1> USE DEF process
<1>1. TypeOK /\ pc[s] = "serving"
  BY DEF SeedInv, CreateRow, DeleteRow
<1>2. \A t \in Tables : seedings[t] > 0
  BY <1>1 DEF SeedInv, SeededAfterSeed
<1>3. live' \in [Tables -> 0..MaxLive]
  <2>1. PICK t \in Tables, n \in 0..MaxLive : live' = [live EXCEPT ![t] = n]
    <3>1. CASE CreateRow(s)
      <4>1. PICK t \in Tables : live[t] < MaxLive /\ live' = [live EXCEPT ![t] = @ + 1]
        BY <3>1 DEF CreateRow
      <4>2. live[t] + 1 \in 0..MaxLive
        BY <1>1, <4>1, StartupAssumption DEF TypeOK
      <4>3. QED
        BY <4>1, <4>2
    <3>2. CASE DeleteRow(s)
      <4>1. PICK t \in Tables : live[t] > 0 /\ live' = [live EXCEPT ![t] = @ - 1]
        BY <3>2 DEF DeleteRow
      <4>2. live[t] - 1 \in 0..MaxLive
        BY <1>1, <4>1, StartupAssumption DEF TypeOK
      <4>3. QED
        BY <4>1, <4>2
    <3>3. QED
      BY <3>1, <3>2
  <2>2. QED
    BY <1>1, <2>1 DEF TypeOK
<1>4. TypeOK'
  BY <1>1, <1>3 DEF TypeOK, CreateRow, DeleteRow
<1>5. QED
  BY <1>2, <1>4 DEF SeedInv, SeededAtMostOnce, RowsAfterSeeds, PassedTablesSeeded,
     SeededAfterSeed, SeedFromFirst, CreateRow, DeleteRow

LEMMA FailuresKeep ==
    ASSUME SeedInv, (\E s \in Servers : Crash(s)) \/ Outage \/ DbReturns \/ RedisReturns
    PROVE  SeedInv'
<1> USE DEF process, tables
<1>1. TypeOK
  BY DEF SeedInv
<1>2. ASSUME NEW s \in Servers, Crash(s) PROVE SeedInv'
  <2>1. failures' \in 0..MaxFailures
    BY <1>1, <1>2, StartupAssumption DEF Crash, Failure, TypeOK
  <2>2. TypeOK'
    BY <1>1, <1>2, <2>1, ExitMoves DEF Crash, TypeOK
  <2>3. SeedsStay
    BY <1>2 DEF Crash, SeedsStay
  <2>4. PassedTablesSeeded' /\ SeededAfterSeed' /\ SeedFromFirst'
    BY <1>1, <1>2, <2>2, <2>3, ExitMoves, ProcessMoves DEF Crash
  <2>5. QED
    BY <1>2, <2>2, <2>4 DEF Crash, SeedInv, SeededAtMostOnce, RowsAfterSeeds
<1>3. CASE Outage \/ DbReturns \/ RedisReturns
  <2>1. TypeOK'
    <3>1. UNCHANGED <<tables, process>>
      BY <1>3 DEF Outage, DbReturns, RedisReturns
    <3>2. failures' \in 0..MaxFailures
      BY <1>1, <1>3, StartupAssumption DEF TypeOK, Outage, Failure, DbReturns, RedisReturns
    <3>3. dbUp' \in BOOLEAN /\ redisUp' \in BOOLEAN
      BY <1>1, <1>3, Zenon DEF TypeOK, Outage, DbReturns, RedisReturns
    <3>4. QED
      BY <1>1, <3>1, <3>2, <3>3 DEF TypeOK
  <2>2. QED
    BY <1>3, <2>1 DEF Outage, DbReturns, RedisReturns, SeedInv, SeededAtMostOnce,
       RowsAfterSeeds, PassedTablesSeeded, SeededAfterSeed, SeedFromFirst
<1>4. QED
  BY <1>2, <1>3

LEMMA StepSeed == SeedInv /\ [Next]_vars => SeedInv'
<1> SUFFICES ASSUME SeedInv, [Next]_vars PROVE SeedInv'
  OBVIOUS
<1>1. CASE UNCHANGED vars
  BY <1>1 DEF vars, tables, process, SeedInv, TypeOK, SeededAtMostOnce, RowsAfterSeeds,
     PassedTablesSeeded, SeededAfterSeed, SeedFromFirst
<1>2. QED
  BY <1>1, BootKeeps, RowsKeep, FailuresKeep DEF Next

-----------------------------------------------------------------------------
(* Theorems                                                                *)

\* Rows of a table follow its seeds, and processes pass only seeded tables.
THEOREM SeedInvariant == Spec => []SeedInv
<1>1. QED
  BY InitSeed, StepSeed, PTL DEF Spec

\* Rows, counters and program positions keep their types; attempts end.
THEOREM StartupTypes == Spec => []TypeOK
<1>1. SeedInv => TypeOK
  BY DEF SeedInv
<1>2. QED
  BY <1>1, SeedInvariant, PTL

\* Seeds go in at most once, however many processes boot at once.
THEOREM SeededOnce == Spec => []SeededAtMostOnce
<1>1. SeedInv => SeededAtMostOnce
  BY DEF SeedInv
<1>2. QED
  BY <1>1, SeedInvariant, PTL

\* Whoever serves finds every table seeded, whichever boots broke off where.
THEOREM ServersSeeded == Spec => []ServingMeansSeeded
<1>1. SeedInv => ServingMeansSeeded
  BY DEF SeedInv, SeededAfterSeed, ServingMeansSeeded
<1>2. QED
  BY <1>1, SeedInvariant, PTL
=============================================================================
