------------------------------- MODULE Startup -------------------------------
(***************************************************************************)
(* Booting a backend process (cmd/server/main.go, database.Open, Seed) on  *)
(* a database other processes may be booting on or serving from: connect   *)
(* with retries, migrate, seed each table whose live rows it counts as     *)
(* zero, ping Redis, serve.  Any error ends the process and Docker starts  *)
(* it again (docker-compose.yml, restart: unless-stopped).                 *)
(*                                                                         *)
(* A table is the number of its live rows and whether its seeds were ever  *)
(* inserted: the unique index on code (username for users) still holds a   *)
(* soft-deleted row's code, so the seeds fit in once and never again.      *)
(***************************************************************************)
EXTENDS Naturals, Sequences

CONSTANTS
    Servers,
    Attempts,     \* tries to connect (20)
    SeedRows,     \* rows of a seed (3; 4 users)
    MaxLive,      \* bound on the live rows of a table
    MaxFailures   \* bound on outages, crashes and expired startup contexts

ASSUME StartupAssumption ==
    /\ Attempts \in Nat \ {0} /\ SeedRows \in Nat \ {0}
    /\ MaxLive \in Nat /\ SeedRows <= MaxLive /\ MaxFailures \in Nat

\* The order of Seed.
SeedOrder ==
    <<"User", "CaptureUnit", "PermitRule", "EmissionSample", "ComplianceDecision">>

Tables == {SeedOrder[n] : n \in DOMAIN SeedOrder}

VARIABLES
    dbUp, redisUp,
    schema,    \* the tables exist
    live,      \* table -> number of rows with deleted_at NULL
    seedings,  \* table -> how often its seeds were inserted
    pc,        \* server -> step of main
    attempt,   \* server -> connection attempts made
    stage,     \* server -> position in SeedOrder
    failures   \* outages, crashes and timeouts so far

tables == <<schema, live, seedings>>
process == <<pc, attempt, stage>>
vars == <<dbUp, redisUp, tables, process, failures>>

\* Rows, counters and program positions stay within their types.
TypeOK ==
    /\ dbUp \in BOOLEAN /\ redisUp \in BOOLEAN
    /\ schema \in BOOLEAN
    /\ live \in [Tables -> 0..MaxLive]
    /\ seedings \in [Tables -> Nat]
    /\ pc \in [Servers -> {"down", "connect", "migrate", "create", "count",
                           "insert", "redis", "serving"}]
    /\ attempt \in [Servers -> 0..Attempts]
    /\ stage \in [Servers -> 1..Len(SeedOrder)]
    /\ failures \in 0..MaxFailures

\* Empty volumes, no tables; the containers start in any order.
Init ==
    /\ dbUp \in BOOLEAN /\ redisUp \in BOOLEAN
    /\ schema = FALSE
    /\ live = [t \in Tables |-> 0]
    /\ seedings = [t \in Tables |-> 0]
    /\ pc = [s \in Servers |-> "down"]
    /\ attempt = [s \in Servers |-> 0]
    /\ stage = [s \in Servers |-> 1]
    /\ failures = 0

-----------------------------------------------------------------------------
(* One boot                                                                *)

Goto(s, step) == pc' = [pc EXCEPT ![s] = step] /\ UNCHANGED <<attempt, stage>>

\* os.Exit(1); nothing of the process is left.
Exit(s) ==
    /\ pc' = [pc EXCEPT ![s] = "down"]
    /\ attempt' = [attempt EXCEPT ![s] = 0]
    /\ stage' = [stage EXCEPT ![s] = 1]

Restart(s) ==
    /\ pc[s] = "down"
    /\ Goto(s, "connect")
    /\ UNCHANGED <<dbUp, redisUp, tables, failures>>

\* Mutant: the loop has no bound.
ConnectForever(s) ==
    /\ pc[s] = "connect"
    /\ \/ dbUp /\ Goto(s, "migrate")
       \/ ~dbUp /\ attempt' = [attempt EXCEPT ![s] = @ + 1] /\ UNCHANGED <<pc, stage>>
    /\ UNCHANGED <<dbUp, redisUp, tables, failures>>

\* One pass of Open's loop: a failed one waits a second and tries again.
Connect(s) ==
    /\ pc[s] = "connect"
    /\ \/ dbUp /\ Goto(s, "migrate")
       \/ /\ ~dbUp /\ attempt[s] + 1 < Attempts
          /\ attempt' = [attempt EXCEPT ![s] = @ + 1]
          /\ UNCHANGED <<pc, stage>>
       \/ ~dbUp /\ attempt[s] + 1 = Attempts /\ Exit(s)
    /\ UNCHANGED <<dbUp, redisUp, tables, failures>>

\* AutoMigrate asks which tables exist ...
Migrate(s) ==
    /\ pc[s] = "migrate"
    /\ \/ dbUp /\ Goto(s, IF schema THEN "count" ELSE "create")
       \/ ~dbUp /\ Exit(s)
    /\ UNCHANGED <<dbUp, redisUp, tables, failures>>

\* ... and creates the missing ones: an error if another process was faster.
CreateTables(s) ==
    /\ pc[s] = "create"
    /\ \/ dbUp /\ ~schema /\ schema' = TRUE /\ Goto(s, "count")
       \/ (~dbUp \/ schema) /\ Exit(s) /\ UNCHANGED schema
    /\ UNCHANGED <<dbUp, redisUp, live, seedings, failures>>

\* On to the next table, after the last one to Redis.
NextTable(s) ==
    IF stage[s] < Len(SeedOrder)
    THEN /\ pc' = [pc EXCEPT ![s] = "count"]
         /\ stage' = [stage EXCEPT ![s] = @ + 1]
         /\ UNCHANGED attempt
    ELSE Goto(s, "redis")

\* Mutant: the table is seeded without counting its rows.
CountRowsNot(s) ==
    /\ pc[s] = "count"
    /\ IF dbUp THEN Goto(s, "insert") ELSE Exit(s)
    /\ UNCHANGED <<dbUp, redisUp, tables, failures>>

\* SELECT count(*) ... WHERE deleted_at IS NULL: a table with rows is left alone.
CountRows(s) ==
    /\ pc[s] = "count"
    /\ \/ dbUp /\ live[SeedOrder[stage[s]]] = 0 /\ Goto(s, "insert")
       \/ dbUp /\ live[SeedOrder[stage[s]]] > 0 /\ NextTable(s)
       \/ ~dbUp /\ Exit(s)
    /\ UNCHANGED <<dbUp, redisUp, tables, failures>>

\* Mutant: the index on code is not unique.
CodesFreeAlways(t) == TRUE

\* The unique index has room for the seeds' codes.
CodesFree(t) == seedings[t] = 0

\* Mutant: an error of the INSERT is logged and the next table seeded.
InsertSeedsCarriesOn(s) ==
    LET t == SeedOrder[stage[s]] IN
    /\ pc[s] = "insert"
    /\ \/ /\ dbUp /\ CodesFree(t)
          /\ live' = [live EXCEPT ![t] = SeedRows]
          /\ seedings' = [seedings EXCEPT ![t] = @ + 1]
          /\ UNCHANGED schema
          /\ NextTable(s)
       \/ ~(dbUp /\ CodesFree(t)) /\ NextTable(s) /\ UNCHANGED tables
    /\ UNCHANGED <<dbUp, redisUp, failures>>

\* One INSERT (for decisions a transaction with their revisions): all seeds
\* or none.
InsertSeeds(s) ==
    LET t == SeedOrder[stage[s]] IN
    /\ pc[s] = "insert"
    /\ \/ /\ dbUp /\ CodesFree(t)
          /\ live' = [live EXCEPT ![t] = SeedRows]
          /\ seedings' = [seedings EXCEPT ![t] = @ + 1]
          /\ UNCHANGED schema
          /\ NextTable(s)
       \/ ~(dbUp /\ CodesFree(t)) /\ Exit(s) /\ UNCHANGED tables
    /\ UNCHANGED <<dbUp, redisUp, failures>>

PingRedis(s) ==
    /\ pc[s] = "redis"
    /\ \/ redisUp /\ Goto(s, "serving")
       \/ ~redisUp /\ Exit(s)
    /\ UNCHANGED <<dbUp, redisUp, tables, failures>>

Boot(s) ==
    \/ Connect(s) \/ Migrate(s) \/ CreateTables(s) \/ CountRows(s) 
    \/ InsertSeeds(s) \/ PingRedis(s)

-----------------------------------------------------------------------------
(* Serving                                                                 *)

\* No route creates or deletes users.
CreateRow(s) ==
    /\ pc[s] = "serving" /\ dbUp
    /\ \E t \in Tables \ {"User"} :
          live[t] < MaxLive /\ live' = [live EXCEPT ![t] = @ + 1]
    /\ UNCHANGED <<dbUp, redisUp, schema, seedings, process, failures>>

DeleteRow(s) ==
    /\ pc[s] = "serving" /\ dbUp
    /\ \E t \in Tables \ {"User"} :
          live[t] > 0 /\ live' = [live EXCEPT ![t] = @ - 1]
    /\ UNCHANGED <<dbUp, redisUp, schema, seedings, process, failures>>

-----------------------------------------------------------------------------
(* Failures                                                                *)

Failure == failures < MaxFailures /\ failures' = failures + 1

\* The startup context expires, the process is killed or told to stop.
Crash(s) ==
    /\ pc[s] # "down"
    /\ Failure
    /\ Exit(s)
    /\ UNCHANGED <<dbUp, redisUp, tables>>

Outage ==
    /\ Failure
    /\ \/ dbUp /\ dbUp' = FALSE /\ UNCHANGED redisUp
       \/ redisUp /\ redisUp' = FALSE /\ UNCHANGED dbUp
    /\ UNCHANGED <<tables, process>>

DbReturns ==
    ~dbUp /\ dbUp' = TRUE /\ UNCHANGED <<redisUp, tables, process, failures>>

RedisReturns ==
    ~redisUp /\ redisUp' = TRUE /\ UNCHANGED <<dbUp, tables, process, failures>>

Next ==
    \/ \E s \in Servers :
          Restart(s) \/ Boot(s) \/ CreateRow(s) \/ DeleteRow(s) \/ Crash(s)
    \/ Outage
    \/ DbReturns
    \/ RedisReturns

\* A process runs on, Docker restarts what ended, and PostgreSQL and Redis
\* (restart: unless-stopped, health checks) come back.
Fairness ==
    /\ \A s \in Servers : WF_vars(Boot(s)) /\ WF_vars(Restart(s))
    /\ WF_vars(DbReturns) /\ WF_vars(RedisReturns)

Spec == Init /\ [][Next]_vars /\ Fairness

-----------------------------------------------------------------------------
(* Properties                                                              *)

\* A process that serves requests finds users and the demonstration records
\* of every table inserted, however often earlier boots broke off in between
\* (Seed goes through the tables one by one, without a transaction).
ServingMeansSeeded ==
    \A s \in Servers, t \in Tables : pc[s] = "serving" => seedings[t] > 0

\* However many processes boot at once, and however often, the seeds of a
\* table are inserted at most once: what an administrator deleted does not
\* come back, and nothing is inserted twice between a count and an insert.
SeededAtMostOnce == \A t \in Tables : seedings[t] <= 1

Emptied(t) == seedings[t] > 0 /\ live[t] = 0

\* Unless somebody deletes every row of a table, all processes end up serving
\* for good once failures cease: lost races on migration and seeding, broken
\* boots and outages are made up for by restarts.
EventuallyServing ==
    [](\A t \in Tables : ~Emptied(t)) => <>[](\A s \in Servers : pc[s] = "serving")
=============================================================================
