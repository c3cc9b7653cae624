------------------------------ MODULE Resources ------------------------------
(***************************************************************************)
(* Capture units, permit rules and emission samples under concurrent      *)
(* requests.  Their handlers, services and repositories are the same code *)
(* three times over (backend/internal/{handler,service,repository}/       *)
(* {capture_unit,permit_rule,emission_sample}.go) on the common Store     *)
(* (repository/base.go), each with its own table, status graph and        *)
(* initial status, all with one audit log.  Unlike decisions they keep no *)
(* revisions, lock no fields and ask for no reviewer.                      *)
(*                                                                         *)
(* A step is one database statement of one request and the Go code up to  *)
(* the next:   idle --Get, checks--> write --> audit --> reload --> done   *)
(***************************************************************************)
EXTENDS Naturals, StatusGraphs

CONSTANTS
    Requests,   \* the HTTP requests, each served once
    Ids,        \* primary keys, numbered in each table separately
    Contents,   \* values of the business fields
    Callers,    \* roles of the authenticated principals
    Seeded,     \* what database.Seed stored: entity -> id -> [status, content]
    Foresight,  \* how far past the newest committed version a client's
                \* expectedVersion may reach
    None        \* no row, no job

Entities == {"CaptureUnit", "PermitRule", "EmissionSample"}

StatesOf(e) == CASE e = "CaptureUnit"    -> UnitStates
                 [] e = "PermitRule"     -> RuleStates
                 [] e = "EmissionSample" -> SampleStates

GraphOf(e) == CASE e = "CaptureUnit"    -> CaptureUnitTransitions
                [] e = "PermitRule"     -> PermitRuleTransitions
                [] e = "EmissionSample" -> EmissionSampleTransitions

ASSUME ConstantsAssumption ==
    /\ Callers \subseteq Roles
    /\ DOMAIN Seeded = Entities
    /\ \A e \in Entities :
          /\ DOMAIN Seeded[e] \subseteq Ids
          /\ \A i \in DOMAIN Seeded[e] :
                Seeded[e][i] \in [status : StatesOf(e), content : Contents]
    /\ Foresight \in Nat

VARIABLES
    items,    \* the three tables: entity -> id -> row
    audits,   \* table audit_logs, append only
    pc,       \* where each request stands
    job,      \* what it does: [op, entity, item]
    read,     \* the row its first Get returned
    current,  \* the row it is about to store
    stored    \* what the database really did, for the properties

handler == <<pc, job, read, current>>
vars == <<items, audits, pc, job, read, current, stored>>

-----------------------------------------------------------------------------
(* Rows                                                                    *)

Statuses == UnitStates \cup RuleStates \cup SampleStates

Row == [status : Statuses, content : Contents, version : Nat, deleted : BOOLEAN]

ASSUME NoneAssumption == None \notin Row

Changes == {"create", "update", "transition", "delete"}

\* Every table, audit row and handler stays within its type, and every row
\* within the statuses of its own entity.
TypeOK ==
    /\ items \in [Entities -> [Ids -> Row \cup {None}]]
    /\ \A e \in Entities, i \in Ids :
          items[e][i] # None => items[e][i].status \in StatesOf(e)
    /\ audits \subseteq [action : Changes, entity : Entities, item : Ids,
                         before : Statuses \cup {""},
                         after : Statuses \cup {"deleted"}, request : Requests]
    /\ pc \in [Requests -> {"idle", "write", "audit", "reload", "done"}]
    /\ job \in [Requests -> [op : Changes, entity : Entities,
                             item : Ids \cup {None}] \cup {None}]
    /\ read \in [Requests -> Row \cup {None}]
    /\ current \in [Requests -> Row \cup {None}]
    /\ stored \subseteq [action : Changes, entity : Entities, item : Ids,
                         version : Nat, basis : Nat,
                         before : Statuses \cup {""},
                         after : Statuses \cup {"deleted"}, request : Requests]

Live(e, i) == items[e][i] # None /\ ~items[e][i].deleted

NewRow(initial, c) ==
    [status |-> initial, content |-> c, version |-> 1, deleted |-> FALSE]

Init ==
    /\ items = [e \in Entities |-> [i \in Ids |->
          IF i \in DOMAIN Seeded[e]
          THEN NewRow(Seeded[e][i].status, Seeded[e][i].content) ELSE None]]
    /\ audits = {}
    /\ pc = [r \in Requests |-> "idle"]
    /\ job = [r \in Requests |-> None]
    /\ read = [r \in Requests |-> None]
    /\ current = [r \in Requests |-> None]
    /\ stored = {}

-----------------------------------------------------------------------------
(* Control of one request                                                  *)

Goto(r, step) ==
    pc' = [pc EXCEPT ![r] = step] /\ UNCHANGED <<job, read, current>>

\* The handlers of these requests return and their locals are gone.
End(ended) ==
    /\ pc'      = [r \in Requests |-> IF r \in ended THEN "done" ELSE pc[r]]
    /\ job'     = [r \in Requests |-> IF r \in ended THEN None ELSE job[r]]
    /\ read'    = [r \in Requests |-> IF r \in ended THEN None ELSE read[r]]
    /\ current' = [r \in Requests |-> IF r \in ended THEN None ELSE current[r]]

\* The service method has made its checks and is about to write.
Enter(r, op, e, i, row, next) ==
    /\ pc[r] = "idle"
    /\ pc' = [pc EXCEPT ![r] = "write"]
    /\ job' = [job EXCEPT ![r] = [op |-> op, entity |-> e, item |-> i]]
    /\ read' = [read EXCEPT ![r] = row]
    /\ current' = [current EXCEPT ![r] = next]
    /\ UNCHANGED <<items, audits, stored>>

ExpectedVersions(e, i) == 1..(items[e][i].version + Foresight)

-----------------------------------------------------------------------------
(* Arrival                                                                 *)

Create(r, e, initial) ==
    \E who \in Callers, c \in Contents :
        /\ RequireMinimumRole("operator", who)
        /\ Enter(r, "create", e, None, None, NewRow(initial, c))

\* The version stored will be the client's plus one, in any status.
Update(r, e) ==
    \E who \in Callers, i \in Ids, c \in Contents :
        /\ RequireMinimumRole("operator", who)
        /\ Live(e, i)
        /\ \E expected \in ExpectedVersions(e, i) :
              Enter(r, "update", e, i, items[e][i],
                    [items[e][i] EXCEPT !.content = c, !.version = expected + 1])

Transition(r, e, graph) ==
    \E who \in Callers, i \in Ids, target \in Statuses :
        /\ RequireMinimumRole("operator", who)
        /\ Live(e, i) /\ CanTransition(graph, items[e][i].status, target)
        /\ \E expected \in ExpectedVersions(e, i) :
              Enter(r, "transition", e, i, items[e][i],
                    [items[e][i] EXCEPT !.status = target, !.version = expected + 1])

Delete(r, e) ==
    \E who \in Callers, i \in Ids :
        /\ RequireRoles({"admin"}, who)
        /\ Live(e, i)
        /\ Enter(r, "delete", e, i, items[e][i], items[e][i])

\* Any check that fails before the first write, and every read: 200, 4xx.
NoWrite(r) ==
    /\ pc[r] = "idle"
    /\ End({r})
    /\ UNCHANGED <<items, audits, stored>>

\* The requests of one entity's routes.
Arrive(r, e, graph, initial) ==
    \/ Create(r, e, initial) \/ Update(r, e)
    \/ Transition(r, e, graph) \/ Delete(r, e)

CaptureUnits(r) == Arrive(r, "CaptureUnit", CaptureUnitTransitions, "standby")

PermitRules(r) == Arrive(r, "PermitRule", PermitRuleTransitions, "draft")

\* Mutant: the initial status copied from another entity's service.
EmissionSamplesAsRules(r) ==
    Arrive(r, "EmissionSample", EmissionSampleTransitions, "draft")

EmissionSamples(r) ==
    Arrive(r, "EmissionSample", EmissionSampleTransitions, "collected")

-----------------------------------------------------------------------------
(* The write                                                               *)

\* The statement took effect; its success may still be lost on the way back.
Committed(r) == Goto(r, "audit") \/ End({r})

Log(r, i, version, before) ==
    stored' = stored \cup
        {[action |-> job[r].op, entity |-> job[r].entity, item |-> i,
          version |-> version,
          basis |-> IF read[r] = None THEN 0 ELSE read[r].version,
          before |-> before,
          after |-> IF job[r].op = "delete" THEN "deleted" ELSE current[r].status,
          request |-> r]}

\* INSERT; the key becomes item.ID.
Insert(r) ==
    /\ pc[r] = "write" /\ job[r].op = "create"
    /\ \E i \in Ids :
          /\ items[job[r].entity][i] = None
          /\ items' = [items EXCEPT ![job[r].entity][i] = current[r]]
          /\ Log(r, i, 1, "")
          /\ \/ /\ pc' = [pc EXCEPT ![r] = "audit"]
                /\ job' = [job EXCEPT ![r].item = i]
                /\ UNCHANGED <<read, current>>
             \/ End({r})
    /\ UNCHANGED audits

\* Mutant: WHERE id = ? alone.
MatchesAnyVersion(r) == Live(job[r].entity, job[r].item)

Matches(r) ==
    /\ Live(job[r].entity, job[r].item)
    /\ job[r].op \in {"update", "transition"} =>
          items[job[r].entity][job[r].item].version + 1 = current[r].version

\* Mutant: UPDATE ... SET version = version + 1 WHERE id = ?.
StoreLastWriterWins(r) ==
    /\ pc[r] = "write" /\ job[r].op \in {"update", "transition"}
    /\ Live(job[r].entity, job[r].item)
    /\ LET now == items[job[r].entity][job[r].item] IN
          /\ items' = [items EXCEPT ![job[r].entity][job[r].item] =
                          [current[r] EXCEPT !.version = now.version + 1]]
          /\ Log(r, job[r].item, now.version + 1, now.status)
    /\ Committed(r)
    /\ UNCHANGED audits

\* UPDATE ... WHERE id = ? AND version = ? AND deleted_at IS NULL.
Store(r) ==
    /\ pc[r] = "write" /\ job[r].op \in {"update", "transition"}
    /\ Matches(r)
    /\ items' = [items EXCEPT ![job[r].entity][job[r].item] = current[r]]
    /\ Log(r, job[r].item, current[r].version,
           items[job[r].entity][job[r].item].status)
    /\ Committed(r)
    /\ UNCHANGED audits

\* UPDATE ... SET deleted_at WHERE id = ? AND deleted_at IS NULL.
SoftDelete(r) ==
    /\ pc[r] = "write" /\ job[r].op = "delete"
    /\ Matches(r)
    /\ items' = [items EXCEPT ![job[r].entity][job[r].item].deleted = TRUE]
    /\ Log(r, job[r].item, items[job[r].entity][job[r].item].version,
           items[job[r].entity][job[r].item].status)
    /\ Committed(r)
    /\ UNCHANGED audits

\* RowsAffected = 0: ErrVersionConflict (409), or ErrRecordNotFound (404).
NoRowMatched(r) ==
    /\ pc[r] = "write" /\ job[r].op # "create"
    /\ ~Matches(r)
    /\ End({r})
    /\ UNCHANGED <<items, audits, stored>>

-----------------------------------------------------------------------------
(* After the write, and failures                                           *)

\* Mutant: before is taken from the row after its status was assigned.
AuditOfChanged(r) ==
    [action |-> job[r].op, entity |-> job[r].entity, item |-> job[r].item,
     before |-> IF job[r].op = "create" THEN "" ELSE current[r].status,
     after |-> IF job[r].op = "delete" THEN "deleted" ELSE current[r].status,
     request |-> r]

AuditOf(r) ==
    [action |-> job[r].op, entity |-> job[r].entity, item |-> job[r].item,
     before |-> IF job[r].op = "create" THEN "" ELSE read[r].status,
     after |-> IF job[r].op = "delete" THEN "deleted" ELSE current[r].status,
     request |-> r]

\* Create answers with the item it inserted, Delete with 204; Update and
\* Transition read the row once more.
AppendAudit(r) ==
    /\ pc[r] = "audit"
    /\ audits' = audits \cup {AuditOf(r)}
    /\ IF job[r].op \in {"create", "delete"} THEN End({r}) ELSE Goto(r, "reload")
    /\ UNCHANGED <<items, stored>>

\* Create and Update drop the error, Transition and Delete return it.
AuditFails(r) ==
    /\ pc[r] = "audit"
    /\ audits' \in {audits, audits \cup {AuditOf(r)}}
    /\ IF job[r].op = "update" THEN Goto(r, "reload") ELSE End({r})
    /\ UNCHANGED <<items, stored>>

\* The Get that fills the response, and statements that fail: nothing changes.
Return(r) ==
    /\ pc[r] \in {"write", "reload"}
    /\ End({r})
    /\ UNCHANGED <<items, audits, stored>>

Crash ==
    /\ \E r \in Requests : pc[r] \notin {"idle", "done"}
    /\ End({r \in Requests : pc[r] # "idle"})
    /\ UNCHANGED <<items, audits, stored>>

Next ==
    \/ \E r \in Requests :
          \/ CaptureUnits(r) \/ PermitRules(r) \/ EmissionSamples(r) \/ NoWrite(r)
          \/ Insert(r) \/ Store(r) \/ SoftDelete(r) \/ NoRowMatched(r)
          \/ AppendAudit(r) \/ AuditFails(r) \/ Return(r)
    \/ Crash

Spec == Init /\ [][Next]_vars

-----------------------------------------------------------------------------
(* Properties                                                              *)

\* What one step may do to one row: a deleted row is never touched again; a
\* deletion changes nothing else; any other write moves the version by one
\* and either edits the content in an unchanged status or follows an edge of
\* the entity's own graph with the content unchanged.
LegalMove(e, i) ==
    LET old == items[e][i]
        new == items'[e][i]
    IN  (old # None /\ new # old) =>
          /\ ~old.deleted
          /\ \/ new = [old EXCEPT !.deleted = TRUE]
             \/ /\ ~new.deleted /\ new.version = old.version + 1
                /\ \/ new.status = old.status
                   \/ /\ CanTransition(GraphOf(e), old.status, new.status)
                      /\ new.content = old.content

\* However requests overlap, every step of every table is a legal move: the
\* checks a service makes on the row it read still hold on the row its
\* UPDATE replaces (service Update and Transition, Store.Update).
LegalMoves == [][\A e \in Entities, i \in Ids : LegalMove(e, i)]_vars

\* A committed update or transition was computed from the very version it
\* replaced, so nobody's committed change is silently written over.
NoLostUpdate ==
    \A w \in stored :
        w.action \in {"update", "transition"} => w.basis + 1 = w.version

\* An audit row tells of a change that was committed, by its own request, from the
\* status the database really held.  Only a deletion may name a stale status, since
\* Delete reads and then deletes by id, and only if the row was changed in between.
AuditTruthful ==
    \A a \in audits :
        \E w \in stored :
            /\ w.action = a.action /\ w.entity = a.entity /\ w.item = a.item
            /\ w.request = a.request /\ w.after = a.after
            /\ w.before = a.before \/ (w.action = "delete" /\ w.basis < w.version)
=============================================================================
