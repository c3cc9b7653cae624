------------------------- MODULE ComplianceDecision -------------------------
(***************************************************************************)
(* Compliance decisions under concurrent requests: the handler, service   *)
(* and repository of backend/internal/{handler,service,repository}/       *)
(* compliance_decision.go over the tables compliance_decisions,           *)
(* decision_revisions and audit_logs.                                     *)
(*                                                                         *)
(* Each HTTP request runs in a goroutine of its own.  A step of this      *)
(* module is one database statement or transaction of one request with    *)
(* the Go code up to the next one, which touches nothing shared:          *)
(*                                                                         *)
(*     idle --Get, checks--> write --tx--> audit --> reload --> history   *)
(*                                                     --> done           *)
(*                                                                         *)
(* The tables survive a crash of the process; the requests in flight do   *)
(* not.                                                                    *)
(***************************************************************************)
EXTENDS Naturals, StatusGraphs

CONSTANTS
    Requests,   \* the HTTP requests, each served once
    Ids,        \* primary keys the database may hand out
    Contents,   \* values of the business fields (evidence and the rest)
    Callers,    \* roles of the authenticated principals
    Seeded,     \* what database.Seed stored: id -> [status, content]
    Foresight,  \* how far past the newest committed version a client's
                \* expectedVersion may reach; 0 for clients that, like the
                \* frontend, only send back versions they were shown
    None,       \* no row, no id
    Seeder      \* the actor of the seeded revisions

ASSUME ConstantsAssumption ==
    /\ Callers \subseteq Roles
    /\ DOMAIN Seeded \subseteq Ids
    /\ \A i \in DOMAIN Seeded :
          Seeded[i] \in [status : DecisionStates, content : Contents]
    /\ Foresight \in Nat
    /\ Seeder \notin Requests
    /\ None \notin Ids
    /\ None \notin [status : DecisionStates, content : Contents,
                    version : Nat, deleted : BOOLEAN]

VARIABLES
    decisions,  \* table compliance_decisions: id -> row, None when never inserted
    revisions,  \* table decision_revisions, append only
    audits,     \* table audit_logs, append only
    pc,         \* where each request stands
    op,         \* the operation it performs
    subject,    \* the id it works on
    role,       \* the role given to service.Transition (no other method has one)
    read,       \* the row its first Get returned
    current,    \* the row it is about to store, or has stored
    shown,      \* version and revision list in its response
    reply       \* how it was answered

tables  == <<decisions, revisions, audits>>
locals  == <<op, subject, role, read, current>>
vars    == <<decisions, revisions, audits, pc, op, subject, role, read,
             current, shown, reply>>

-----------------------------------------------------------------------------
(* Types                                                                   *)

Row == [status : DecisionStates, content : Contents, version : Nat,
        deleted : BOOLEAN]

Revision == [decision : Ids, version : Nat, state : DecisionStates,
             evidence : Contents, actor : Requests \cup {Seeder}]

AuditRow == [action : {"create", "update", "transition", "delete"},
             decision : Ids, before : DecisionStates \cup {""},
             after : DecisionStates \cup {"deleted"}, request : Requests]

Operations == {"none", "create", "update", "transition", "delete", "read"}

\* rejected: 400, 401, 403, 404, 422 or 429, before anything is written;
\* failed: 500, or the connection breaks.
Replies == {"none", "ok", "rejected", "conflict", "notfound", "failed"}

\* The request's JSON carries no decision before a Get has filled it in.
NothingShown == [version |-> 0, history |-> {}]

\* Every table and every request's local state stays within its type.
TypeOK ==
    /\ decisions \in [Ids -> Row \cup {None}]
    /\ revisions \subseteq Revision
    /\ audits \subseteq AuditRow
    /\ pc \in [Requests -> {"idle", "write", "audit", "reload", "history", "done"}]
    /\ op \in [Requests -> Operations]
    /\ subject \in [Requests -> Ids \cup {None}]
    /\ role \in [Requests -> Roles]
    /\ read \in [Requests -> Row \cup {None}]
    /\ current \in [Requests -> Row \cup {None}]
    /\ shown \in [Requests -> [version : Nat, history : SUBSET Nat]]
    /\ reply \in [Requests -> Replies]

-----------------------------------------------------------------------------
(* Rows                                                                    *)

\* gorm reads only rows whose deleted_at is null.
Live(i) == decisions[i] # None /\ ~decisions[i].deleted

\* A status is past review once it needs a reviewer or an admin to be set.
IsFinal(status) == status \in {"accepted", "escalated"}

IsReviewer(who) == who \in {"reviewer", "admin"}

\* Mutant: a new decision starts in a capture unit's initial status.
NewRowAsUnit(c) ==
    [status |-> "standby", content |-> c, version |-> 1, deleted |-> FALSE]

NewRow(c) == [status |-> "draft", content |-> c, version |-> 1, deleted |-> FALSE]

\* Both writers keep the row they read and replace part of it; the version is
\* the client's plus one, never the version read plus one.
EditedRow(row, c, expected) ==
    [status |-> row.status, content |-> c, version |-> expected + 1,
     deleted |-> row.deleted]

\* Mutant: the row to store is built anew, so other columns lose their values.
MovedRowRebuilt(row, target, expected) ==
    [status |-> target, content |-> CHOOSE c \in Contents : c # row.content,
     version |-> expected + 1, deleted |-> row.deleted]

MovedRow(row, target, expected) ==
    [status |-> target, content |-> row.content, version |-> expected + 1,
     deleted |-> row.deleted]

\* newDecisionRevision: the snapshot stored beside the row.
RevisionOf(r, i) ==
    [decision |-> i, version |-> current[r].version, state |-> current[r].status,
     evidence |-> current[r].content, actor |-> r]

\* Mutant: the state before is taken after the row was changed in place.
AuditOfChanged(r) ==
    [action |-> op[r], decision |-> subject[r],
     before |-> IF read[r] = None THEN "" ELSE current[r].status,
     after |-> IF op[r] = "delete" THEN "deleted" ELSE current[r].status,
     request |-> r]

AuditOf(r) ==
    [action |-> op[r], decision |-> subject[r],
     before |-> IF read[r] = None THEN "" ELSE read[r].status,
     after |-> IF op[r] = "delete" THEN "deleted" ELSE current[r].status,
     request |-> r]

\* The unique index on (compliance_decision_id, version).
RevisionKeyFree(i, v) ==
    \A rev \in revisions : ~(rev.decision = i /\ rev.version = v)

VersionsOf(i) == {rev.version : rev \in {x \in revisions : x.decision = i}}

Init ==
    /\ decisions = [i \in Ids |->
          IF i \in DOMAIN Seeded
          THEN [status |-> Seeded[i].status, content |-> Seeded[i].content,
                version |-> 1, deleted |-> FALSE]
          ELSE None]
    /\ revisions = {[decision |-> i, version |-> 1, state |-> Seeded[i].status,
                     evidence |-> Seeded[i].content, actor |-> Seeder]
                        : i \in DOMAIN Seeded}
    /\ audits = {}
    /\ pc = [r \in Requests |-> "idle"]
    /\ op = [r \in Requests |-> "none"]
    /\ subject = [r \in Requests |-> None]
    /\ role = [r \in Requests |-> "viewer"]
    /\ read = [r \in Requests |-> None]
    /\ current = [r \in Requests |-> None]
    /\ shown = [r \in Requests |-> NothingShown]
    /\ reply = [r \in Requests |-> "none"]

-----------------------------------------------------------------------------
(* Control of one request                                                  *)

Goto(r, step) == pc' = [pc EXCEPT ![r] = step] /\ UNCHANGED reply

Answer(r, answer) ==
    pc' = [pc EXCEPT ![r] = "done"] /\ reply' = [reply EXCEPT ![r] = answer]

\* The request enters its service method and carries these locals from now on.
Enter(r, what, i, row, next) ==
    /\ pc[r] = "idle"
    /\ op' = [op EXCEPT ![r] = what]
    /\ subject' = [subject EXCEPT ![r] = i]
    /\ read' = [read EXCEPT ![r] = row]
    /\ current' = [current EXCEPT ![r] = next]
    /\ UNCHANGED <<tables, shown>>

\* The versions a client may name when its request arrives: uint, required.
ExpectedVersions(i) == 1..(decisions[i].version + Foresight)

-----------------------------------------------------------------------------
(* Arrival: authorisation, the first Get and the checks on what it read    *)

\* 400, 401, 403 and 429, and fields that are blank after trimming (422).
Refuse(r) ==
    /\ pc[r] = "idle"
    /\ Answer(r, "rejected")
    /\ UNCHANGED <<tables, locals, shown>>

Create(r) ==
    \E who \in Callers, c \in Contents :
        /\ RequireMinimumRole("operator", who)
        /\ Enter(r, "create", None, None, NewRow(c))
        /\ UNCHANGED role
        /\ Goto(r, "write")

\* Mutant: Update without the lock.
UpdateUnlocked(r) ==
    \E who \in Callers, i \in Ids, c \in Contents :
        /\ RequireMinimumRole("operator", who)
        /\ Live(i)
        /\ \E expected \in ExpectedVersions(i) :
              Enter(r, "update", i, decisions[i],
                    EditedRow(decisions[i], c, expected))
        /\ UNCHANGED role
        /\ Goto(r, "write")

Update(r) ==
    \E who \in Callers, i \in Ids, c \in Contents :
        /\ RequireMinimumRole("operator", who)
        /\ Live(i) /\ decisions[i].status = "draft"
        /\ \E expected \in ExpectedVersions(i) :
              Enter(r, "update", i, decisions[i],
                    EditedRow(decisions[i], c, expected))
        /\ UNCHANGED role
        /\ Goto(r, "write")

\* The graph has the edge, and whoever sets a final status may do so.
MayMove(from, target, who) ==
    /\ CanTransition(ComplianceDecisionTransitions, from, target)
    /\ IsFinal(target) => IsReviewer(who)

Transition(r) ==
    \E who \in Callers, i \in Ids, target \in DecisionStates :
        /\ RequireMinimumRole("operator", who)
        /\ Live(i) /\ MayMove(decisions[i].status, target, who)
        /\ \E expected \in ExpectedVersions(i) :
              Enter(r, "transition", i, decisions[i],
                    MovedRow(decisions[i], target, expected))
        /\ role' = [role EXCEPT ![r] = who]
        /\ Goto(r, "write")

Delete(r) ==
    \E who \in Callers, i \in Ids :
        /\ RequireRoles({"admin"}, who)
        /\ Live(i) /\ decisions[i].status = "draft"
        /\ Enter(r, "delete", i, decisions[i], decisions[i])
        /\ UNCHANGED role
        /\ Goto(r, "write")

\* ErrDecisionLocked to Update and Delete, ErrInvalidTransition and
\* ErrReviewerRequired to Transition: 422, nothing written.
BusinessRule(r) ==
    /\ pc[r] = "idle"
    /\ \E i \in Ids :
          /\ Live(i)
          /\ \/ decisions[i].status # "draft"
             \/ \E who \in Callers, target \in DecisionStates :
                   /\ RequireMinimumRole("operator", who)
                   /\ ~MayMove(decisions[i].status, target, who)
    /\ Answer(r, "rejected")
    /\ UNCHANGED <<tables, locals, shown>>

\* GET of one decision, or of a page of them.
Read(r) ==
    \E i \in Ids :
        /\ Enter(r, "read", i, None, None)
        /\ UNCHANGED role
        /\ Goto(r, "reload")

\* The first Get of a writer finds no live row: 404.
Missing(r) ==
    /\ pc[r] = "idle"
    /\ \E i \in Ids : ~Live(i)
    /\ Answer(r, "rejected")
    /\ UNCHANGED <<tables, locals, shown>>

-----------------------------------------------------------------------------
(* The transaction                                                         *)

\* COMMIT has taken effect.  The handler goes on to the audit, unless the
\* connection or the request's context was lost while the reply to COMMIT was
\* under way: then the handler sees an error and answers 500.
Committed(r) == Goto(r, "audit") \/ Answer(r, "failed")

\* One transaction inserts the row and its first revision.
CreateWithRevision(r) ==
    /\ pc[r] = "write" /\ op[r] = "create"
    /\ \E i \in Ids :
          /\ decisions[i] = None
          /\ decisions' = [decisions EXCEPT ![i] = current[r]]
          /\ revisions' = revisions \cup {RevisionOf(r, i)}
          /\ subject' = [subject EXCEPT ![r] = i]
    /\ Committed(r)
    /\ UNCHANGED <<audits, op, role, read, current, shown>>

\* Mutant: the WHERE clause compares with the new version.
RowMatchesNew(r) ==
    /\ Live(subject[r])
    /\ decisions[subject[r]].version = current[r].version

\* UPDATE ... WHERE id = ? AND version = ? AND deleted_at IS NULL.
RowMatches(r) ==
    /\ Live(subject[r])
    /\ decisions[subject[r]].version + 1 = current[r].version

\* Mutant: the two statements run outside a transaction and the second may fail.
UpdateWithoutTransaction(r) ==
    /\ pc[r] = "write" /\ op[r] \in {"update", "transition"}
    /\ RowMatches(r)
    /\ RevisionKeyFree(subject[r], current[r].version)
    /\ decisions' = [decisions EXCEPT ![subject[r]] = current[r]]
    /\ revisions' \in {revisions, revisions \cup {RevisionOf(r, subject[r])}}
    /\ Committed(r)
    /\ UNCHANGED <<audits, locals, shown>>

\* Mutant: the version is incremented in the database and not compared.
UpdateLastWriterWins(r) ==
    /\ pc[r] = "write" /\ op[r] \in {"update", "transition"}
    /\ Live(subject[r])
    /\ LET next == decisions[subject[r]].version + 1
       IN  /\ decisions' = [decisions EXCEPT ![subject[r]] =
                               [current[r] EXCEPT !.version = next]]
           /\ revisions' = revisions \cup
                 {[RevisionOf(r, subject[r]) EXCEPT !.version = next]}
    /\ Committed(r)
    /\ UNCHANGED <<audits, locals, shown>>

\* One transaction replaces the whole row and inserts the revision.
UpdateWithRevision(r) ==
    /\ pc[r] = "write" /\ op[r] \in {"update", "transition"}
    /\ RowMatches(r)
    /\ RevisionKeyFree(subject[r], current[r].version)
    /\ decisions' = [decisions EXCEPT ![subject[r]] = current[r]]
    /\ revisions' = revisions \cup {RevisionOf(r, subject[r])}
    /\ Committed(r)
    /\ UNCHANGED <<audits, locals, shown>>

\* Mutant: RowsAffected is not looked at.
VersionConflictMissed(r) ==
    /\ pc[r] = "write" /\ op[r] \in {"update", "transition"}
    /\ ~RowMatches(r)
    /\ Goto(r, "audit")
    /\ UNCHANGED <<tables, locals, shown>>

\* No row matched: rolled back, 409.
VersionConflict(r) ==
    /\ pc[r] = "write" /\ op[r] \in {"update", "transition"}
    /\ ~RowMatches(r)
    /\ Answer(r, "conflict")
    /\ UNCHANGED <<tables, locals, shown>>

\* UPDATE ... SET deleted_at WHERE id = ? AND deleted_at IS NULL: neither the
\* version nor the status is looked at again.
SoftDelete(r) ==
    /\ pc[r] = "write" /\ op[r] = "delete"
    /\ Live(subject[r])
    /\ decisions' = [decisions EXCEPT ![subject[r]].deleted = TRUE]
    /\ Committed(r)
    /\ UNCHANGED <<revisions, audits, locals, shown>>

DeleteNotFound(r) ==
    /\ pc[r] = "write" /\ op[r] = "delete"
    /\ ~Live(subject[r])
    /\ Answer(r, "notfound")
    /\ UNCHANGED <<tables, locals, shown>>

-----------------------------------------------------------------------------
(* After the transaction                                                   *)

AppendAudit(r) ==
    /\ pc[r] = "audit"
    /\ audits' = audits \cup {AuditOf(r)}
    /\ IF op[r] = "delete" THEN Answer(r, "ok") ELSE Goto(r, "reload")
    /\ UNCHANGED <<decisions, revisions, locals, shown>>

\* Create and Update drop the error, Transition and Delete return it.  The
\* insert may have taken effect all the same.
AuditFails(r) ==
    /\ pc[r] = "audit"
    /\ audits' \in {audits, audits \cup {AuditOf(r)}}
    /\ IF op[r] \in {"create", "update"}
       THEN Goto(r, "reload") ELSE Answer(r, "failed")
    /\ UNCHANGED <<decisions, revisions, locals, shown>>

\* Get reads the row first and
Reload(r) ==
    /\ pc[r] = "reload"
    /\ IF Live(subject[r])
       THEN /\ shown' = [shown EXCEPT ![r].version = decisions[subject[r]].version]
            /\ Goto(r, "history")
       ELSE Answer(r, "notfound") /\ UNCHANGED shown
    /\ UNCHANGED <<tables, locals>>

\* Mutant: only the revisions before the row's own version are loaded.
PreloadEarlierRevisions(r) ==
    /\ pc[r] = "history"
    /\ shown' = [shown EXCEPT ![r].history =
                    {v \in VersionsOf(subject[r]) : v < shown[r].version}]
    /\ Answer(r, "ok")
    /\ UNCHANGED <<tables, locals>>

\* its revisions in a second statement, outside any transaction.
PreloadRevisions(r) ==
    /\ pc[r] = "history"
    /\ shown' = [shown EXCEPT ![r].history = VersionsOf(subject[r])]
    /\ Answer(r, "ok")
    /\ UNCHANGED <<tables, locals>>

-----------------------------------------------------------------------------
(* Failures                                                                *)

\* A request that ends before its transaction takes effect takes its locals
\* with it; those of the others are kept, for the properties.
Forget(ended) ==
    /\ op'      = [r \in Requests |-> IF r \in ended THEN "none" ELSE op[r]]
    /\ subject' = [r \in Requests |-> IF r \in ended THEN None ELSE subject[r]]
    /\ role'    = [r \in Requests |-> IF r \in ended THEN "viewer" ELSE role[r]]
    /\ read'    = [r \in Requests |-> IF r \in ended THEN None ELSE read[r]]
    /\ current' = [r \in Requests |-> IF r \in ended THEN None ELSE current[r]]

\* The transaction rolls back: a lost connection, a cancelled context, a unique
\* violation on the code or on the revision's key.
TransactionFails(r) ==
    /\ pc[r] = "write"
    /\ Answer(r, "failed")
    /\ Forget({r})
    /\ UNCHANGED <<tables, shown>>

\* The Get that answers the request fails: 500, though the write is stored.
QueryFails(r) ==
    /\ pc[r] \in {"reload", "history"}
    /\ Answer(r, "failed")
    /\ UNCHANGED <<tables, locals, shown>>

\* The process dies; whatever the requests in flight had committed stays.
Crash ==
    /\ \E r \in Requests : pc[r] \notin {"idle", "done"}
    /\ pc' = [r \in Requests |-> IF pc[r] = "idle" THEN "idle" ELSE "done"]
    /\ reply' = [r \in Requests |->
          IF pc[r] \in {"idle", "done"} THEN reply[r] ELSE "failed"]
    /\ Forget({r \in Requests : pc[r] = "write"})
    /\ UNCHANGED <<tables, shown>>

-----------------------------------------------------------------------------
Step(r) ==
    \/ Refuse(r) \/ Create(r) \/ Update(r) \/ Transition(r) \/ Delete(r)
    \/ BusinessRule(r) \/ Read(r) \/ Missing(r)
    \/ CreateWithRevision(r) \/ UpdateWithRevision(r) \/ VersionConflict(r)
    \/ SoftDelete(r) \/ DeleteNotFound(r)
    \/ AppendAudit(r) \/ AuditFails(r) \/ Reload(r) \/ PreloadRevisions(r)
    \/ TransactionFails(r) \/ QueryFails(r)

Next == (\E r \in Requests : Step(r)) \/ Crash

Spec == Init /\ [][Next]_vars

-----------------------------------------------------------------------------
(* Properties                                                              *)

IsWriter(r) == op[r] \in {"create", "update", "transition"}

WroteRevision(r) == \E rev \in revisions : rev.actor = r

\* Every row is explained by its revisions: versions 1 to the row's own, each
\* exactly once, and the last one holds the row's status and content.  The row
\* and the revision are stored by two statements of one transaction, by
\* requests that race on the version.
HistoryComplete ==
    /\ \A i \in Ids :
          IF decisions[i] = None THEN VersionsOf(i) = {}
          ELSE VersionsOf(i) = 1..decisions[i].version
    /\ \A rev1, rev2 \in revisions :
          rev1.decision = rev2.decision /\ rev1.version = rev2.version
             => rev1 = rev2
    /\ \A rev \in revisions :
          rev.version = decisions[rev.decision].version =>
             /\ rev.state = decisions[rev.decision].status
             /\ rev.evidence = decisions[rev.decision].content

\* What one version may change against the one before: the fields of a draft,
\* or the status along the graph, leaving the content alone, and a final status
\* only at the hand of a reviewer or an admin.
LegalStep(old, new) ==
    \/ old.state = "draft" /\ new.state = "draft"
    \/ /\ CanTransition(ComplianceDecisionTransitions, old.state, new.state)
       /\ new.evidence = old.evidence
       /\ IsFinal(new.state) => /\ new.actor \in Requests
                                /\ IsReviewer(role[new.actor])

\* No history skips review, edits evidence after review began or reaches a
\* final status without a reviewer, although each request checks a row it read
\* one step before another request may have changed it.
LegalHistory ==
    \A old, new \in revisions :
        old.decision = new.decision /\ new.version = old.version + 1
            => LegalStep(old, new)

\* A request that stored version v+1 had read version v as it was stored: the
\* other columns it wrote back erased no one's change.
NoLostUpdate ==
    \A old, new \in revisions :
        old.decision = new.decision /\ new.version = old.version + 1 =>
            /\ new.actor \in Requests
            /\ read[new.actor].version = old.version
            /\ read[new.actor].status = old.state
            /\ read[new.actor].content = old.evidence

\* An audit row of a write tells what the revision it belongs to did: the state
\* after it, and before it that of the version it replaced.  One of a deletion
\* tells of a decision that is deleted, and before it the state of the version
\* its request read, which is a stale one only if another was stored in between.
AuditTruthful ==
    \A a \in audits :
        IF a.action = "delete"
        THEN /\ decisions[a.decision].deleted
             /\ \E seen \in revisions :
                   /\ seen.decision = a.decision
                   /\ seen.version = read[a.request].version
                   /\ seen.state = a.before
        ELSE \E new \in revisions :
                /\ new.actor = a.request
                /\ new.decision = a.decision
                /\ new.state = a.after
                /\ IF new.version = 1 THEN a.before = ""
                   ELSE \E old \in revisions :
                           /\ old.decision = new.decision
                           /\ old.version + 1 = new.version
                           /\ old.state = a.before

\* 409 is honest: the version the request asked for went to another request, or
\* the decision is gone.
ConflictJustified ==
    \A r \in Requests : reply[r] = "conflict" =>
        \/ decisions[subject[r]].deleted
        \/ \E rev \in revisions :
              /\ rev.decision = subject[r]
              /\ rev.version = current[r].version
              /\ rev.actor # r

\* A client may rely on its answer: success means the write is in the tables,
\* 409 and the other rejections that it is not, and 404 after the write was stored means
\* that the decision has been deleted since.
RepliesTruthful ==
    \A r \in Requests :
        /\ reply[r] = "ok" /\ IsWriter(r) => WroteRevision(r)
        /\ reply[r] = "ok" /\ op[r] = "delete" => decisions[subject[r]].deleted
        /\ reply[r] \in {"rejected", "conflict"} => ~WroteRevision(r)
        /\ reply[r] = "notfound" /\ WroteRevision(r)
              => decisions[subject[r]].deleted

\* A successful response never lacks a revision of the row it shows, though row
\* and revisions are read by two statements, and shows at least the version the
\* request stored itself.
ResponseExplained ==
    \A r \in Requests : reply[r] = "ok" /\ op[r] # "delete" =>
        /\ 1..shown[r].version \subseteq shown[r].history
        /\ IsWriter(r) => current[r].version \in 1..shown[r].version

-----------------------------------------------------------------------------
(* Refinement                                                              *)

EntryOf(i, v) ==
    LET rev == CHOOSE x \in revisions : x.decision = i /\ x.version = v
    IN  [state |-> rev.state, evidence |-> rev.evidence]

LedgerOf(i) ==
    [v \in 1..(IF decisions[i] = None THEN 0 ELSE decisions[i].version)
        |-> EntryOf(i, v)]

Ledger == INSTANCE DecisionLedger
          WITH ledger <- [i \in Ids |-> LedgerOf(i)],
               removed <- {i \in Ids : decisions[i] # None /\ decisions[i].deleted}

\* Under racing requests, failures and crashes, row and revisions together
\* still behave as the append-only ledger of DecisionLedger.
LedgerSpec == Ledger!Spec

-----------------------------------------------------------------------------
(* What the documents say and the code does not keep                       *)

\* Only drafts can be deleted (service/errors.go, Delete's own check).
OnlyDraftsDeleted ==
    \A i \in Ids : decisions[i] # None /\ decisions[i].deleted
        => decisions[i].status = "draft"

\* Every state change has its audit row once its request is answered.
EveryTransitionAudited ==
    \A rev \in revisions :
        rev.actor \in Requests /\ op[rev.actor] = "transition"
                               /\ pc[rev.actor] = "done"
            => \E a \in audits : a.request = rev.actor

\* Whatever version follows one that was not a draft has the same content:
\* business fields are locked once review has begun.
LockedAfterReview ==
    \A old, new \in revisions :
        (/\ old.decision = new.decision
         /\ new.version = old.version + 1
         /\ old.state # "draft")
            => new.evidence = old.evidence
=============================================================================
