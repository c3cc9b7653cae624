----------------------- MODULE ComplianceDecisionInv ------------------------
(***************************************************************************)
(* The inductive invariants of ComplianceDecision, as named parts, proved  *)
(* in the ComplianceDecision...Proofs modules; SafetyInv and AnswerInv,    *)
(* the two largest, are model-checked by MCComplianceDecision as well.     *)
(***************************************************************************)
EXTENDS ComplianceDecision

Writers == {"update", "transition"}

-----------------------------------------------------------------------------
(* For every Foresight                                                     *)

\* The locals a request needs at its next step are there.
HandlerShape ==
    \A r \in Requests :
        /\ pc[r] \in {"write", "audit"} =>
              /\ op[r] \in {"create", "update", "transition", "delete"}
              /\ current[r] # None
        /\ pc[r] \in {"audit", "reload", "history"} => subject[r] \in Ids
        /\ pc[r] = "write" /\ op[r] # "create" =>
              /\ subject[r] \in Ids
              /\ decisions[subject[r]] # None

\* What a request is about to store is the row it read with the change its
\* operation makes, and that change was legal for the row read.
ChangePlanned ==
    \A r \in Requests : pc[r] = "write" =>
        /\ op[r] = "create" => /\ current[r].version = 1
                               /\ current[r].status = "draft"
        /\ op[r] \in Writers => /\ read[r] # None
                                /\ current[r].version > 1
        /\ op[r] = "update" => /\ read[r].status = "draft"
                               /\ current[r].status = "draft"
        /\ op[r] = "transition" =>
              /\ MayMove(read[r].status, current[r].status, role[r])
              /\ current[r].content = read[r].content

\* A revision's author is past its transaction.
AuthorsPastWrite ==
    \A rev \in revisions :
        rev.actor \in Requests => pc[rev.actor] \notin {"idle", "write"}

\* Revisions belong to rows and stay within their versions ...
RevisionsInRange ==
    \A rev \in revisions :
        /\ decisions[rev.decision] # None
        /\ rev.version \in 1..decisions[rev.decision].version

\* ... of which none is left out.
NoVersionMissing ==
    \A i \in Ids : decisions[i] # None =>
        /\ decisions[i].version > 0
        /\ \A v \in 1..decisions[i].version :
              \E rev \in revisions : rev.decision = i /\ rev.version = v

\* A version has one revision, and the newest one is the row.
RevisionsKeyed ==
    /\ \A rev1, rev2 \in revisions :
          rev1.decision = rev2.decision /\ rev1.version = rev2.version
             => rev1 = rev2
    /\ \A rev \in revisions :
          rev.version = decisions[rev.decision].version =>
             /\ rev.state = decisions[rev.decision].status
             /\ rev.evidence = decisions[rev.decision].content

HistoryInv ==
    /\ TypeOK
    /\ HandlerShape
    /\ ChangePlanned
    /\ AuthorsPastWrite
    /\ RevisionsInRange
    /\ NoVersionMissing
    /\ RevisionsKeyed

-----------------------------------------------------------------------------
(* For clients without foresight                                           *)

\* The version a writer expects is not newer than the row it read, and the row
\* it read is not newer than the stored one, and is it while versions agree.
ReadIsStale ==
    \A r \in Requests : pc[r] = "write" /\ op[r] \in Writers =>
        /\ current[r].version <= read[r].version + 1
        /\ read[r].version <= decisions[subject[r]].version
        /\ read[r].version = decisions[subject[r]].version =>
              /\ read[r].status = decisions[subject[r]].status
              /\ read[r].content = decisions[subject[r]].content

\* What keeps stale reads out of the tables: no step of any request, crash or
\* failure breaks the history, its legality or the freshness of the reads.
SafetyInv == HistoryInv /\ ReadIsStale /\ LegalHistory /\ NoLostUpdate

\* No writer is about to store a deleted row.
PlansLive ==
    \A r \in Requests : pc[r] = "write" /\ IsWriter(r) => ~current[r].deleted

-----------------------------------------------------------------------------
(* Answers, for every Foresight                                            *)

Removed(i) == i \in Ids /\ decisions[i] # None /\ decisions[i].deleted

\* A request's revision is the one its locals describe.
OwnRevision(r) ==
    \A rev \in revisions : rev.actor = r =>
        /\ IsWriter(r)
        /\ rev.decision = subject[r]
        /\ rev.version = current[r].version

\* What a request at each of its steps knows to be stored.
Stored(r) ==
    /\ pc[r] # "done" => reply[r] = "none"
    /\ pc[r] = "write" /\ op[r] = "create" => read[r] = None
    /\ pc[r] \in {"audit", "reload", "history"} /\ IsWriter(r) =>
          RevisionOf(r, subject[r]) \in revisions
    /\ pc[r] = "audit" =>
          /\ op[r] = "create" => read[r] = None /\ current[r].version = 1
          /\ op[r] \in Writers => read[r] # None /\ current[r].version > 1
          /\ op[r] = "delete" => Removed(subject[r])
    /\ pc[r] \in {"reload", "history"} => op[r] # "delete"
    /\ pc[r] = "history" =>
          /\ decisions[subject[r]] # None
          /\ shown[r].version <= decisions[subject[r]].version
          /\ IsWriter(r) => current[r].version \in 1..shown[r].version

\* What an answer tells its client, and what makes it true.
Told(r) ==
    /\ reply[r] = "ok" =>
          /\ IsWriter(r) => WroteRevision(r)
          /\ op[r] = "delete" => Removed(subject[r])
          /\ op[r] # "delete" =>
                /\ 1..shown[r].version \subseteq shown[r].history
                /\ IsWriter(r) => current[r].version \in 1..shown[r].version
    /\ reply[r] \in {"rejected", "conflict"} => ~WroteRevision(r)
    /\ reply[r] = "notfound" /\ WroteRevision(r) => Removed(subject[r])

\* Every request's answer is the one its own writes, and the rows it saw, call
\* for, whatever the other requests did in between.
AnswerInv == \A r \in Requests : OwnRevision(r) /\ Stored(r) /\ Told(r)

\* The version a refused writer asked for belongs to someone else.
Taken(r) ==
    \/ Removed(subject[r])
    \/ \E rev \in revisions : /\ rev.decision = subject[r]
                              /\ rev.version = current[r].version
                              /\ rev.actor # r

\* The revision of the version a request has read.
ReadRevision(r) ==
    \E seen \in revisions :
        /\ seen.decision = subject[r]
        /\ seen.version = read[r].version
        /\ seen.state = read[r].status

\* A deletion carries what it read to its audit row, and ends with it.
DeletionsRead ==
    /\ \A r \in Requests : pc[r] \in {"write", "audit"} /\ op[r] = "delete" =>
          read[r] # None /\ ReadRevision(r)
    /\ \A a \in audits : a.action = "delete" => pc[a.request] = "done"

\* With clients without foresight, conflicts and audit rows are true as well.
EvidenceInv ==
    /\ \A r \in Requests : reply[r] = "conflict" => Taken(r)
    /\ DeletionsRead
    /\ AuditTruthful
==============================================================================
