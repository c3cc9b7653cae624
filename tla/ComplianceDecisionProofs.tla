---------------------- MODULE ComplianceDecisionProofs ----------------------
(***************************************************************************)
(* Proofs about ComplianceDecision for every value of its constants.      *)
(***************************************************************************)
EXTENDS ComplianceDecisionInv, TLAPS

Arrival(r) ==
    \/ Refuse(r) \/ Create(r) \/ Update(r) \/ Transition(r) \/ Delete(r)
    \/ BusinessRule(r) \/ Read(r) \/ Missing(r)

Transact(r) ==
    \/ CreateWithRevision(r) \/ UpdateWithRevision(r) \/ VersionConflict(r)
    \/ SoftDelete(r) \/ DeleteNotFound(r)

Followup(r) ==
    \/ AppendAudit(r) \/ AuditFails(r) \/ Reload(r) \/ PreloadRevisions(r)
    \/ TransactionFails(r) \/ QueryFails(r)

\* The steps of a request, by phase.
LEMMA StepPhases ==
    ASSUME NEW r \in Requests, Step(r)
    PROVE  Arrival(r) \/ Transact(r) \/ Followup(r)
  BY DEF Step, Arrival, Transact, Followup

-----------------------------------------------------------------------------
(* Rows                                                                    *)

\* What the two writers change in the row they read, and what they keep.
LEMMA EditedRowFacts ==
    ASSUME NEW row \in Row, NEW c \in Contents, NEW expected \in Nat
    PROVE  /\ EditedRow(row, c, expected) \in Row
           /\ EditedRow(row, c, expected).status = row.status
           /\ EditedRow(row, c, expected).content = c
           /\ EditedRow(row, c, expected).version = expected + 1
           /\ EditedRow(row, c, expected).deleted = row.deleted
  BY DEF EditedRow, Row

\* The same for a transition: the status is the target, the content stays.
LEMMA MovedRowFacts ==
    ASSUME NEW row \in Row, NEW target \in DecisionStates, NEW expected \in Nat
    PROVE  /\ MovedRow(row, target, expected) \in Row
           /\ MovedRow(row, target, expected).status = target
           /\ MovedRow(row, target, expected).content = row.content
           /\ MovedRow(row, target, expected).version = expected + 1
           /\ MovedRow(row, target, expected).deleted = row.deleted
  BY DEF MovedRow, Row

\* None is not a row.
LEMMA RowIsSome ==
    ASSUME NEW row \in Row
    PROVE  row # None
  BY ConstantsAssumption DEF ConstantsAssumption, Row

-----------------------------------------------------------------------------
(* Types                                                                   *)

\* The versions a client may name are natural numbers.
LEMMA ExpectedAreNat ==
    ASSUME TypeOK, NEW i \in Ids, Live(i), NEW expected \in ExpectedVersions(i)
    PROVE  expected \in Nat
<1>1. decisions[i] \in Row
  BY DEF TypeOK, Live
<1> QED
  BY <1>1, ConstantsAssumption DEF ExpectedVersions, Row, ConstantsAssumption

\* Arriving requests keep every variable in its type.
LEMMA ArrivalTypeOK ==
    ASSUME TypeOK, NEW r \in Requests, Arrival(r)
    PROVE  TypeOK'
<1> USE ConstantsAssumption DEF ConstantsAssumption
<1>1. CASE Refuse(r) \/ BusinessRule(r) \/ Missing(r)
  BY <1>1 DEF TypeOK, Refuse, BusinessRule, Missing, Answer, Replies, tables, locals
<1>2. CASE Create(r)
  BY <1>2 DEF TypeOK, Create, Enter, Goto, NewRow, Row, DecisionStates, Operations, tables
<1>3. CASE Update(r)
  <2>1. PICK i \in Ids, c \in Contents :
          /\ Live(i)
          /\ \E expected \in ExpectedVersions(i) :
                Enter(r, "update", i, decisions[i], EditedRow(decisions[i], c, expected))
          /\ UNCHANGED role
          /\ Goto(r, "write")
    BY <1>3 DEF Update
  <2>2. decisions[i] \in Row
    BY <2>1 DEF TypeOK, Live
  <2>3. PICK expected \in ExpectedVersions(i) :
          Enter(r, "update", i, decisions[i], EditedRow(decisions[i], c, expected))
    BY <2>1
  <2>4. expected + 1 \in Nat
    BY <2>2, <2>3 DEF ExpectedVersions, Row
  <2>5. EditedRow(decisions[i], c, expected) \in Row
    BY <2>2, <2>4 DEF EditedRow, Row
  <2> QED
    BY <2>1, <2>2, <2>3, <2>5 DEF TypeOK, Enter, Goto, Operations, tables
<1>4. CASE Transition(r)
  <2>1. PICK who \in Callers, i \in Ids, target \in DecisionStates :
          /\ Live(i)
          /\ \E expected \in ExpectedVersions(i) :
                Enter(r, "transition", i, decisions[i],
                      MovedRow(decisions[i], target, expected))
          /\ role' = [role EXCEPT ![r] = who]
          /\ Goto(r, "write")
    BY <1>4 DEF Transition
  <2>2. decisions[i] \in Row
    BY <2>1 DEF TypeOK, Live
  <2>3. PICK expected \in ExpectedVersions(i) :
          Enter(r, "transition", i, decisions[i], MovedRow(decisions[i], target, expected))
    BY <2>1
  <2>4. expected + 1 \in Nat
    BY <2>2, <2>3 DEF ExpectedVersions, Row
  <2>5. MovedRow(decisions[i], target, expected) \in Row
    BY <2>2, <2>4 DEF MovedRow, Row
  <2> QED
    BY <2>1, <2>2, <2>3, <2>5 DEF TypeOK, Enter, Goto, Operations, tables
<1>5. CASE Delete(r)
  BY <1>5 DEF TypeOK, Delete, Enter, Goto, Operations, tables
<1>6. CASE Read(r)
  BY <1>6 DEF TypeOK, Read, Enter, Goto, Operations, tables
<1> QED
  BY <1>1, <1>2, <1>3, <1>4, <1>5, <1>6 DEF Arrival

\* The transactions do: a writer at its transaction holds a row to store.
LEMMA TransactTypeOK ==
    ASSUME TypeOK, HandlerShape, NEW r \in Requests, Transact(r)
    PROVE  TypeOK'
<1> USE ConstantsAssumption DEF ConstantsAssumption
<1>1. CASE CreateWithRevision(r)
  <2>1. current[r] \in Row
    BY <1>1 DEF CreateWithRevision, TypeOK, HandlerShape
  <2>2. PICK i \in Ids :
          /\ decisions' = [decisions EXCEPT ![i] = current[r]]
          /\ revisions' = revisions \cup {RevisionOf(r, i)}
          /\ subject' = [subject EXCEPT ![r] = i]
    BY <1>1 DEF CreateWithRevision
  <2>3. RevisionOf(r, i) \in Revision
    BY <2>1 DEF RevisionOf, Revision, Row
  <2> QED
    BY <1>1, <2>1, <2>2, <2>3
    DEF CreateWithRevision, TypeOK, Committed, Goto, Answer, Replies
<1>2. CASE UpdateWithRevision(r)
  <2>1. current[r] \in Row /\ subject[r] \in Ids
    BY <1>2 DEF UpdateWithRevision, TypeOK, HandlerShape
  <2>2. RevisionOf(r, subject[r]) \in Revision
    BY <2>1 DEF RevisionOf, Revision, Row
  <2> QED
    BY <1>2, <2>1, <2>2
    DEF UpdateWithRevision, TypeOK, Committed, Goto, Answer, Replies, locals
<1>3. CASE SoftDelete(r)
  <2>1. subject[r] \in Ids
    BY <1>3 DEF SoftDelete, HandlerShape
  <2>2. decisions[subject[r]] \in Row
    BY <1>3, <2>1 DEF SoftDelete, TypeOK, Live
  <2>3. [decisions[subject[r]] EXCEPT !.deleted = TRUE] \in Row
    BY <2>2 DEF Row
  <2> QED
    BY <1>3, <2>1, <2>3 DEF SoftDelete, TypeOK, Committed, Goto, Answer, Replies, locals
<1>4. CASE VersionConflict(r) \/ DeleteNotFound(r)
  BY <1>4 DEF VersionConflict, DeleteNotFound, TypeOK, Answer, Replies, tables, locals
<1> QED
  BY <1>1, <1>2, <1>3, <1>4 DEF Transact

\* An audit row is well formed when the request is at its audit.
LEMMA AuditOfType ==
    ASSUME TypeOK, HandlerShape, NEW r \in Requests, pc[r] = "audit"
    PROVE  AuditOf(r) \in AuditRow
<1>1. /\ op[r] \in {"create", "update", "transition", "delete"}
      /\ subject[r] \in Ids
      /\ current[r] \in Row
  BY DEF HandlerShape, TypeOK
<1>2. read[r] = None \/ read[r] \in Row
  BY DEF TypeOK
<1> QED
  BY <1>1, <1>2 DEF AuditOf, AuditRow, Row

\* Audit, reload and failure steps keep the types.
LEMMA FollowupTypeOK ==
    ASSUME TypeOK, HandlerShape, NEW r \in Requests, Followup(r)
    PROVE  TypeOK'
<1> USE ConstantsAssumption DEF ConstantsAssumption
<1>1. CASE AppendAudit(r) \/ AuditFails(r)
  <2>1. AuditOf(r) \in AuditRow
    BY <1>1, AuditOfType DEF AppendAudit, AuditFails
  <2> QED
    BY <1>1, <2>1
    DEF AppendAudit, AuditFails, TypeOK, Goto, Answer, Replies, locals
<1>2. CASE Reload(r)
  <2>1. CASE Live(subject[r])
    <3>1. decisions[subject[r]].version \in Nat
      BY <1>2, <2>1 DEF Reload, HandlerShape, TypeOK, Live, Row
    <3>2. shown' = [shown EXCEPT ![r].version = decisions[subject[r]].version]
      BY <1>2, <2>1 DEF Reload
    <3> QED
      BY <1>2, <2>1, <3>1, <3>2 DEF Reload, TypeOK, Goto, tables, locals
  <2>2. CASE ~Live(subject[r])
    BY <1>2, <2>2 DEF Reload, TypeOK, Answer, Replies, tables, locals
  <2> QED
    BY <2>1, <2>2
<1>3. CASE PreloadRevisions(r)
  <2>1. VersionsOf(subject[r]) \in SUBSET Nat
    BY DEF VersionsOf, TypeOK, Revision
  <2> QED
    BY <1>3, <2>1 DEF PreloadRevisions, TypeOK, Answer, Replies, tables, locals
<1>4. CASE TransactionFails(r)
  <2>1. UNCHANGED <<tables, shown>> /\ Answer(r, "failed") /\ Forget({r})
    BY <1>4 DEF TransactionFails
  <2> QED
    BY <2>1 DEF Forget, TypeOK, Answer, Replies, Operations, Roles, tables
<1>5. CASE QueryFails(r)
  BY <1>5 DEF QueryFails, TypeOK, Answer, Replies, tables, locals
<1> QED
  BY <1>1, <1>2, <1>3, <1>4, <1>5 DEF Followup

\* A crash keeps the types.
LEMMA CrashTypeOK ==
    ASSUME TypeOK, Crash
    PROVE  TypeOK'
  BY DEF Crash, Forget, TypeOK, Replies, Operations, Roles, tables

-----------------------------------------------------------------------------
(* Handlers: their locals and the change they are about to store           *)

\* An arriving request enters its transaction with a legal change of the row it
\* has just read; the tables and the other requests are left alone.
LEMMA ArrivalPlans ==
    ASSUME TypeOK, HandlerShape, ChangePlanned, AuthorsPastWrite,
           NEW r \in Requests, Arrival(r)
    PROVE  /\ UNCHANGED tables
           /\ HandlerShape' /\ ChangePlanned' /\ AuthorsPastWrite'
<1> USE ConstantsAssumption DEF ConstantsAssumption
<1>1. CASE Refuse(r) \/ BusinessRule(r) \/ Missing(r)
  BY <1>1 DEF Refuse, BusinessRule, Missing, Answer, TypeOK, HandlerShape,
              ChangePlanned, AuthorsPastWrite, tables, locals
<1>2. CASE Create(r)
  <2>1. PICK c \in Contents :
          /\ Enter(r, "create", None, None, NewRow(c))
          /\ UNCHANGED role
          /\ Goto(r, "write")
    BY <1>2 DEF Create
  <2>2. NewRow(c) # None
    <3>1. NewRow(c) \in Row
      BY DEF NewRow, Row, DecisionStates
    <3> QED
      BY <3>1, RowIsSome
  <2> QED
    BY <2>1, <2>2 DEF Enter, Goto, NewRow, TypeOK, HandlerShape, ChangePlanned,
                      AuthorsPastWrite, Writers, tables
<1>3. CASE Update(r)
  <2>1. PICK i \in Ids, c \in Contents, expected \in Nat :
          /\ expected \in ExpectedVersions(i)
          /\ Live(i) /\ decisions[i].status = "draft"
          /\ Enter(r, "update", i, decisions[i], EditedRow(decisions[i], c, expected))
          /\ UNCHANGED role
          /\ Goto(r, "write")
    BY <1>3, ExpectedAreNat DEF Update
  <2>2. decisions[i] \in Row /\ expected \in Nat /\ expected >= 1
    BY <2>1 DEF TypeOK, Live, ExpectedVersions, Row
  <2> DEFINE new == EditedRow(decisions[i], c, expected)
  <2>3. new \in Row /\ new.status = "draft" /\ new.version > 1
    BY <2>1, <2>2, EditedRowFacts
  <2> HIDE DEF new
  <2>4. new # None
    BY <2>3, RowIsSome
  <2> QED
    BY <2>1, <2>2, <2>3, <2>4
    DEF new, Enter, Goto, TypeOK, Live, HandlerShape, ChangePlanned,
        AuthorsPastWrite, Writers, tables
<1>4. CASE Transition(r)
  <2>1. PICK who \in Callers, i \in Ids, target \in DecisionStates, expected \in Nat :
          /\ expected \in ExpectedVersions(i)
          /\ Live(i) /\ MayMove(decisions[i].status, target, who)
          /\ Enter(r, "transition", i, decisions[i],
                   MovedRow(decisions[i], target, expected))
          /\ role' = [role EXCEPT ![r] = who]
          /\ Goto(r, "write")
    BY <1>4, ExpectedAreNat DEF Transition
  <2>2. decisions[i] \in Row /\ expected \in Nat /\ expected >= 1
    BY <2>1 DEF TypeOK, Live, ExpectedVersions, Row
  <2> DEFINE new == MovedRow(decisions[i], target, expected)
  <2>3. /\ new \in Row /\ new.version > 1
        /\ new.status = target /\ new.content = decisions[i].content
    BY <2>1, <2>2, MovedRowFacts
  <2> HIDE DEF new
  <2>4. new # None
    BY <2>3, RowIsSome
  <2> QED
    BY <2>1, <2>2, <2>3, <2>4
    DEF new, Enter, Goto, TypeOK, Live, HandlerShape, ChangePlanned,
        AuthorsPastWrite, Writers, tables
<1>5. CASE Delete(r)
  BY <1>5 DEF Delete, Enter, Goto, Live, TypeOK, HandlerShape, ChangePlanned,
              AuthorsPastWrite, Writers, tables
<1>6. CASE Read(r)
  BY <1>6 DEF Read, Enter, Goto, TypeOK, HandlerShape, ChangePlanned,
              AuthorsPastWrite, Writers, tables
<1> QED
  BY <1>1, <1>2, <1>3, <1>4, <1>5, <1>6 DEF Arrival

\* A transaction moves its own request past it and never removes a row.
LEMMA TransactPlans ==
    ASSUME TypeOK, HandlerShape, ChangePlanned, AuthorsPastWrite,
           NEW r \in Requests, Transact(r)
    PROVE  HandlerShape' /\ ChangePlanned' /\ AuthorsPastWrite'
<1> USE ConstantsAssumption DEF ConstantsAssumption
<1>1. CASE CreateWithRevision(r)
  <2>1. PICK i \in Ids :
          /\ decisions' = [decisions EXCEPT ![i] = current[r]]
          /\ revisions' = revisions \cup {RevisionOf(r, i)}
          /\ subject' = [subject EXCEPT ![r] = i]
    BY <1>1 DEF CreateWithRevision
  <2>2. current[r] # None /\ RevisionOf(r, i).actor = r
    BY <1>1 DEF CreateWithRevision, HandlerShape, RevisionOf
  <2> QED
    BY <1>1, <2>1, <2>2
    DEF CreateWithRevision, Committed, Goto, Answer, TypeOK, HandlerShape,
        ChangePlanned, AuthorsPastWrite, Writers
<1>2. CASE UpdateWithRevision(r)
  <2>1. current[r] # None /\ RevisionOf(r, subject[r]).actor = r
    BY <1>2 DEF UpdateWithRevision, HandlerShape, RevisionOf
  <2> QED
    BY <1>2, <2>1
    DEF UpdateWithRevision, Committed, Goto, Answer, TypeOK, HandlerShape,
        ChangePlanned, AuthorsPastWrite, Writers, locals
<1>3. CASE SoftDelete(r)
  <2>1. subject[r] \in Ids /\ decisions[subject[r]] \in Row
    BY <1>3 DEF SoftDelete, HandlerShape, TypeOK, Live
  <2>2. [decisions[subject[r]] EXCEPT !.deleted = TRUE] # None
    BY <2>1 DEF Row
  <2> QED
    BY <1>3, <2>1, <2>2
    DEF SoftDelete, Committed, Goto, Answer, TypeOK, HandlerShape,
        ChangePlanned, AuthorsPastWrite, Writers, locals
<1>4. CASE VersionConflict(r) \/ DeleteNotFound(r)
  BY <1>4 DEF VersionConflict, DeleteNotFound, Answer, TypeOK, HandlerShape,
              ChangePlanned, AuthorsPastWrite, Writers, tables, locals
<1> QED
  BY <1>1, <1>2, <1>3, <1>4 DEF Transact

\* Steps after the transaction keep the shape and plans of the handlers.
LEMMA FollowupPlans ==
    ASSUME TypeOK, HandlerShape, ChangePlanned, AuthorsPastWrite,
           NEW r \in Requests, Followup(r)
    PROVE  /\ UNCHANGED <<decisions, revisions>>
           /\ HandlerShape' /\ ChangePlanned' /\ AuthorsPastWrite'
<1>1. CASE AppendAudit(r) \/ AuditFails(r) \/ Reload(r) \/ PreloadRevisions(r)
             \/ QueryFails(r)
  BY <1>1 DEF AppendAudit, AuditFails, Reload, PreloadRevisions, QueryFails, Goto,
              Answer, TypeOK, HandlerShape, ChangePlanned, AuthorsPastWrite,
              Writers, tables, locals
<1>2. CASE TransactionFails(r)
  BY <1>2 DEF TransactionFails, Forget, Answer, TypeOK, HandlerShape,
              ChangePlanned, AuthorsPastWrite, Writers, tables
<1> QED
  BY <1>1, <1>2 DEF Followup

\* So does a crash, which leaves no handler about to write.
LEMMA CrashPlans ==
    ASSUME TypeOK, HandlerShape, ChangePlanned, AuthorsPastWrite, Crash
    PROVE  /\ UNCHANGED <<decisions, revisions>>
           /\ HandlerShape' /\ ChangePlanned' /\ AuthorsPastWrite'
  BY DEF Crash, Forget, TypeOK, HandlerShape, ChangePlanned, AuthorsPastWrite,
         Writers, tables

-----------------------------------------------------------------------------
(* Histories                                                               *)

HistoryParts == RevisionsInRange /\ NoVersionMissing /\ RevisionsKeyed

\* The history speaks of two tables only.
LEMMA HistoryFrame ==
    ASSUME HistoryParts, UNCHANGED <<decisions, revisions>>
    PROVE  HistoryParts'
  BY DEF HistoryParts, RevisionsInRange, NoVersionMissing, RevisionsKeyed

\* The new row of a fresh key starts its history at version 1.
LEMMA CreateHistory ==
    ASSUME HistoryInv, NEW r \in Requests, CreateWithRevision(r)
    PROVE  HistoryParts'
<1> USE DEF HistoryInv
<1>1. PICK i \in Ids :
        /\ decisions[i] = None
        /\ decisions' = [decisions EXCEPT ![i] = current[r]]
        /\ revisions' = revisions \cup {RevisionOf(r, i)}
  BY DEF CreateWithRevision
<1>2. /\ current[r] \in Row /\ current[r] # None
      /\ current[r].version = 1
  BY DEF CreateWithRevision, TypeOK, HandlerShape, ChangePlanned
<1> DEFINE new == RevisionOf(r, i)
<1>3. /\ new.decision = i /\ new.version = 1
      /\ new.state = current[r].status /\ new.evidence = current[r].content
  BY <1>2 DEF RevisionOf
<1> HIDE DEF new
<1>4. \A rev \in revisions : rev.decision # i
  BY <1>1 DEF RevisionsInRange
<1>5. \A rev \in revisions : rev.decision \in Ids
  BY DEF TypeOK, Revision
<1>6. /\ decisions'[i] = current[r]
      /\ \A j \in Ids \ {i} : decisions'[j] = decisions[j]
  BY <1>1 DEF TypeOK
<1>7. revisions' = revisions \cup {new}
  BY <1>1 DEF new
<1>8. RevisionsInRange'
  BY <1>2, <1>3, <1>4, <1>5, <1>6, <1>7 DEF RevisionsInRange
<1>9. NoVersionMissing'
  <2>1. SUFFICES ASSUME NEW j \in Ids, decisions'[j] # None
                 PROVE  /\ decisions'[j].version > 0
                        /\ \A v \in 1..decisions'[j].version :
                              \E rev \in revisions' : rev.decision = j /\ rev.version = v
    BY DEF NoVersionMissing
  <2>2. CASE j = i
    BY <2>2, <1>2, <1>3, <1>6, <1>7
  <2>3. CASE j # i
    BY <2>1, <2>3, <1>6, <1>7 DEF NoVersionMissing
  <2> QED
    BY <2>2, <2>3
<1>10. RevisionsKeyed'
  BY <1>2, <1>3, <1>4, <1>5, <1>6, <1>7 DEF RevisionsKeyed
<1> QED
  BY <1>8, <1>9, <1>10 DEF HistoryParts

\* A matched row moves on by one version, and the revision beside it is the
\* next of its history: the unique index cannot be hit.
LEMMA UpdateHistory ==
    ASSUME HistoryInv, NEW r \in Requests, UpdateWithRevision(r)
    PROVE  HistoryParts'
<1> USE DEF HistoryInv
<1> DEFINE i == subject[r]
           new == RevisionOf(r, i)
           n == decisions[i].version
<1>1. /\ i \in Ids /\ decisions[i] # None /\ decisions[i] \in Row
      /\ n \in Nat /\ n > 0
  BY DEF UpdateWithRevision, HandlerShape, TypeOK, Row, NoVersionMissing
<1>2. /\ current[r] \in Row /\ current[r] # None
      /\ current[r].version = n + 1
  BY DEF UpdateWithRevision, RowMatches, TypeOK, HandlerShape
<1>3. /\ new.decision = i /\ new.version = n + 1
      /\ new.state = current[r].status /\ new.evidence = current[r].content
  BY <1>2 DEF RevisionOf
<1>4. revisions' = revisions \cup {new}
  BY DEF UpdateWithRevision
<1>5. /\ decisions'[i] = current[r]
      /\ \A j \in Ids \ {i} : decisions'[j] = decisions[j]
  BY <1>1 DEF UpdateWithRevision, TypeOK
<1>6. \A rev \in revisions :
         /\ rev.decision \in Ids /\ rev.version \in Nat
         /\ rev.decision = i => rev.version \in 1..n
  BY DEF TypeOK, Revision, RevisionsInRange
<1> HIDE DEF new, i, n
<1>7. RevisionsInRange'
  <2>1. SUFFICES ASSUME NEW rev \in revisions'
                 PROVE  /\ decisions'[rev.decision] # None
                        /\ rev.version \in 1..decisions'[rev.decision].version
    BY DEF RevisionsInRange
  <2>2. CASE rev = new
    BY <2>2, <1>1, <1>2, <1>3, <1>5
  <2>3. CASE rev \in revisions /\ rev.decision = i
    BY <2>3, <1>1, <1>2, <1>5, <1>6
  <2>4. CASE rev \in revisions /\ rev.decision # i
    BY <2>4, <1>5, <1>6 DEF RevisionsInRange
  <2> QED
    BY <1>4, <2>2, <2>3, <2>4
<1>8. NoVersionMissing'
  <2>1. SUFFICES ASSUME NEW j \in Ids, decisions'[j] # None
                 PROVE  /\ decisions'[j].version > 0
                        /\ \A v \in 1..decisions'[j].version :
                              \E rev \in revisions' : rev.decision = j /\ rev.version = v
    BY DEF NoVersionMissing
  <2>2. CASE j = i
    <3>1. decisions'[j].version = n + 1
      BY <2>2, <1>2, <1>5
    <3>2. \A v \in 1..n : \E rev \in revisions : rev.decision = i /\ rev.version = v
      BY <1>1 DEF NoVersionMissing, i, n
    <3>3. \A v \in 1..(n + 1) : v \in 1..n \/ v = n + 1
      BY <1>1
    <3> QED
      BY <2>2, <3>1, <3>2, <3>3, <1>1, <1>3, <1>4
  <2>3. CASE j # i
    BY <2>1, <2>3, <1>4, <1>5 DEF NoVersionMissing
  <2> QED
    BY <2>2, <2>3
<1>9. RevisionsKeyed'
  <2>1. ASSUME NEW rev \in revisions, rev.decision = i
        PROVE  rev.version # n + 1
    BY <2>1, <1>1, <1>6
  <2>2. \A rev1, rev2 \in revisions' :
           rev1.decision = rev2.decision /\ rev1.version = rev2.version
              => rev1 = rev2
    BY <2>1, <1>3, <1>4 DEF RevisionsKeyed
  <2>3. ASSUME NEW rev \in revisions',
               rev.version = decisions'[rev.decision].version
        PROVE  /\ rev.state = decisions'[rev.decision].status
               /\ rev.evidence = decisions'[rev.decision].content
    <3>1. CASE rev = new
      BY <3>1, <1>3, <1>5
    <3>2. CASE rev \in revisions /\ rev.decision = i
      BY <2>1, <2>3, <3>2, <1>2, <1>5
    <3>3. CASE rev \in revisions /\ rev.decision # i
      BY <2>3, <3>3, <1>5, <1>6 DEF RevisionsKeyed
    <3> QED
      BY <1>4, <3>1, <3>2, <3>3
  <2> QED
    BY <2>2, <2>3 DEF RevisionsKeyed
<1> QED
  BY <1>7, <1>8, <1>9 DEF HistoryParts

\* Deleting marks the row and keeps its history.
LEMMA SoftDeleteHistory ==
    ASSUME HistoryInv, NEW r \in Requests, SoftDelete(r)
    PROVE  HistoryParts'
<1> USE DEF HistoryInv
<1> DEFINE i == subject[r]
<1>1. i \in Ids /\ decisions[i] \in Row
  BY DEF SoftDelete, HandlerShape, TypeOK, Live
<1>2. /\ decisions'[i] \in Row
      /\ decisions'[i].version = decisions[i].version
      /\ decisions'[i].status = decisions[i].status
      /\ decisions'[i].content = decisions[i].content
  BY <1>1 DEF SoftDelete, TypeOK, Row
<1>3. decisions[i] # None /\ decisions'[i] # None
  BY <1>1, <1>2, RowIsSome
<1>4. \A j \in Ids \ {i} : decisions'[j] = decisions[j]
  BY <1>1 DEF SoftDelete, TypeOK
<1>5. revisions' = revisions /\ \A rev \in revisions : rev.decision \in Ids
  BY DEF SoftDelete, TypeOK, Revision
<1> HIDE DEF i
<1>6. RevisionsInRange' /\ NoVersionMissing'
  BY <1>1, <1>2, <1>3, <1>4, <1>5 DEF RevisionsInRange, NoVersionMissing
<1>7. RevisionsKeyed'
  BY <1>1, <1>2, <1>3, <1>4, <1>5 DEF RevisionsKeyed
<1> QED
  BY <1>6, <1>7 DEF HistoryParts

-----------------------------------------------------------------------------
(* The history invariant                                                   *)

\* The seeded tables, one revision to each row, satisfy the invariant.
LEMMA HistoryInvInit == Init => HistoryInv
<1> SUFFICES ASSUME Init PROVE HistoryInv
  OBVIOUS
<1> USE ConstantsAssumption DEF ConstantsAssumption
<1>1. /\ \A i \in DOMAIN Seeded : /\ i \in Ids
                                  /\ Seeded[i].status \in DecisionStates
                                  /\ Seeded[i].content \in Contents
  OBVIOUS
<1> DEFINE seed(i) == [status |-> Seeded[i].status, content |-> Seeded[i].content,
                       version |-> 1, deleted |-> FALSE]
           first(i) == [decision |-> i, version |-> 1, state |-> Seeded[i].status,
                        evidence |-> Seeded[i].content, actor |-> Seeder]
<1>2. \A i \in DOMAIN Seeded : seed(i) \in Row /\ first(i) \in Revision
  BY <1>1 DEF Row, Revision
<1>3. \A i \in DOMAIN Seeded :
         /\ seed(i) # None /\ seed(i).version = 1
         /\ seed(i).status = Seeded[i].status /\ seed(i).content = Seeded[i].content
         /\ first(i).decision = i /\ first(i).version = 1
         /\ first(i).state = Seeded[i].status
         /\ first(i).evidence = Seeded[i].content /\ first(i).actor = Seeder
  BY <1>2, RowIsSome
<1>4. /\ decisions = [i \in Ids |-> IF i \in DOMAIN Seeded THEN seed(i) ELSE None]
      /\ revisions = {first(i) : i \in DOMAIN Seeded}
  BY DEF Init
<1> HIDE DEF seed, first
<1>5. TypeOK
  <2>1. decisions \in [Ids -> Row \cup {None}] /\ revisions \subseteq Revision
    BY <1>2, <1>4
  <2>2. NothingShown \in [version : Nat, history : SUBSET Nat]
    BY DEF NothingShown
  <2> QED
    BY <2>1, <2>2 DEF Init, TypeOK, Operations, Roles, Replies
<1>6. HandlerShape /\ ChangePlanned
  BY DEF Init, HandlerShape, ChangePlanned
<1>7. AuthorsPastWrite
  BY <1>3, <1>4 DEF AuthorsPastWrite
<1>8. \A i \in DOMAIN Seeded : decisions[i] = seed(i)
  BY <1>1, <1>4
<1>9. RevisionsInRange /\ RevisionsKeyed
  BY <1>3, <1>4, <1>8 DEF RevisionsInRange, RevisionsKeyed
<1>10. NoVersionMissing
  <2>1. SUFFICES ASSUME NEW i \in Ids, decisions[i] # None
                 PROVE  /\ decisions[i].version > 0
                        /\ \A v \in 1..decisions[i].version :
                              \E rev \in revisions : rev.decision = i /\ rev.version = v
    BY DEF NoVersionMissing
  <2>2. i \in DOMAIN Seeded /\ decisions[i].version = 1
    BY <2>1, <1>3, <1>4
  <2>3. first(i) \in revisions /\ first(i).decision = i /\ first(i).version = 1
    BY <2>2, <1>3, <1>4
  <2> QED
    BY <2>2, <2>3
<1> QED
  BY <1>5, <1>6, <1>7, <1>9, <1>10 DEF HistoryInv

\* Every step of every request, and a crash, keeps the invariant.
LEMMA HistoryInvStep == HistoryInv /\ [Next]_vars => HistoryInv'
<1> SUFFICES ASSUME HistoryInv, [Next]_vars PROVE HistoryInv'
  OBVIOUS
<1>1. /\ TypeOK /\ HandlerShape /\ ChangePlanned /\ AuthorsPastWrite
      /\ HistoryParts
  BY DEF HistoryInv, HistoryParts
<1>2. ASSUME NEW r \in Requests, Arrival(r)
      PROVE  HistoryInv'
  BY <1>1, <1>2, ArrivalTypeOK, ArrivalPlans, HistoryFrame
  DEF tables, HistoryInv, HistoryParts
<1>3. ASSUME NEW r \in Requests, Transact(r)
      PROVE  HistoryInv'
  <2>1. HistoryParts'
    <3>1. CASE VersionConflict(r) \/ DeleteNotFound(r)
      BY <1>1, <3>1, HistoryFrame DEF VersionConflict, DeleteNotFound, tables
    <3> QED
      BY <1>3, <3>1, CreateHistory, UpdateHistory, SoftDeleteHistory DEF Transact
  <2> QED
    BY <1>1, <1>3, <2>1, TransactTypeOK, TransactPlans DEF HistoryInv, HistoryParts
<1>4. ASSUME NEW r \in Requests, Followup(r)
      PROVE  HistoryInv'
  BY <1>1, <1>4, FollowupTypeOK, FollowupPlans, HistoryFrame DEF HistoryInv, HistoryParts
<1>5. ASSUME Crash
      PROVE  HistoryInv'
  BY <1>1, <1>5, CrashTypeOK, CrashPlans, HistoryFrame DEF HistoryInv, HistoryParts
<1>6. CASE UNCHANGED vars
  <2>1. TypeOK'
    BY <1>1, <1>6 DEF vars, TypeOK
  <2>2. HandlerShape' /\ ChangePlanned' /\ AuthorsPastWrite'
    BY <1>1, <1>6 DEF vars, HandlerShape, ChangePlanned, AuthorsPastWrite
  <2>3. HistoryParts'
    BY <1>1, <1>6, HistoryFrame DEF vars
  <2> QED
    BY <2>1, <2>2, <2>3 DEF HistoryInv, HistoryParts
<1> QED
  BY <1>2, <1>3, <1>4, <1>5, <1>6, StepPhases DEF Next

\* The inductive invariant of the tables and handlers holds for every number of
\* requests, every seed and every Foresight.
THEOREM HistoryInvariant == Spec => []HistoryInv
  BY HistoryInvInit, HistoryInvStep, PTL DEF Spec

\* Every table and every request's locals stay within their types, under races,
\* failures and crashes.
THEOREM TypeCorrect == Spec => []TypeOK
<1>1. HistoryInv => TypeOK
  BY DEF HistoryInv
<1> QED
  BY <1>1, HistoryInvariant, PTL

\* The revisions of a decision are exactly the versions 1 to the row's own, one
\* each, the last equal to the row: even for clients that guess versions.
THEOREM HistoryIsComplete == Spec => []HistoryComplete
<1>1. HistoryInv => HistoryComplete
  <2> SUFFICES ASSUME HistoryInv PROVE HistoryComplete
    OBVIOUS
  <2> USE DEF HistoryInv
  <2>1. ASSUME NEW i \in Ids, decisions[i] = None
        PROVE  VersionsOf(i) = {}
    BY <2>1 DEF VersionsOf, RevisionsInRange
  <2>2. ASSUME NEW i \in Ids, decisions[i] # None
        PROVE  VersionsOf(i) = 1..decisions[i].version
    BY <2>2 DEF VersionsOf, RevisionsInRange, NoVersionMissing
  <2> QED
    BY <2>1, <2>2 DEF HistoryComplete, RevisionsKeyed
<1> QED
  BY <1>1, HistoryInvariant, PTL

-----------------------------------------------------------------------------
(* Clients without foresight: legality and freshness                       *)

Legality == LegalHistory /\ NoLostUpdate

\* Adjacent revisions are judged by the locals of the newer one's author, and
\* no request past its transaction changes these.
LEMMA LegalityFrame ==
    ASSUME TypeOK, AuthorsPastWrite, Legality, revisions' = revisions,
           \A r \in Requests : pc[r] \notin {"idle", "write"} =>
               role'[r] = role[r] /\ read'[r] = read[r]
    PROVE  Legality'
<1>1. ASSUME NEW rev \in revisions, rev.actor \in Requests
      PROVE  role'[rev.actor] = role[rev.actor] /\ read'[rev.actor] = read[rev.actor]
  BY <1>1 DEF AuthorsPastWrite
<1>2. LegalHistory'
  BY <1>1 DEF Legality, LegalHistory, LegalStep
<1>3. NoLostUpdate'
  BY <1>1 DEF Legality, NoLostUpdate
<1> QED
  BY <1>2, <1>3 DEF Legality

\* Arriving writers read the row as it is and expect no later version.
LEMMA ArrivalReads ==
    ASSUME Foresight = 0, SafetyInv, NEW r \in Requests, Arrival(r)
    PROVE  ReadIsStale' /\ Legality'
<1> USE DEF SafetyInv, HistoryInv
<1>1. UNCHANGED tables
  BY ArrivalPlans
<1>2. pc[r] = "idle" /\ \A q \in Requests \ {r} :
        /\ pc'[q] = pc[q] /\ op'[q] = op[q] /\ subject'[q] = subject[q]
        /\ role'[q] = role[q] /\ read'[q] = read[q] /\ current'[q] = current[q]
  BY DEF Arrival, Refuse, Create, Update, Transition, Delete, BusinessRule, Read,
         Missing, Enter, Goto, Answer, TypeOK, locals
<1>3. Legality'
  BY <1>1, <1>2, LegalityFrame DEF Legality, tables
<1>4. ASSUME pc'[r] = "write", op'[r] \in Writers
      PROVE  /\ current'[r].version <= read'[r].version + 1
             /\ read'[r] = decisions[subject'[r]]
             /\ read'[r].version \in Nat
  <2>1. CASE Update(r)
    <3>1. PICK i \in Ids, c \in Contents, expected \in Nat :
            /\ expected \in ExpectedVersions(i)
            /\ Live(i)
            /\ Enter(r, "update", i, decisions[i], EditedRow(decisions[i], c, expected))
      BY <2>1, ExpectedAreNat DEF Update
    <3>2. decisions[i] \in Row
      BY <3>1 DEF TypeOK, Live
    <3>3. expected \in Nat /\ expected <= decisions[i].version
      BY <3>1, <3>2 DEF ExpectedVersions, Row
    <3>4. EditedRow(decisions[i], c, expected).version = expected + 1
      BY <3>2, <3>3, EditedRowFacts
    <3> QED
      BY <3>1, <3>2, <3>3, <3>4 DEF Enter, TypeOK, Row
  <2>2. CASE Transition(r)
    <3>1. PICK i \in Ids, target \in DecisionStates, expected \in Nat :
            /\ expected \in ExpectedVersions(i)
            /\ Live(i)
            /\ Enter(r, "transition", i, decisions[i],
                     MovedRow(decisions[i], target, expected))
      BY <2>2, ExpectedAreNat DEF Transition
    <3>2. decisions[i] \in Row
      BY <3>1 DEF TypeOK, Live
    <3>3. expected \in Nat /\ expected <= decisions[i].version
      BY <3>1, <3>2 DEF ExpectedVersions, Row
    <3>4. MovedRow(decisions[i], target, expected).version = expected + 1
      BY <3>2, <3>3, MovedRowFacts
    <3> QED
      BY <3>1, <3>2, <3>3, <3>4 DEF Enter, TypeOK, Row
  <2>3. CASE ~Update(r) /\ ~Transition(r)
    BY <1>4, <2>3 DEF Arrival, Refuse, Create, Delete, BusinessRule, Read, Missing,
                      Enter, Goto, Answer, TypeOK, Writers
  <2> QED
    BY <2>1, <2>2, <2>3
<1>5. ReadIsStale'
  BY <1>1, <1>2, <1>4 DEF ReadIsStale, tables
<1> QED
  BY <1>3, <1>5

\* A stored version leaves every other writer's read behind, and its own writer
\* had read exactly the version before it.
LEMMA UpdateReads ==
    ASSUME SafetyInv, NEW r \in Requests, UpdateWithRevision(r)
    PROVE  ReadIsStale' /\ Legality'
<1> USE DEF SafetyInv, HistoryInv
<1> DEFINE i == subject[r]
           new == RevisionOf(r, i)
           n == decisions[i].version
<1>1. /\ i \in Ids /\ decisions[i] \in Row /\ n \in Nat
      /\ current[r] \in Row /\ current[r].version = n + 1
      /\ read[r] \in Row /\ read[r].version \in Nat
  BY DEF UpdateWithRevision, RowMatches, HandlerShape, ChangePlanned, Writers, TypeOK, Row
<1>2. /\ read[r].version = n
      /\ read[r].status = decisions[i].status
      /\ read[r].content = decisions[i].content
  BY <1>1 DEF UpdateWithRevision, ReadIsStale, Writers
<1>3. /\ new.decision = i /\ new.version = n + 1 /\ new.actor = r
      /\ new.state = current[r].status /\ new.evidence = current[r].content
  BY <1>1 DEF RevisionOf
<1>4. revisions' = revisions \cup {new}
  BY DEF UpdateWithRevision
<1>5. /\ decisions'[i] = current[r]
      /\ \A j \in Ids \ {i} : decisions'[j] = decisions[j]
      /\ UNCHANGED locals
  BY <1>1 DEF UpdateWithRevision, TypeOK
<1>6. pc'[r] # "write" /\ \A q \in Requests \ {r} : pc'[q] = pc[q]
  BY DEF UpdateWithRevision, Committed, Goto, Answer, TypeOK
<1>7. \A rev \in revisions :
         /\ rev.decision \in Ids /\ rev.version \in Nat
         /\ rev.decision = i => rev.version \in 1..n
  BY DEF TypeOK, Revision, RevisionsInRange
<1>8. \/ read[r].status = "draft" /\ current[r].status = "draft"
      \/ /\ MayMove(read[r].status, current[r].status, role[r])
         /\ current[r].content = read[r].content
  BY DEF UpdateWithRevision, ChangePlanned
<1> HIDE DEF i, n, new
<1>9. ReadIsStale'
  <2>1. SUFFICES ASSUME NEW q \in Requests, pc'[q] = "write", op'[q] \in Writers
                 PROVE  /\ current'[q].version <= read'[q].version + 1
                        /\ read'[q].version <= decisions'[subject'[q]].version
                        /\ read'[q].version = decisions'[subject'[q]].version =>
                              /\ read'[q].status = decisions'[subject'[q]].status
                              /\ read'[q].content = decisions'[subject'[q]].content
    BY DEF ReadIsStale
  <2>2. q # r /\ pc[q] = "write" /\ op[q] \in Writers
    BY <2>1, <1>5, <1>6 DEF locals
  <2>3. subject[q] \in Ids /\ read[q] \in Row
    BY <2>2 DEF HandlerShape, ChangePlanned, Writers, TypeOK
  <2>4. CASE subject[q] = i
    <3>1. read[q].version <= n /\ read[q].version \in Nat
      BY <2>2, <2>3, <2>4 DEF ReadIsStale, n, Row
    <3>2. current[q].version <= read[q].version + 1
      BY <2>2 DEF ReadIsStale
    <3>3. decisions'[subject'[q]].version = n + 1
      BY <2>4, <1>1, <1>5 DEF locals
    <3> QED
      BY <3>1, <3>2, <3>3, <1>1, <1>5 DEF locals
  <2>5. CASE subject[q] # i
    BY <2>2, <2>3, <2>5, <1>5 DEF ReadIsStale, locals
  <2> QED
    BY <2>4, <2>5
<1>10. ASSUME NEW old \in revisions', NEW next \in revisions',
              old.decision = next.decision, next.version = old.version + 1
       PROVE  /\ LegalStep(old, next)'
              /\ next.actor \in Requests
              /\ read'[next.actor].version = old.version
              /\ read'[next.actor].status = old.state
              /\ read'[next.actor].content = old.evidence
  <2>1. CASE next \in revisions /\ old \in revisions
    BY <1>10, <2>1, <1>5 DEF LegalHistory, NoLostUpdate, LegalStep, locals
  <2>2. CASE next = new /\ old \in revisions
    <3>1. old.decision = i /\ old.version = n
      BY <1>10, <2>2, <1>1, <1>3, <1>7
    <3>2. old.state = decisions[i].status /\ old.evidence = decisions[i].content
      BY <3>1, <2>2 DEF RevisionsKeyed, n
    <3>3. /\ read'[r] = read[r] /\ role'[r] = role[r]
      BY <1>5 DEF locals
    <3>4. LegalStep(old, next)'
      BY <2>2, <3>2, <3>3, <1>2, <1>3, <1>8 DEF LegalStep, MayMove
    <3> QED
      BY <2>2, <3>1, <3>2, <3>3, <3>4, <1>2, <1>3
  <2>3. CASE old = new
    BY <1>10, <2>3, <1>1, <1>3, <1>4, <1>7
  <2> QED
    BY <1>4, <2>1, <2>2, <2>3
<1>11. LegalHistory'
  BY <1>10 DEF LegalHistory
<1>12. NoLostUpdate'
  BY <1>10 DEF NoLostUpdate
<1> QED
  BY <1>9, <1>11, <1>12 DEF Legality

\* A first version follows no other, and no writer works on a key without a row.
LEMMA CreateReads ==
    ASSUME SafetyInv, NEW r \in Requests, CreateWithRevision(r)
    PROVE  ReadIsStale' /\ Legality'
<1> USE DEF SafetyInv, HistoryInv
<1>1. PICK i \in Ids :
        /\ decisions[i] = None
        /\ decisions' = [decisions EXCEPT ![i] = current[r]]
        /\ revisions' = revisions \cup {RevisionOf(r, i)}
        /\ subject' = [subject EXCEPT ![r] = i]
  BY DEF CreateWithRevision
<1> DEFINE new == RevisionOf(r, i)
<1>2. new.decision = i /\ new.version = 1
  BY DEF CreateWithRevision, ChangePlanned, RevisionOf
<1> HIDE DEF new
<1>3. revisions' = revisions \cup {new}
  BY <1>1 DEF new
<1>4. \A rev \in revisions : rev.decision # i /\ rev.version \in Nat /\ rev.version > 0
  BY <1>1 DEF RevisionsInRange, TypeOK, Revision
<1>5. UNCHANGED <<op, role, read, current>>
  BY DEF CreateWithRevision
<1>6. pc'[r] # "write" /\ \A q \in Requests \ {r} : pc'[q] = pc[q]
  BY DEF CreateWithRevision, Committed, Goto, Answer, TypeOK
<1>7. ReadIsStale'
  <2>1. SUFFICES ASSUME NEW q \in Requests, pc'[q] = "write", op'[q] \in Writers
                 PROVE  /\ current'[q].version <= read'[q].version + 1
                        /\ read'[q].version <= decisions'[subject'[q]].version
                        /\ read'[q].version = decisions'[subject'[q]].version =>
                              /\ read'[q].status = decisions'[subject'[q]].status
                              /\ read'[q].content = decisions'[subject'[q]].content
    BY DEF ReadIsStale
  <2>2. q # r /\ pc[q] = "write" /\ op[q] \in Writers
    BY <2>1, <1>5, <1>6
  <2>3. subject[q] \in Ids /\ decisions[subject[q]] # None
    BY <2>2 DEF HandlerShape, Writers
  <2>4. subject'[q] = subject[q] /\ decisions'[subject[q]] = decisions[subject[q]]
    BY <1>1, <2>2, <2>3 DEF TypeOK
  <2> QED
    BY <2>2, <2>4, <1>5 DEF ReadIsStale
<1>8. ASSUME NEW old \in revisions', NEW next \in revisions',
             old.decision = next.decision, next.version = old.version + 1
      PROVE  old \in revisions /\ next \in revisions
  BY <1>2, <1>3, <1>4, <1>8
<1>9. LegalHistory'
  BY <1>5, <1>8 DEF LegalHistory, LegalStep
<1>10. NoLostUpdate'
  BY <1>5, <1>8 DEF NoLostUpdate
<1> QED
  BY <1>7, <1>9, <1>10 DEF Legality

\* A deletion touches neither revisions nor what the other handlers read.
LEMMA SoftDeleteReads ==
    ASSUME SafetyInv, NEW r \in Requests, SoftDelete(r)
    PROVE  ReadIsStale' /\ Legality'
<1> USE DEF SafetyInv, HistoryInv
<1> DEFINE i == subject[r]
<1>1. i \in Ids /\ decisions[i] \in Row
  BY DEF SoftDelete, HandlerShape, TypeOK, Live
<1>2. /\ decisions'[i].version = decisions[i].version
      /\ decisions'[i].status = decisions[i].status
      /\ decisions'[i].content = decisions[i].content
  BY <1>1 DEF SoftDelete, TypeOK, Row
<1>3. \A j \in Ids \ {i} : decisions'[j] = decisions[j]
  BY <1>1 DEF SoftDelete, TypeOK
<1>4. UNCHANGED <<revisions, op, subject, role, read, current>>
  BY DEF SoftDelete, locals
<1>5. \A q \in Requests : pc'[q] = "write" => pc[q] = "write"
  BY DEF SoftDelete, Committed, Goto, Answer, TypeOK
<1> HIDE DEF i
<1>6. \A q \in Requests : pc'[q] = "write" /\ op'[q] \in Writers => subject[q] \in Ids
  BY <1>4, <1>5 DEF HandlerShape, Writers
<1>7. ReadIsStale'
  BY <1>1, <1>2, <1>3, <1>4, <1>5, <1>6 DEF ReadIsStale
<1>8. Legality'
  BY <1>4, LegalityFrame DEF Legality
<1> QED
  BY <1>7, <1>8

\* The remaining steps store nothing and start no transaction.
LEMMA OtherReads ==
    ASSUME SafetyInv,
           UNCHANGED <<decisions, revisions>>,
           \A q \in Requests :
              /\ pc'[q] = "write" => pc[q] = "write" /\ UNCHANGED <<op[q], subject[q], read[q], current[q]>>
              /\ pc[q] \notin {"idle", "write"} => UNCHANGED <<role[q], read[q]>>
    PROVE  ReadIsStale' /\ Legality'
<1>1. ReadIsStale'
  BY DEF SafetyInv, ReadIsStale
<1>2. Legality'
  BY LegalityFrame DEF SafetyInv, HistoryInv, Legality
<1> QED
  BY <1>1, <1>2

\* Every step keeps the history legal and the reads stale but never wrong.
LEMMA SafetyStep ==
    ASSUME Foresight = 0, SafetyInv, [Next]_vars
    PROVE  SafetyInv'
<1>1. HistoryInv'
  BY HistoryInvStep DEF SafetyInv
<1>2. ReadIsStale' /\ Legality'
  <2> USE DEF SafetyInv, HistoryInv
  <2>1. ASSUME NEW r \in Requests, Step(r)
        PROVE  ReadIsStale' /\ Legality'
    <3>1. CASE Arrival(r)
      BY <3>1, ArrivalReads
    <3>2. CASE CreateWithRevision(r) \/ UpdateWithRevision(r) \/ SoftDelete(r)
      BY <3>2, CreateReads, UpdateReads, SoftDeleteReads
    <3>3. CASE \/ VersionConflict(r) \/ DeleteNotFound(r) \/ AppendAudit(r)
               \/ AuditFails(r) \/ Reload(r) \/ PreloadRevisions(r) \/ QueryFails(r)
      <4>1. /\ UNCHANGED <<decisions, revisions>> /\ UNCHANGED locals
            /\ \A q \in Requests : pc'[q] = "write" => pc[q] = "write"
        BY <3>3 DEF VersionConflict, DeleteNotFound, AppendAudit, AuditFails, Reload,
                    PreloadRevisions, QueryFails, Goto, Answer, TypeOK, tables
      <4> QED
        BY <4>1, OtherReads DEF locals
    <3>4. CASE TransactionFails(r)
      <4>1. /\ UNCHANGED <<decisions, revisions>> /\ pc[r] = "write" /\ pc'[r] = "done"
            /\ \A q \in Requests \ {r} :
                  /\ pc'[q] = pc[q]
                  /\ UNCHANGED <<op[q], subject[q], role[q], read[q], current[q]>>
        BY <3>4 DEF TransactionFails, Forget, Answer, TypeOK, tables
      <4> QED
        BY <4>1, OtherReads
    <3> QED
      BY <2>1, <3>1, <3>2, <3>3, <3>4, StepPhases DEF Transact, Followup
  <2>2. ASSUME Crash
        PROVE  ReadIsStale' /\ Legality'
    <3>1. /\ UNCHANGED <<decisions, revisions>>
          /\ \A q \in Requests :
                /\ pc'[q] # "write"
                /\ pc[q] # "write" => UNCHANGED <<role[q], read[q]>>
      BY <2>2 DEF Crash, Forget, TypeOK, tables
    <3> QED
      BY <3>1, OtherReads
  <2>3. CASE UNCHANGED vars
    BY <2>3, OtherReads DEF vars
  <2> QED
    BY <2>1, <2>2, <2>3 DEF Next
<1> QED
  BY <1>1, <1>2 DEF SafetyInv, Legality

\* Nothing has been read or changed in the seeded tables.
LEMMA SafetyInit == Init => SafetyInv
<1> SUFFICES ASSUME Init PROVE SafetyInv
  OBVIOUS
<1>1. ReadIsStale
  BY DEF Init, ReadIsStale
<1>2. \A rev \in revisions : rev.version = 1
  BY DEF Init
<1>3. LegalHistory /\ NoLostUpdate
  BY <1>2 DEF LegalHistory, NoLostUpdate
<1> QED
  BY <1>1, <1>3, HistoryInvInit DEF SafetyInv

\* With clients that send back only versions they were shown, a pending write
\* was computed from the row it will replace, or will not match it.
THEOREM SafetyInvariant ==
    ASSUME Foresight = 0
    PROVE  Spec => []SafetyInv
  BY SafetyInit, SafetyStep, PTL DEF Spec

\* Among any number of racing, failing and crashing requests no history skips
\* review, changes evidence after review began or reaches a final status without
\* a reviewer, as long as clients send only versions they were shown.
THEOREM HistoryIsLegal ==
    ASSUME Foresight = 0
    PROVE  Spec => []LegalHistory
<1>1. SafetyInv => LegalHistory
  BY DEF SafetyInv
<1> QED
  BY <1>1, SafetyInvariant, PTL

\* Under the same condition whoever stored version v+1 had read version v.
THEOREM UpdatesAreNotLost ==
    ASSUME Foresight = 0
    PROVE  Spec => []NoLostUpdate
<1>1. SafetyInv => NoLostUpdate
  BY DEF SafetyInv
<1> QED
  BY <1>1, SafetyInvariant, PTL
=============================================================================
