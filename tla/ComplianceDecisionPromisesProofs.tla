----------------- MODULE ComplianceDecisionPromisesProofs -----------------
(***************************************************************************)
(* Proofs of what ComplianceDecision promises, on top of the invariants of *)
(* its tables: that rows and revisions together behave as the append-only *)
(* ledger of DecisionLedger, and that answers and audit rows tell of what  *)
(* was stored.                                                             *)
(***************************************************************************)
EXTENDS ComplianceDecisionProofs, SequenceTheorems

-----------------------------------------------------------------------------
(* The ledger: sequences and entries                                       *)

Entry == [state : DecisionStates, evidence : Contents]

\* A sequence that has one element more than another, and the others in common,
\* is that one with the element appended.
LEMMA AppendIs ==
    ASSUME NEW S, NEW n \in Nat, NEW f \in [1..n -> S], NEW g \in [1..(n + 1) -> S],
           \A v \in 1..n : g[v] = f[v]
    PROVE  /\ Len(f) = n
           /\ g = Append(f, g[n + 1])
<1>1. f \in Seq(S) /\ Len(f) = n /\ g \in Seq(S) /\ Len(g) = n + 1
  OBVIOUS
<1>2. g[n + 1] \in S
  OBVIOUS
<1> DEFINE h == Append(f, g[n + 1])
<1>3. /\ h \in Seq(S) /\ Len(h) = n + 1 /\ h[n + 1] = g[n + 1]
      /\ \A v \in 1..n : h[v] = f[v]
  BY <1>1, <1>2, AppendProperties
<1> HIDE DEF h
<1>4. \A v \in 1..(n + 1) : g[v] = h[v]
  BY <1>3
<1>5. g = h
  BY <1>1, <1>3, <1>4
<1> QED
  BY <1>1, <1>5 DEF h

\* Sequences of one length that agree everywhere are the same.
LEMMA SameSequence ==
    ASSUME NEW S, NEW n \in Nat, NEW f \in [1..n -> S], NEW g \in [1..n -> S],
           \A v \in 1..n : f[v] = g[v]
    PROVE  f = g
  OBVIOUS

\* The entry of a version is that of the one revision it has.
LEMMA EntryIs ==
    ASSUME NEW revs, NEW rev \in revs,
           \A other \in revs : other.decision = rev.decision
                               /\ other.version = rev.version => other = rev
    PROVE  rev = CHOOSE x \in revs : /\ x.decision = rev.decision
                                     /\ x.version = rev.version
  OBVIOUS

\* What the ledger holds for every row, and for a key without one.
LedgerShape ==
    \A i \in Ids :
        IF decisions[i] = None THEN LedgerOf(i) = <<>>
        ELSE /\ LedgerOf(i) \in [1..decisions[i].version -> Entry]
             /\ \A rev \in revisions : rev.decision = i =>
                   LedgerOf(i)[rev.version]
                      = [state |-> rev.state, evidence |-> rev.evidence]

\* With its history complete, each row's ledger is read off its revisions.
LEMMA LedgerShaped == HistoryInv => LedgerShape
<1> SUFFICES ASSUME HistoryInv, NEW i \in Ids
             PROVE  IF decisions[i] = None THEN LedgerOf(i) = <<>>
                    ELSE /\ LedgerOf(i) \in [1..decisions[i].version -> Entry]
                         /\ \A rev \in revisions : rev.decision = i =>
                               LedgerOf(i)[rev.version]
                                  = [state |-> rev.state, evidence |-> rev.evidence]
  BY DEF LedgerShape
<1> USE DEF HistoryInv
<1>1. CASE decisions[i] = None
  <2>1. LedgerOf(i) = [v \in 1..0 |-> EntryOf(i, v)]
    BY <1>1 DEF LedgerOf
  <2>2. 1..0 = {}
    OBVIOUS
  <2> QED
    BY <1>1, <2>1, <2>2
<1>2. CASE decisions[i] # None
  <2>1. ASSUME NEW rev \in revisions, rev.decision = i
        PROVE  EntryOf(i, rev.version)
                  = [state |-> rev.state, evidence |-> rev.evidence]
    <3>1. \A other \in revisions : other.decision = rev.decision
                                   /\ other.version = rev.version => other = rev
      BY DEF RevisionsKeyed
    <3>2. rev = CHOOSE x \in revisions : /\ x.decision = rev.decision
                                         /\ x.version = rev.version
      BY <3>1, EntryIs
    <3> QED
      BY <2>1, <3>2 DEF EntryOf
  <2>2. ASSUME NEW v \in 1..decisions[i].version
        PROVE  EntryOf(i, v) \in Entry
    <3>1. PICK rev \in revisions : rev.decision = i /\ rev.version = v
      BY <1>2 DEF NoVersionMissing
    <3>2. rev.state \in DecisionStates /\ rev.evidence \in Contents
      BY DEF TypeOK, Revision
    <3>3. EntryOf(i, v) = [state |-> rev.state, evidence |-> rev.evidence]
      BY <2>1, <3>1
    <3> QED
      BY <3>2, <3>3 DEF Entry
  <2>3. LedgerOf(i) = [v \in 1..decisions[i].version |-> EntryOf(i, v)]
    BY <1>2 DEF LedgerOf
  <2>4. \A rev \in revisions :
           rev.decision = i => rev.version \in 1..decisions[i].version
    BY DEF RevisionsInRange
  <2> QED
    BY <1>2, <2>1, <2>2, <2>3, <2>4
<1> QED
  BY <1>1, <1>2

\* The same after a step.
LEMMA LedgerShapedNext == HistoryInv' => LedgerShape'
  BY LedgerShaped, PTL

-----------------------------------------------------------------------------
(* What a step does to the ledgers                                         *)

\* A decision whose row keeps its version and whose revisions stay keeps its
\* ledger.
LEMMA LedgerKept ==
    ASSUME HistoryInv, HistoryInv', NEW j \in Ids,
           decisions'[j] = None <=> decisions[j] = None,
           decisions[j] # None => decisions'[j].version = decisions[j].version,
           revisions \subseteq revisions'
    PROVE  LedgerOf(j)' = LedgerOf(j)
<1>1. LedgerShape /\ LedgerShape'
  BY LedgerShaped, LedgerShapedNext
<1>2. CASE decisions[j] = None
  BY <1>1, <1>2 DEF LedgerShape
<1>3. CASE decisions[j] # None
  <2> DEFINE n == decisions[j].version
  <2>1. LedgerOf(j) \in [1..n -> Entry] /\ LedgerOf(j)' \in [1..n -> Entry]
    BY <1>1, <1>3 DEF LedgerShape
  <2>2. ASSUME NEW v \in 1..n
        PROVE  LedgerOf(j)'[v] = LedgerOf(j)[v]
    <3>1. PICK rev \in revisions : rev.decision = j /\ rev.version = v
      BY <1>3, <2>2 DEF HistoryInv, NoVersionMissing
    <3>2. LedgerOf(j)[v] = [state |-> rev.state, evidence |-> rev.evidence]
      BY <1>1, <1>3, <3>1 DEF LedgerShape
    <3>3. rev \in revisions'
      BY <3>1
    <3>4. LedgerOf(j)'[v] = [state |-> rev.state, evidence |-> rev.evidence]
      BY <1>1, <1>3, <3>1, <3>3 DEF LedgerShape
    <3> QED
      BY <3>2, <3>4
  <2>0. n \in Nat
    BY <1>3 DEF HistoryInv, TypeOK, Row
  <2> HIDE DEF n
  <2>3. PICK f \in [1..n -> Entry], g \in [1..n -> Entry] :
          f = LedgerOf(j)' /\ g = LedgerOf(j)
    BY <2>1
  <2>4. \A v \in 1..n : f[v] = g[v]
    BY <2>2, <2>3
  <2>5. f = g
    BY <2>0, <2>3, <2>4, SameSequence
  <2> QED
    BY <2>3, <2>5
<1> QED
  BY <1>2, <1>3

\* A decision whose row moves on by one version gets the new revision's entry
\* appended.
LEMMA LedgerExtended ==
    ASSUME HistoryInv, HistoryInv', NEW i \in Ids, NEW n \in Nat,
           IF decisions[i] = None THEN n = 0 ELSE n = decisions[i].version,
           decisions'[i] # None, decisions'[i].version = n + 1,
           revisions \subseteq revisions',
           NEW new \in revisions', new.decision = i, new.version = n + 1
    PROVE  LedgerOf(i)' = Append(LedgerOf(i),
                                 [state |-> new.state, evidence |-> new.evidence])
<1> DEFINE f == LedgerOf(i)
<1>1. LedgerShape /\ LedgerShape'
  BY LedgerShaped, LedgerShapedNext
<1>2. f' \in [1..(n + 1) -> Entry]
  BY <1>1 DEF LedgerShape
<1>3. f'[n + 1] = [state |-> new.state, evidence |-> new.evidence]
  BY <1>1 DEF LedgerShape
<1>4. f \in [1..n -> Entry]
  <2>1. CASE decisions[i] = None
    <3>1. f = <<>> /\ n = 0
      BY <1>1, <2>1 DEF LedgerShape
    <3>2. 1..0 = {}
      OBVIOUS
    <3> QED
      BY <3>1, <3>2
  <2>2. CASE decisions[i] # None
    BY <1>1, <2>2 DEF LedgerShape
  <2> QED
    BY <2>1, <2>2
<1>5. ASSUME NEW v \in 1..n
      PROVE  f'[v] = f[v]
  <2>1. decisions[i] # None /\ n = decisions[i].version
    OBVIOUS
  <2>2. PICK rev \in revisions : rev.decision = i /\ rev.version = v
    BY <2>1, <1>5 DEF HistoryInv, NoVersionMissing
  <2>3. f[v] = [state |-> rev.state, evidence |-> rev.evidence]
    BY <1>1, <2>1, <2>2 DEF LedgerShape
  <2>4. rev \in revisions'
    BY <2>2
  <2>5. f'[v] = [state |-> rev.state, evidence |-> rev.evidence]
    BY <1>1, <2>2, <2>4 DEF LedgerShape
  <2> QED
    BY <2>3, <2>5
<1> HIDE DEF f
<1>6. f' = Append(f, f'[n + 1])
  BY <1>2, <1>4, <1>5, AppendIs
<1> QED
  BY <1>3, <1>6 DEF f

\* The last entry of a decision's ledger is its row.
LEMMA LastIsRow ==
    ASSUME HistoryInv, NEW i \in Ids, decisions[i] # None
    PROVE  /\ LedgerOf(i) # <<>>
           /\ LedgerOf(i)[Len(LedgerOf(i))].state = decisions[i].status
           /\ LedgerOf(i)[Len(LedgerOf(i))].evidence = decisions[i].content
<1> DEFINE f == LedgerOf(i)
           n == decisions[i].version
<1>1. LedgerShape
  BY LedgerShaped
<1>2. n \in Nat /\ n > 0
  BY DEF HistoryInv, TypeOK, Row, NoVersionMissing
<1>3. f \in [1..n -> Entry]
  BY <1>1 DEF LedgerShape
<1>4. n \in 1..n
  BY <1>2
<1>5. PICK rev \in revisions : rev.decision = i /\ rev.version = n
  BY <1>4 DEF HistoryInv, NoVersionMissing
<1>6. rev.state = decisions[i].status /\ rev.evidence = decisions[i].content
  BY <1>5 DEF HistoryInv, RevisionsKeyed
<1>7. f[n] = [state |-> rev.state, evidence |-> rev.evidence]
  BY <1>1, <1>5 DEF LedgerShape
<1> HIDE DEF f, n
<1>8. Len(f) = n
  BY <1>2, <1>3
<1>9. f # <<>>
  BY <1>2, <1>8
<1> QED
  BY <1>6, <1>7, <1>8, <1>9 DEF f

-----------------------------------------------------------------------------
(* Only a deletion deletes                                                 *)

\* Arriving writers take over the deleted mark of a row that has none.
LEMMA ArrivalPlansLive ==
    ASSUME HistoryInv, PlansLive, NEW r \in Requests, Arrival(r),
           pc'[r] = "write", IsWriter(r)'
    PROVE  ~current'[r].deleted
<1> USE DEF HistoryInv
<1>1. CASE Create(r)
  BY <1>1 DEF Create, Enter, NewRow, TypeOK
<1>2. CASE Update(r)
  <2>1. PICK i \in Ids, c \in Contents, expected \in Nat :
          /\ Live(i)
          /\ Enter(r, "update", i, decisions[i], EditedRow(decisions[i], c, expected))
    BY <1>2, ExpectedAreNat DEF Update
  <2>2. decisions[i] \in Row /\ ~decisions[i].deleted
    BY <2>1 DEF TypeOK, Live
  <2>3. ~EditedRow(decisions[i], c, expected).deleted
    BY <2>2, EditedRowFacts
  <2> QED
    BY <2>1, <2>3 DEF Enter, TypeOK
<1>3. CASE Transition(r)
  <2>1. PICK i \in Ids, target \in DecisionStates, expected \in Nat :
          /\ Live(i)
          /\ Enter(r, "transition", i, decisions[i],
                   MovedRow(decisions[i], target, expected))
    BY <1>3, ExpectedAreNat DEF Transition
  <2>2. decisions[i] \in Row /\ ~decisions[i].deleted
    BY <2>1 DEF TypeOK, Live
  <2>3. ~MovedRow(decisions[i], target, expected).deleted
    BY <2>2, MovedRowFacts
  <2> QED
    BY <2>1, <2>3 DEF Enter, TypeOK
<1>4. CASE \/ Refuse(r) \/ Delete(r) \/ BusinessRule(r) \/ Read(r) \/ Missing(r)
  BY <1>4 DEF Refuse, Delete, BusinessRule, Read, Missing, Enter, Goto, Answer,
              TypeOK, IsWriter
<1> QED
  BY <1>1, <1>2, <1>3, <1>4 DEF Arrival

\* No step makes a writer plan a deletion.
LEMMA PlansLiveStep ==
    ASSUME HistoryInv, PlansLive, [Next]_vars
    PROVE  PlansLive'
<1> USE DEF HistoryInv
<1>1. SUFFICES ASSUME NEW r \in Requests, pc'[r] = "write", IsWriter(r)'
               PROVE  ~current'[r].deleted
  BY DEF PlansLive
<1>2. ASSUME pc[r] = "write", op'[r] = op[r], current'[r] = current[r]
      PROVE  ~current'[r].deleted
  BY <1>1, <1>2 DEF PlansLive, IsWriter
<1>3. ASSUME NEW q \in Requests, Arrival(q)
      PROVE  ~current'[r].deleted
  <2>1. CASE q = r
    BY <1>1, <1>3, <2>1, ArrivalPlansLive
  <2>2. CASE q # r
    BY <1>1, <1>2, <1>3, <2>2 DEF Arrival, Refuse, Create, Update, Transition,
         Delete, BusinessRule, Read, Missing, Enter, Goto, Answer, TypeOK, locals
  <2> QED
    BY <2>1, <2>2
<1>4. ASSUME NEW q \in Requests, Transact(q)
      PROVE  ~current'[r].deleted
  BY <1>1, <1>2, <1>4 DEF Transact, CreateWithRevision, UpdateWithRevision,
     VersionConflict, SoftDelete, DeleteNotFound, Committed, Goto, Answer, TypeOK,
     locals
<1>5. ASSUME NEW q \in Requests, Followup(q), ~TransactionFails(q)
      PROVE  ~current'[r].deleted
  BY <1>1, <1>2, <1>5 DEF Followup, AppendAudit, AuditFails, Reload,
     PreloadRevisions, QueryFails, Goto, Answer, TypeOK, locals
<1>6. ASSUME NEW q \in Requests, TransactionFails(q)
      PROVE  ~current'[r].deleted
  BY <1>1, <1>2, <1>6 DEF TransactionFails, Forget, Answer, TypeOK
<1>7. CASE Crash
  BY <1>1, <1>7 DEF Crash
<1>8. CASE UNCHANGED vars
  BY <1>1, <1>2, <1>8 DEF vars
<1> QED
  BY <1>3, <1>4, <1>5, <1>6, <1>7, <1>8, StepPhases DEF Next

-----------------------------------------------------------------------------
(* The steps of the ledger                                                 *)

AllLedgers == [i \in Ids |-> LedgerOf(i)]

Deleted == {i \in Ids : decisions[i] # None /\ decisions[i].deleted}

\* An entry appended to one ledger, the others and the removals left alone.
LEMMA AppendStep ==
    ASSUME NEW i \in Ids, NEW entry,
           LedgerOf(i)' = Append(LedgerOf(i), entry),
           \A j \in Ids \ {i} : LedgerOf(j)' = LedgerOf(j),
           Deleted' = Deleted
    PROVE  Ledger!Append1(i, entry)
<1>1. AllLedgers' = [AllLedgers EXCEPT ![i] = Append(AllLedgers[i], entry)]
  BY DEF AllLedgers
<1> QED
  BY <1>1 DEF Ledger!Append1, AllLedgers, Deleted

\* No ledger changes while the tables do not.
LEMMA TablesStill ==
    ASSUME HistoryInv, HistoryInv', UNCHANGED <<decisions, revisions>>
    PROVE  UNCHANGED Ledger!vars
<1>1. \A j \in Ids : LedgerOf(j)' = LedgerOf(j)
  BY LedgerKept
<1> QED
  BY <1>1 DEF Ledger!vars

\* A created row opens a ledger with a draft.
LEMMA CreateStep ==
    ASSUME HistoryInv, HistoryInv', PlansLive, NEW r \in Requests,
           CreateWithRevision(r)
    PROVE  Ledger!Next
<1>1. PICK i \in Ids :
        /\ decisions[i] = None
        /\ decisions' = [decisions EXCEPT ![i] = current[r]]
        /\ revisions' = revisions \cup {RevisionOf(r, i)}
  BY DEF CreateWithRevision
<1>2. PICK new : new = RevisionOf(r, i)
  OBVIOUS
<1>3. /\ current[r] \in Row /\ current[r] # None
      /\ current[r].version = 1 /\ current[r].status = "draft"
      /\ ~current[r].deleted
  BY DEF CreateWithRevision, HistoryInv, TypeOK, HandlerShape, ChangePlanned,
         PlansLive, IsWriter
<1>4. /\ new.decision = i /\ new.version = 1 /\ new.state = "draft"
      /\ new.evidence = current[r].content /\ new.evidence \in Contents
      /\ new \in revisions' /\ revisions \subseteq revisions'
  BY <1>1, <1>2, <1>3 DEF RevisionOf, Row
<1>5. decisions'[i] = current[r] /\ \A j \in Ids \ {i} : decisions'[j] = decisions[j]
  BY <1>1 DEF HistoryInv, TypeOK
<1>6. LedgerOf(i)' = Append(LedgerOf(i), [state |-> "draft", evidence |-> new.evidence])
  BY <1>1, <1>3, <1>4, <1>5, LedgerExtended
<1>7. \A j \in Ids \ {i} : LedgerOf(j)' = LedgerOf(j)
  BY <1>4, <1>5, LedgerKept
<1>8. Deleted' = Deleted
  BY <1>1, <1>3, <1>5 DEF Deleted
<1>9. Ledger!Append1(i, [state |-> "draft", evidence |-> new.evidence])
  BY <1>6, <1>7, <1>8, AppendStep
<1>10. LedgerOf(i) = <<>>
  BY <1>1, LedgerShaped DEF LedgerShape
<1> QED
  BY <1>4, <1>9, <1>10 DEF Ledger!Next, Ledger!Create

\* A matched row gets the entry its writer planned, and the writer had read the
\* row it replaces: an update amends a draft, a transition advances.
LEMMA UpdateStep ==
    ASSUME SafetyInv, HistoryInv', PlansLive, NEW r \in Requests,
           UpdateWithRevision(r)
    PROVE  Ledger!Next
<1> USE DEF SafetyInv, HistoryInv
<1>1. PICK i \in Ids, n \in Nat :
        i = subject[r] /\ decisions[i] \in Row /\ n = decisions[i].version
  BY DEF UpdateWithRevision, HandlerShape, TypeOK, Row
<1>2. PICK new : new = RevisionOf(r, i)
  OBVIOUS
<1>3. /\ current[r] \in Row /\ current[r] # None /\ ~current[r].deleted
      /\ current[r].version = n + 1
      /\ decisions[i] # None /\ ~decisions[i].deleted
      /\ pc[r] = "write" /\ op[r] \in Writers
  BY <1>1 DEF UpdateWithRevision, RowMatches, Live, TypeOK, HandlerShape, PlansLive,
              IsWriter, Writers
<1>4. /\ new.decision = i /\ new.version = n + 1 /\ new.state = current[r].status
      /\ new.evidence = current[r].content
      /\ new.state \in DecisionStates /\ new.evidence \in Contents
  BY <1>2, <1>3 DEF RevisionOf, Row
<1>5. new \in revisions' /\ revisions \subseteq revisions'
  BY <1>1, <1>2 DEF UpdateWithRevision
<1>6. decisions'[i] = current[r] /\ \A j \in Ids \ {i} : decisions'[j] = decisions[j]
  BY <1>1 DEF UpdateWithRevision, TypeOK
<1>7. LedgerOf(i)' = Append(LedgerOf(i), [state |-> new.state, evidence |-> new.evidence])
  BY <1>1, <1>3, <1>4, <1>5, <1>6, LedgerExtended
<1>8. \A j \in Ids \ {i} : LedgerOf(j)' = LedgerOf(j)
  BY <1>5, <1>6, LedgerKept
<1>9. Deleted' = Deleted
  BY <1>3, <1>6 DEF Deleted
<1>10. Ledger!Append1(i, [state |-> new.state, evidence |-> new.evidence])
  BY <1>7, <1>8, <1>9, AppendStep
<1>11. read[r] \in Row /\ read[r].version = n
  <2>1. read[r] \in Row
    BY <1>3 DEF TypeOK, ChangePlanned
  <2>2. current[r].version <= read[r].version + 1 /\ read[r].version <= n
    BY <1>1, <1>3 DEF ReadIsStale
  <2> QED
    BY <1>3, <2>1, <2>2 DEF Row
<1>12. read[r].status = decisions[i].status /\ read[r].content = decisions[i].content
  BY <1>1, <1>3, <1>11 DEF ReadIsStale
<1>13. /\ AllLedgers[i] # <<>> /\ i \notin Deleted
       /\ AllLedgers[i][Len(AllLedgers[i])].state = decisions[i].status
       /\ AllLedgers[i][Len(AllLedgers[i])].evidence = decisions[i].content
  BY <1>3, LastIsRow DEF AllLedgers, Deleted
<1>14. Ledger!Open(i)
  BY <1>13 DEF Ledger!Open, AllLedgers, Deleted
<1>15. /\ Ledger!Last(i).state = decisions[i].status
       /\ Ledger!Last(i).evidence = decisions[i].content
  BY <1>13 DEF Ledger!Last, AllLedgers
<1>16. CASE op[r] = "update"
  <2>1. new.state = "draft" /\ decisions[i].status = "draft"
    BY <1>3, <1>4, <1>12, <1>16 DEF ChangePlanned
  <2>2. Ledger!Amend(i)
    BY <1>4, <1>10, <1>14, <1>15, <2>1 DEF Ledger!Amend
  <2> QED
    BY <2>2 DEF Ledger!Next
<1>17. CASE op[r] = "transition"
  <2>1. /\ MayMove(decisions[i].status, new.state, role[r])
        /\ new.evidence = decisions[i].content
    BY <1>3, <1>4, <1>12, <1>17 DEF ChangePlanned
  <2>2. CanTransition(ComplianceDecisionTransitions, decisions[i].status, new.state)
    BY <2>1 DEF MayMove
  <2>3. Ledger!Advance(i)
    <3>1. new.evidence = Ledger!Last(i).evidence
      BY <1>15, <2>1
    <3>2. Ledger!Append1(i, [state |-> new.state, evidence |-> Ledger!Last(i).evidence])
      BY <1>10, <3>1
    <3>3. Ledger!CanTransition(Ledger!ComplianceDecisionTransitions,
                               Ledger!Last(i).state, new.state)
      BY <1>15, <2>2 DEF CanTransition, ComplianceDecisionTransitions,
                         Ledger!CanTransition, Ledger!ComplianceDecisionTransitions
    <3>4. new.state \in Ledger!DecisionStates
      BY <1>4 DEF DecisionStates, Ledger!DecisionStates
    <3> QED
      BY <1>14, <3>2, <3>3, <3>4 DEF Ledger!Advance
  <2> QED
    BY <2>3 DEF Ledger!Next
<1> QED
  BY <1>3, <1>16, <1>17 DEF Writers

\* A deletion removes the decision and keeps its ledger.
LEMMA RemoveStep ==
    ASSUME HistoryInv, HistoryInv', NEW r \in Requests, SoftDelete(r)
    PROVE  Ledger!Next
<1>1. PICK i \in Ids : i = subject[r]
  BY DEF SoftDelete, HistoryInv, HandlerShape
<1>2. decisions[i] \in Row /\ decisions[i] # None /\ ~decisions[i].deleted
  BY <1>1 DEF SoftDelete, Live, HistoryInv, TypeOK
<1>3. PICK row : row = [decisions[i] EXCEPT !.deleted = TRUE]
  OBVIOUS
<1>4. row \in Row /\ row.version = decisions[i].version /\ row.deleted
  BY <1>2, <1>3 DEF Row
<1>5. /\ decisions'[i] = row /\ row # None
      /\ \A j \in Ids \ {i} : decisions'[j] = decisions[j]
      /\ revisions' = revisions
  BY <1>1, <1>3, <1>4, RowIsSome DEF SoftDelete, HistoryInv, TypeOK
<1>6. \A j \in Ids : LedgerOf(j)' = LedgerOf(j)
  BY <1>2, <1>4, <1>5, LedgerKept
<1>7. AllLedgers' = AllLedgers
  BY <1>6 DEF AllLedgers
<1>8. Deleted' = Deleted \cup {i}
  BY <1>4, <1>5 DEF Deleted
<1>9. AllLedgers[i] # <<>> /\ i \notin Deleted
  BY <1>2, LastIsRow DEF AllLedgers, Deleted
<1>10. Ledger!Remove(i)
  BY <1>7, <1>8, <1>9 DEF Ledger!Remove, Ledger!Open, AllLedgers, Deleted
<1> QED
  BY <1>10 DEF Ledger!Next

\* Every step of the system is one of the ledger or leaves the ledger alone.
LEMMA LedgerStep ==
    ASSUME SafetyInv, SafetyInv', PlansLive, [Next]_vars
    PROVE  [Ledger!Next]_(Ledger!vars)
<1>1. HistoryInv /\ HistoryInv'
  BY DEF SafetyInv
<1>2. ASSUME NEW q \in Requests, Step(q)
      PROVE  Ledger!Next \/ UNCHANGED <<decisions, revisions>>
  BY <1>1, <1>2, CreateStep, UpdateStep, RemoveStep
     DEF Step, Refuse, Create, Update, Transition, Delete, BusinessRule, Read,
         Missing, Enter, VersionConflict, DeleteNotFound, AppendAudit, AuditFails,
         Reload, PreloadRevisions, TransactionFails, QueryFails, tables
<1>3. Crash => UNCHANGED <<decisions, revisions>>
  BY DEF Crash, tables
<1>4. UNCHANGED vars => UNCHANGED <<decisions, revisions>>
  BY DEF vars
<1>5. Ledger!Next \/ UNCHANGED <<decisions, revisions>>
  BY <1>2, <1>3, <1>4 DEF Next
<1> QED
  BY <1>1, <1>5, TablesStill

\* The seeded tables are the seeded ledgers.
LEMMA LedgerInit == Init => Ledger!Init
<1> SUFFICES ASSUME Init PROVE Ledger!Init
  OBVIOUS
<1> DEFINE entry(i) == [state |-> Seeded[i].status, evidence |-> Seeded[i].content]
           seed(i) == [status |-> Seeded[i].status, content |-> Seeded[i].content,
                       version |-> 1, deleted |-> FALSE]
           first(i) == [decision |-> i, version |-> 1, state |-> Seeded[i].status,
                        evidence |-> Seeded[i].content, actor |-> Seeder]
<1>1. HistoryInv /\ LedgerShape
  BY HistoryInvInit, LedgerShaped
<1>2. /\ decisions = [i \in Ids |-> IF i \in DOMAIN Seeded THEN seed(i) ELSE None]
      /\ revisions = {first(i) : i \in DOMAIN Seeded}
  BY DEF Init
<1>3. ASSUME NEW i \in Ids, i \in DOMAIN Seeded
      PROVE  /\ decisions[i] # None /\ ~decisions[i].deleted
             /\ LedgerOf(i) = <<entry(i)>>
  <2>1. decisions[i] = seed(i)
    BY <1>2, <1>3
  <2>2. seed(i) # None
    <3>1. seed(i) \in Row
      BY <1>3, ConstantsAssumption DEF ConstantsAssumption, Row
    <3> QED
      BY <3>1, RowIsSome
  <2>3. first(i) \in revisions /\ first(i).decision = i /\ first(i).version = 1
    BY <1>2, <1>3
  <2>4. LedgerOf(i) \in [1..1 -> Entry]
    <3>1. decisions[i] # None /\ decisions[i].version = 1
      BY <2>1, <2>2
    <3>2. LedgerOf(i) \in [1..decisions[i].version -> Entry]
      BY <1>1, <3>1 DEF LedgerShape
    <3> QED
      BY <3>1, <3>2
  <2>5. LedgerOf(i)[1] = entry(i)
    BY <1>1, <2>1, <2>2, <2>3 DEF LedgerShape
  <2> HIDE DEF entry
  <2>6. LedgerOf(i) = <<entry(i)>>
    BY <2>4, <2>5
  <2> QED
    BY <2>1, <2>2, <2>6
<1>4. ASSUME NEW i \in Ids, i \notin DOMAIN Seeded
      PROVE  decisions[i] = None /\ LedgerOf(i) = <<>>
  BY <1>1, <1>2, <1>4 DEF LedgerShape
<1> HIDE DEF seed, first, entry
<1>5. AllLedgers = [i \in Ids |-> IF i \in DOMAIN Seeded THEN <<entry(i)>> ELSE <<>>]
  BY <1>3, <1>4 DEF AllLedgers
<1>6. Deleted = {}
  BY <1>3, <1>4 DEF Deleted
<1> QED
  BY <1>5, <1>6 DEF Ledger!Init, AllLedgers, Deleted, entry

\* Under racing requests, failures and crashes, row and revisions together
\* behave as the append-only ledger, for clients that send only versions they
\* were shown.
THEOREM LedgerImplemented ==
    ASSUME Foresight = 0
    PROVE  Spec => LedgerSpec
<1>1. Init => PlansLive
  BY DEF Init, PlansLive
<1>2. SafetyInv => HistoryInv
  BY DEF SafetyInv
<1> QED
  BY <1>1, <1>2, SafetyInit, SafetyStep, PlansLiveStep, LedgerInit, LedgerStep, PTL
  DEF Spec, LedgerSpec, Ledger!Spec

-----------------------------------------------------------------------------
(* The answers and the audit rows                                         *)

OneAnswer(r) == OwnRevision(r) /\ Stored(r) /\ Told(r)

\* Request r stands where it stood, with the locals it had.
Unmoved(r) ==
    /\ pc'[r] = pc[r] /\ reply'[r] = reply[r] /\ shown'[r] = shown[r]
    /\ op'[r] = op[r] /\ subject'[r] = subject[r] /\ role'[r] = role[r]
    /\ read'[r] = read[r] /\ current'[r] = current[r]

SameLocals(r) ==
    /\ op'[r] = op[r] /\ subject'[r] = subject[r]
    /\ read'[r] = read[r] /\ current'[r] = current[r]

\* Rows are neither removed nor taken back to an older version, and a deleted
\* one stays deleted.
RowsGrow ==
    \A i \in Ids : decisions[i] # None =>
        /\ decisions'[i] # None
        /\ decisions'[i].version \in Nat
        /\ decisions[i].version <= decisions'[i].version
        /\ decisions[i].deleted => decisions'[i].deleted

\* New revisions are stored by requests at their transaction.
RevisionsGrow ==
    /\ revisions \subseteq revisions'
    /\ \A rev \in revisions' \ revisions :
          rev.actor \in Requests /\ pc[rev.actor] = "write"

-----------------------------------------------------------------------------
(* What every step leaves alone                                            *)

\* A step of one request leaves the others where they are.
LEMMA StepOfOne ==
    ASSUME TypeOK, NEW q \in Requests, Step(q), NEW r \in Requests, r # q
    PROVE  Unmoved(r)
<1>1. CASE Arrival(q)
  BY <1>1 DEF Arrival, Refuse, Create, Update, Transition, Delete, BusinessRule,
              Read, Missing, Enter, Goto, Answer, TypeOK, locals, Unmoved
<1>2. CASE Transact(q)
  BY <1>2 DEF Transact, CreateWithRevision, UpdateWithRevision, VersionConflict,
              SoftDelete, DeleteNotFound, Committed, Goto, Answer, TypeOK, locals,
              Unmoved
<1>3. CASE AppendAudit(q) \/ AuditFails(q) \/ Reload(q) \/ PreloadRevisions(q)
             \/ QueryFails(q)
  BY <1>3 DEF AppendAudit, AuditFails, Reload, PreloadRevisions, QueryFails, Goto,
              Answer, TypeOK, locals, Unmoved
<1>4. CASE TransactionFails(q)
  BY <1>4 DEF TransactionFails, Forget, Answer, TypeOK, Unmoved
<1> QED
  BY <1>1, <1>2, <1>3, <1>4, StepPhases DEF Followup

\* No step of a request before or after its transaction touches the two tables.
LEMMA StepWritesLittle ==
    ASSUME TypeOK, NEW q \in Requests, Step(q), ~CreateWithRevision(q),
           ~UpdateWithRevision(q), ~SoftDelete(q)
    PROVE  UNCHANGED <<decisions, revisions>>
  BY DEF Step, Refuse, Create, Update, Transition, Delete, BusinessRule, Read,
         Missing, Enter, VersionConflict, DeleteNotFound, AppendAudit, AuditFails,
         Reload, PreloadRevisions, TransactionFails, QueryFails, tables

\* The tables only grow.
LEMMA TablesGrow ==
    ASSUME HistoryInv, [Next]_vars
    PROVE  RowsGrow /\ RevisionsGrow
<1> USE DEF HistoryInv
<1>1. ASSUME UNCHANGED <<decisions, revisions>>
      PROVE  RowsGrow /\ RevisionsGrow
  BY <1>1 DEF RowsGrow, RevisionsGrow, TypeOK, Row
<1>2. ASSUME NEW q \in Requests, CreateWithRevision(q)
      PROVE  RowsGrow /\ RevisionsGrow
  <2>1. PICK i \in Ids :
          /\ decisions[i] = None
          /\ decisions' = [decisions EXCEPT ![i] = current[q]]
          /\ revisions' = revisions \cup {RevisionOf(q, i)}
    BY <1>2 DEF CreateWithRevision
  <2>2. pc[q] = "write" /\ RevisionOf(q, i).actor = q
    BY <1>2 DEF CreateWithRevision, RevisionOf
  <2>3. RowsGrow
    BY <2>1 DEF RowsGrow, TypeOK, Row
  <2>4. RevisionsGrow
    BY <2>1, <2>2 DEF RevisionsGrow
  <2> QED
    BY <2>3, <2>4
<1>3. ASSUME NEW q \in Requests, UpdateWithRevision(q)
      PROVE  RowsGrow /\ RevisionsGrow
  <2>1. PICK i \in Ids : i = subject[q]
    BY <1>3 DEF UpdateWithRevision, HandlerShape
  <2>2. /\ decisions' = [decisions EXCEPT ![i] = current[q]]
        /\ revisions' = revisions \cup {RevisionOf(q, i)}
        /\ current[q] # None /\ current[q] \in Row
        /\ decisions[i] \in Row /\ ~decisions[i].deleted
        /\ current[q].version = decisions[i].version + 1
        /\ pc[q] = "write" /\ RevisionOf(q, i).actor = q
    BY <1>3, <2>1 DEF UpdateWithRevision, RowMatches, Live, TypeOK, HandlerShape,
                      RevisionOf
  <2>3. RowsGrow
    BY <2>2 DEF RowsGrow, TypeOK, Row
  <2>4. RevisionsGrow
    BY <2>2 DEF RevisionsGrow
  <2> QED
    BY <2>3, <2>4
<1>4. ASSUME NEW q \in Requests, SoftDelete(q)
      PROVE  RowsGrow /\ RevisionsGrow
  <2>1. PICK i \in Ids : i = subject[q]
    BY <1>4 DEF SoftDelete, HandlerShape
  <2>2. decisions[i] \in Row
    BY <1>4, <2>1 DEF SoftDelete, Live, TypeOK
  <2>3. [decisions[i] EXCEPT !.deleted = TRUE] \in Row
    BY <2>2 DEF Row
  <2>4. [decisions[i] EXCEPT !.deleted = TRUE] # None
    BY <2>3, RowIsSome
  <2>5. decisions' = [decisions EXCEPT ![i] = [decisions[i] EXCEPT !.deleted = TRUE]]
    BY <1>4, <2>1 DEF SoftDelete
  <2>6. RowsGrow
    BY <2>2, <2>4, <2>5 DEF RowsGrow, TypeOK, Row
  <2>7. RevisionsGrow
    BY <1>4 DEF SoftDelete, RevisionsGrow
  <2> QED
    BY <2>6, <2>7
<1>5. CASE UNCHANGED vars
  BY <1>1, <1>5 DEF vars
<1>6. CASE Crash
  BY <1>1, <1>6 DEF Crash, tables
<1>7. CASE \E q \in Requests : Step(q)
  BY <1>1, <1>2, <1>3, <1>4, <1>7, StepWritesLittle
<1> QED
  BY <1>5, <1>6, <1>7 DEF Next

\* Whatever the others do, a request that stands still keeps its answer.
LEMMA UnmovedAnswer ==
    ASSUME HistoryInv, RowsGrow, RevisionsGrow, NEW r \in Requests,
           OneAnswer(r), Unmoved(r),
           \A rev \in revisions' \ revisions : rev.actor # r
    PROVE  OneAnswer(r)'
<1>1. WroteRevision(r)' <=> WroteRevision(r)
  BY DEF WroteRevision, RevisionsGrow
<1>2. OwnRevision(r)'
  BY DEF OneAnswer, OwnRevision, IsWriter, Unmoved
<1>3. ASSUME NEW i, Removed(i)
      PROVE  Removed(i)'
  BY <1>3 DEF Removed, RowsGrow
<1>4. PICK i : i = subject[r] /\ i = subject'[r]
  BY DEF Unmoved
<1>5. Told(r)'
  BY <1>1, <1>3, <1>4 DEF OneAnswer, Told, Unmoved, IsWriter
<1>6. Stored(r)'
  <2>1. pc[r] = "history" => subject[r] \in Ids
    BY DEF HistoryInv, HandlerShape
  <2>2. pc'[r] = "history" => /\ decisions'[i] # None
                              /\ shown'[r].version <= decisions'[i].version
    <3>1. SUFFICES ASSUME pc[r] = "history"
                   PROVE  /\ decisions'[i] # None
                          /\ shown[r].version <= decisions'[i].version
      BY DEF Unmoved
    <3>2. i \in Ids /\ decisions[i] # None /\ shown[r].version <= decisions[i].version
      BY <1>4, <2>1, <3>1 DEF OneAnswer, Stored
    <3>3. decisions[i].version \in Nat /\ shown[r].version \in Nat
      BY <3>2 DEF HistoryInv, TypeOK, Row
    <3> QED
      BY <3>2, <3>3 DEF RowsGrow
  <2>3. RevisionOf(r, i) \in revisions => RevisionOf(r, i)' \in revisions'
    BY DEF RevisionOf, Unmoved, RevisionsGrow
  <2> QED
    BY <1>3, <1>4, <2>2, <2>3 DEF OneAnswer, Stored, Unmoved, IsWriter
<1> QED
  BY <1>2, <1>5, <1>6 DEF OneAnswer

-----------------------------------------------------------------------------
(* The request that takes a step                                           *)

\* Nobody is the author of a revision before its transaction.
LEMMA NothingWritten ==
    ASSUME HistoryInv, NEW r \in Requests, pc[r] \in {"idle", "write"}
    PROVE  ~WroteRevision(r) /\ OwnRevision(r)
  BY DEF HistoryInv, AuthorsPastWrite, WroteRevision, OwnRevision

\* An arriving request has stored nothing, and is told so or told nothing yet.
LEMMA ArrivalAnswer ==
    ASSUME HistoryInv, NEW r \in Requests, OneAnswer(r), Arrival(r)
    PROVE  OneAnswer(r)'
<1>1. revisions' = revisions
  BY ArrivalPlans DEF HistoryInv, tables
<1>2. pc[r] = "idle"
  BY DEF Arrival, Refuse, Create, Update, Transition, Delete, BusinessRule, Read,
         Missing, Enter
<1>3. OwnRevision(r)' /\ ~WroteRevision(r)'
  BY <1>1, <1>2, NothingWritten DEF WroteRevision, OwnRevision
<1>4. CASE Refuse(r) \/ BusinessRule(r) \/ Missing(r)
  <2>1. pc'[r] = "done" /\ reply'[r] = "rejected"
    BY <1>4 DEF Refuse, BusinessRule, Missing, Answer, HistoryInv, TypeOK
  <2> QED
    BY <1>3, <2>1 DEF OneAnswer, Stored, Told
<1>5. CASE Create(r) \/ Update(r) \/ Transition(r) \/ Delete(r)
  <2>1. /\ pc'[r] = "write" /\ reply'[r] = reply[r]
        /\ op'[r] = "create" => read'[r] = None
    BY <1>5 DEF Create, Update, Transition, Delete, Enter, Goto, HistoryInv, TypeOK
  <2>2. reply'[r] = "none"
    BY <1>2, <2>1 DEF OneAnswer, Stored
  <2> QED
    BY <1>3, <2>1, <2>2 DEF OneAnswer, Stored, Told
<1>6. CASE Read(r)
  <2>1. pc'[r] = "reload" /\ reply'[r] = reply[r] /\ op'[r] = "read"
    BY <1>6 DEF Read, Enter, Goto, HistoryInv, TypeOK
  <2>2. reply'[r] = "none"
    BY <1>2, <2>1 DEF OneAnswer, Stored
  <2> QED
    BY <1>3, <2>1, <2>2 DEF OneAnswer, Stored, Told, IsWriter
<1> QED
  BY <1>4, <1>5, <1>6 DEF Arrival

\* What a writer that has just stored a row and its revision knows.
LEMMA CommitAnswer ==
    ASSUME HistoryInv, NEW r \in Requests, OneAnswer(r), pc[r] = "write",
           IsWriter(r), Committed(r), NEW i \in Ids,
           subject'[r] = i, revisions' = revisions \cup {RevisionOf(r, i)},
           UNCHANGED <<op, read, current>>
    PROVE  OneAnswer(r)'
<1> DEFINE new == RevisionOf(r, i)
<1>1. /\ new.actor = r /\ new.decision = i /\ new.version = current[r].version
      /\ new' = new
  BY DEF RevisionOf
<1>2. new \in revisions'
  OBVIOUS
<1> HIDE DEF new
<1>3. \A rev \in revisions' : rev.actor = r => rev = new
  BY NothingWritten DEF WroteRevision, new
<1>4. OwnRevision(r)'
  BY <1>1, <1>3 DEF OwnRevision, IsWriter
<1>5. reply[r] = "none" /\ (op[r] = "create" => read[r] = None)
  BY DEF OneAnswer, Stored
<1>6. CASE Goto(r, "audit")
  <2>1. pc'[r] = "audit" /\ reply'[r] = "none"
    BY <1>5, <1>6 DEF Goto, HistoryInv, TypeOK
  <2>2. Told(r)'
    BY <2>1 DEF Told
  <2>3. RevisionOf(r, subject[r])' \in revisions'
    BY <1>1, <1>2 DEF new, RevisionOf
  <2>4. /\ op[r] \in {"create", "update", "transition"}
        /\ op[r] = "create" => current[r].version = 1
        /\ op[r] \in Writers => read[r] # None /\ current[r].version > 1
    BY DEF IsWriter, HistoryInv, ChangePlanned
  <2>5. Stored(r)'
    BY <1>5, <2>1, <2>3, <2>4 DEF Stored
  <2> QED
    BY <1>4, <2>2, <2>5 DEF OneAnswer
<1>7. CASE Answer(r, "failed")
  <2>1. pc'[r] = "done" /\ reply'[r] = "failed"
    BY <1>7 DEF Answer, HistoryInv, TypeOK
  <2> QED
    BY <1>4, <2>1 DEF OneAnswer, Stored, Told
<1> QED
  BY <1>6, <1>7 DEF Committed

\* A transaction stores the request's change, or nothing and says so.
LEMMA TransactAnswer ==
    ASSUME HistoryInv, RowsGrow, NEW r \in Requests, OneAnswer(r), Transact(r)
    PROVE  OneAnswer(r)'
<1>1. CASE CreateWithRevision(r)
  <2>1. PICK i \in Ids :
          /\ revisions' = revisions \cup {RevisionOf(r, i)}
          /\ subject' = [subject EXCEPT ![r] = i]
    BY <1>1 DEF CreateWithRevision
  <2>2. subject'[r] = i
    BY <2>1 DEF HistoryInv, TypeOK
  <2> QED
    BY <1>1, <2>1, <2>2, CommitAnswer DEF CreateWithRevision, IsWriter
<1>2. CASE UpdateWithRevision(r)
  <2>1. PICK i \in Ids : i = subject[r]
    BY <1>2 DEF UpdateWithRevision, HistoryInv, HandlerShape
  <2> QED
    BY <1>2, <2>1, CommitAnswer DEF UpdateWithRevision, IsWriter, locals
<1>3. CASE VersionConflict(r) \/ DeleteNotFound(r)
  <2>1. /\ pc'[r] = "done" /\ reply'[r] \in {"conflict", "notfound"}
        /\ revisions' = revisions /\ pc[r] = "write"
    BY <1>3 DEF VersionConflict, DeleteNotFound, Answer, HistoryInv, TypeOK, tables
  <2>2. OwnRevision(r)' /\ ~WroteRevision(r)'
    BY <2>1, NothingWritten DEF WroteRevision, OwnRevision
  <2> QED
    BY <2>1, <2>2 DEF OneAnswer, Stored, Told
<1>4. CASE SoftDelete(r)
  <2>1. PICK i \in Ids : i = subject[r] /\ i = subject'[r]
    BY <1>4 DEF SoftDelete, HistoryInv, HandlerShape, locals
  <2>2. /\ pc[r] = "write" /\ op'[r] = "delete" /\ revisions' = revisions
        /\ decisions[i] # None
        /\ decisions' = [decisions EXCEPT ![i].deleted = TRUE]
    BY <1>4, <2>1 DEF SoftDelete, Live, locals
  <2>3. decisions[i] \in Row
    BY <2>2 DEF HistoryInv, TypeOK
  <2>4. Removed(i)'
    BY <2>2, <2>3 DEF Removed, RowsGrow, HistoryInv, TypeOK, Row
  <2>5. OwnRevision(r)' /\ ~WroteRevision(r)'
    BY <2>2, NothingWritten DEF WroteRevision, OwnRevision
  <2>6. reply[r] = "none"
    BY <2>2 DEF OneAnswer, Stored
  <2>7. \/ pc'[r] = "audit" /\ reply'[r] = "none"
        \/ pc'[r] = "done" /\ reply'[r] = "failed"
    BY <1>4, <2>6 DEF SoftDelete, Committed, Goto, Answer, HistoryInv, TypeOK
  <2>8. Stored(r)'
    BY <2>1, <2>2, <2>4, <2>7 DEF Stored, IsWriter, Writers
  <2>9. Told(r)'
    BY <2>7 DEF Told
  <2> QED
    BY <2>5, <2>8, <2>9 DEF OneAnswer
<1> QED
  BY <1>1, <1>2, <1>3, <1>4 DEF Transact

\* An answer of 500 promises nothing.
LEMMA FailedAnswer ==
    ASSUME NEW r \in Requests, OwnRevision(r)', pc'[r] = "done", reply'[r] = "failed"
    PROVE  OneAnswer(r)'
  BY DEF OneAnswer, Stored, Told

\* What a request knows to be stored it also knows without its locals moving.
LEMMA OwnRevisionStays ==
    ASSUME NEW r \in Requests, OwnRevision(r), revisions' = revisions, SameLocals(r)
    PROVE  OwnRevision(r)'
  BY DEF OwnRevision, IsWriter, SameLocals

\* The audit row is appended, or not, and the handler goes on to the answer.
LEMMA AuditAnswer ==
    ASSUME HistoryInv, NEW r \in Requests, OneAnswer(r),
           AppendAudit(r) \/ AuditFails(r)
    PROVE  OneAnswer(r)'
<1>1. /\ pc[r] = "audit" /\ UNCHANGED <<decisions, revisions, locals>>
      /\ SameLocals(r)
  BY DEF AppendAudit, AuditFails, locals, SameLocals
<1>2. OwnRevision(r)'
  BY <1>1, OwnRevisionStays DEF OneAnswer
<1>3. CASE op[r] # "delete" /\ Goto(r, "reload")
  <2>1. pc'[r] = "reload" /\ reply'[r] = "none"
    BY <1>1, <1>3 DEF Goto, OneAnswer, Stored, HistoryInv, TypeOK
  <2>2. Told(r)'
    BY <2>1 DEF Told
  <2>3. RevisionOf(r, subject[r])' = RevisionOf(r, subject[r])
    BY <1>1 DEF RevisionOf, SameLocals, locals
  <2>4. IsWriter(r) => RevisionOf(r, subject[r]) \in revisions
    BY <1>1 DEF OneAnswer, Stored
  <2>5. IsWriter(r)' <=> IsWriter(r)
    BY <1>1 DEF IsWriter, SameLocals
  <2>6. Stored(r)'
    BY <1>1, <1>3, <2>1, <2>3, <2>4, <2>5 DEF Stored, SameLocals
  <2> QED
    BY <1>2, <2>2, <2>6 DEF OneAnswer
<1>4. CASE op[r] = "delete" /\ Answer(r, "ok")
  <2>1. pc'[r] = "done" /\ reply'[r] = "ok"
    BY <1>4 DEF Answer, HistoryInv, TypeOK
  <2>2. PICK i : i = subject[r] /\ i = subject'[r]
    BY <1>1 DEF SameLocals
  <2>3. Removed(i)'
    BY <1>1, <1>4, <2>2 DEF OneAnswer, Stored, Removed
  <2>4. op'[r] = "delete"
    BY <1>1, <1>4 DEF SameLocals
  <2>5. Told(r)'
    BY <2>1, <2>2, <2>3, <2>4 DEF Told, IsWriter
  <2>6. Stored(r)'
    BY <2>1 DEF Stored
  <2> QED
    BY <1>2, <2>5, <2>6 DEF OneAnswer
<1>5. CASE Answer(r, "failed")
  <2>1. pc'[r] = "done" /\ reply'[r] = "failed"
    BY <1>5 DEF Answer, HistoryInv, TypeOK
  <2> QED
    BY <1>2, <2>1, FailedAnswer
<1> QED
  BY <1>3, <1>4, <1>5 DEF AppendAudit, AuditFails

\* The row read for the answer is at least as new as the request's own version,
\* and only a deletion can have hidden it.
LEMMA ReloadAnswer ==
    ASSUME HistoryInv, NEW r \in Requests, OneAnswer(r), Reload(r)
    PROVE  OneAnswer(r)'
<1>1. PICK i \in Ids : i = subject[r]
  BY DEF Reload, HistoryInv, HandlerShape
<1>2. /\ pc[r] = "reload" /\ UNCHANGED <<decisions, revisions>>
      /\ SameLocals(r) /\ i = subject'[r] /\ op[r] # "delete" /\ reply[r] = "none"
  BY <1>1 DEF Reload, tables, locals, SameLocals, OneAnswer, Stored
<1>3. OwnRevision(r)'
  BY <1>2, OwnRevisionStays DEF OneAnswer
<1>4. CASE Live(i)
  <2>1. /\ pc'[r] = "history" /\ reply'[r] = "none"
        /\ shown'[r].version = decisions[i].version
    BY <1>1, <1>2, <1>4 DEF Reload, Goto, HistoryInv, TypeOK
  <2>2. decisions[i] # None /\ decisions[i].version \in Nat
    BY <1>4 DEF Live, HistoryInv, TypeOK, Row
  <2>3. ASSUME IsWriter(r)
        PROVE  current[r].version \in 1..decisions[i].version
    <3>1. RevisionOf(r, i) \in revisions
      BY <1>1, <1>2, <2>3 DEF OneAnswer, Stored
    <3>2. RevisionOf(r, i).version = current[r].version /\ RevisionOf(r, i).decision = i
      BY DEF RevisionOf
    <3> QED
      BY <3>1, <3>2 DEF HistoryInv, RevisionsInRange
  <2>4. IsWriter(r)' <=> IsWriter(r)
    BY <1>2 DEF IsWriter, SameLocals
  <2>5. RevisionOf(r, i)' = RevisionOf(r, i)
    BY <1>2 DEF RevisionOf, SameLocals
  <2>6. IsWriter(r) => RevisionOf(r, i) \in revisions
    BY <1>1, <1>2 DEF OneAnswer, Stored
  <2>7. IsWriter(r)' => RevisionOf(r, subject[r])' \in revisions'
    BY <1>2, <2>4, <2>5, <2>6 DEF RevisionOf
  <2>8. Stored(r)'
    BY <1>2, <2>1, <2>2, <2>3, <2>4, <2>7 DEF Stored, SameLocals
  <2>9. Told(r)'
    BY <2>1 DEF Told
  <2> QED
    BY <1>3, <2>8, <2>9 DEF OneAnswer
<1>5. CASE ~Live(i)
  <2>1. pc'[r] = "done" /\ reply'[r] = "notfound"
    BY <1>1, <1>5 DEF Reload, Answer, HistoryInv, TypeOK
  <2>2. WroteRevision(r)' => Removed(i)'
    BY <1>1, <1>2, <1>5 DEF WroteRevision, Removed, Live, OneAnswer, OwnRevision,
                            HistoryInv, RevisionsInRange
  <2>3. Told(r)'
    BY <1>2, <2>1, <2>2 DEF Told
  <2>4. Stored(r)'
    BY <2>1 DEF Stored
  <2> QED
    BY <1>3, <2>3, <2>4 DEF OneAnswer
<1> QED
  BY <1>4, <1>5

\* The revisions read after the row lack none of the row's versions.
LEMMA PreloadAnswer ==
    ASSUME HistoryInv, NEW r \in Requests, OneAnswer(r), PreloadRevisions(r)
    PROVE  OneAnswer(r)'
<1>1. PICK i \in Ids : i = subject[r]
  BY DEF PreloadRevisions, HistoryInv, HandlerShape
<1>2. /\ pc[r] = "history" /\ revisions' = revisions /\ SameLocals(r)
      /\ op[r] # "delete"
      /\ decisions[i] # None /\ shown[r].version <= decisions[i].version
      /\ IsWriter(r) => current[r].version \in 1..shown[r].version
      /\ IsWriter(r) => RevisionOf(r, i) \in revisions
  BY <1>1 DEF PreloadRevisions, tables, locals, SameLocals, OneAnswer, Stored
<1>3. OwnRevision(r)'
  BY <1>2, OwnRevisionStays DEF OneAnswer
<1>4. /\ pc'[r] = "done" /\ reply'[r] = "ok"
      /\ shown'[r].version = shown[r].version
      /\ shown'[r].history = VersionsOf(i)
  BY <1>1 DEF PreloadRevisions, Answer, HistoryInv, TypeOK
<1>5. shown[r].version \in Nat /\ decisions[i].version \in Nat
  BY <1>2 DEF HistoryInv, TypeOK, Row
<1>6. 1..shown[r].version \subseteq VersionsOf(i)
  <2>1. ASSUME NEW v \in 1..shown[r].version
        PROVE  \E rev \in revisions : rev.decision = i /\ rev.version = v
    <3>1. v \in 1..decisions[i].version
      BY <1>2, <1>5
    <3> QED
      BY <1>2, <3>1 DEF HistoryInv, NoVersionMissing
  <2> QED
    BY <2>1 DEF VersionsOf
<1>7. IsWriter(r)' <=> IsWriter(r)
  BY <1>2 DEF IsWriter, SameLocals
<1>8. IsWriter(r) => WroteRevision(r)'
  <2>1. RevisionOf(r, i).actor = r
    BY DEF RevisionOf
  <2> QED
    BY <1>2, <2>1 DEF WroteRevision
<1>9. Told(r)'
  BY <1>2, <1>4, <1>6, <1>7, <1>8 DEF Told, SameLocals
<1>10. Stored(r)'
  BY <1>4 DEF Stored
<1> QED
  BY <1>3, <1>9, <1>10 DEF OneAnswer

\* The steps after the transaction keep the answer true.
LEMMA FollowupAnswer ==
    ASSUME HistoryInv, NEW r \in Requests, OneAnswer(r), Followup(r)
    PROVE  OneAnswer(r)'
<1>1. CASE QueryFails(r)
  <2>1. /\ pc'[r] = "done" /\ reply'[r] = "failed"
        /\ revisions' = revisions /\ SameLocals(r)
    BY <1>1 DEF QueryFails, Answer, HistoryInv, TypeOK, tables, locals, SameLocals
  <2> QED
    BY <2>1, OwnRevisionStays, FailedAnswer DEF OneAnswer
<1>2. CASE TransactionFails(r)
  <2>1. /\ pc[r] = "write" /\ pc'[r] = "done" /\ reply'[r] = "failed"
        /\ revisions' = revisions
    BY <1>2 DEF TransactionFails, Answer, HistoryInv, TypeOK, tables
  <2>2. OwnRevision(r)'
    BY <2>1, NothingWritten DEF WroteRevision, OwnRevision
  <2> QED
    BY <2>1, <2>2, FailedAnswer
<1> QED
  BY <1>1, <1>2, AuditAnswer, ReloadAnswer, PreloadAnswer DEF Followup

\* After a crash the requests that were under way have failed.
LEMMA CrashAnswer ==
    ASSUME HistoryInv, RowsGrow, RevisionsGrow, Crash, NEW r \in Requests,
           OneAnswer(r)
    PROVE  OneAnswer(r)'
<1>1. revisions' = revisions
  BY DEF Crash, tables
<1>2. CASE pc[r] \in {"idle", "done"}
  <2>1. Unmoved(r)
    BY <1>2 DEF Crash, Forget, HistoryInv, TypeOK, Unmoved
  <2> QED
    BY <1>1, <2>1, UnmovedAnswer
<1>3. CASE pc[r] = "write"
  <2>1. pc'[r] = "done" /\ reply'[r] = "failed"
    BY <1>3 DEF Crash, HistoryInv, TypeOK
  <2>2. OwnRevision(r)'
    BY <1>1, <1>3, NothingWritten DEF WroteRevision, OwnRevision
  <2> QED
    BY <2>1, <2>2, FailedAnswer
<1>4. CASE pc[r] \in {"audit", "reload", "history"}
  <2>1. pc'[r] = "done" /\ reply'[r] = "failed" /\ SameLocals(r)
    BY <1>4 DEF Crash, Forget, HistoryInv, TypeOK, SameLocals
  <2> QED
    BY <1>1, <2>1, OwnRevisionStays, FailedAnswer DEF OneAnswer
<1> QED
  BY <1>2, <1>3, <1>4 DEF HistoryInv, TypeOK

-----------------------------------------------------------------------------
(* The answers of all requests                                             *)

\* No request has been answered, and no revision has a request as its author.
LEMMA AnswerInit == Init => AnswerInv
<1> SUFFICES ASSUME Init, NEW r \in Requests PROVE OneAnswer(r)
  BY DEF AnswerInv, OneAnswer
<1>1. pc[r] = "idle" /\ reply[r] = "none"
  BY DEF Init
<1>2. ASSUME NEW rev \in revisions PROVE rev.actor # r
  BY ConstantsAssumption DEF Init, ConstantsAssumption
<1> QED
  BY <1>1, <1>2 DEF OneAnswer, OwnRevision, Stored, Told, WroteRevision

\* Every step keeps every request's answer true.
LEMMA AnswerStep ==
    ASSUME HistoryInv, AnswerInv, [Next]_vars
    PROVE  AnswerInv'
<1>1. RowsGrow /\ RevisionsGrow
  BY TablesGrow
<1>2. SUFFICES ASSUME NEW r \in Requests PROVE OneAnswer(r)'
  BY DEF AnswerInv, OneAnswer
<1>3. OneAnswer(r)
  BY DEF AnswerInv, OneAnswer
<1>4. ASSUME Step(r) PROVE OneAnswer(r)'
  BY <1>1, <1>3, <1>4, StepPhases, ArrivalAnswer, TransactAnswer, FollowupAnswer
<1>5. ASSUME NEW q \in Requests, q # r, Step(q) PROVE OneAnswer(r)'
  <2>1. Unmoved(r)
    BY <1>5, StepOfOne DEF HistoryInv
  <2>2. \A rev \in revisions' \ revisions : rev.actor # r
    <3>1. CASE CreateWithRevision(q) \/ UpdateWithRevision(q)
      BY <1>5, <3>1 DEF CreateWithRevision, UpdateWithRevision, RevisionOf
    <3>2. CASE ~CreateWithRevision(q) /\ ~UpdateWithRevision(q)
      BY <1>5, <3>2, StepWritesLittle DEF SoftDelete, HistoryInv
    <3> QED
      BY <3>1, <3>2
  <2> QED
    BY <1>1, <1>3, <2>1, <2>2, UnmovedAnswer
<1>6. CASE Crash
  BY <1>1, <1>3, <1>6, CrashAnswer
<1>7. CASE UNCHANGED vars
  <2>1. Unmoved(r) /\ revisions' = revisions
    BY <1>7 DEF vars, Unmoved
  <2> QED
    BY <1>1, <1>3, <2>1, UnmovedAnswer
<1> QED
  BY <1>4, <1>5, <1>6, <1>7 DEF Next

\* The inductive invariant of the answers, for every Foresight.
THEOREM AnswerInvariant == Spec => [](HistoryInv /\ AnswerInv)
  BY HistoryInvInit, HistoryInvStep, AnswerInit, AnswerStep, PTL DEF Spec

\* A client may rely on its answer, whatever races, failures and crashes there
\* were: success is stored, a rejection or conflict is not, and a 404 after a
\* stored write means that the decision has been deleted.
THEOREM AnswersAreTruthful == Spec => []RepliesTruthful
<1>1. HistoryInv /\ AnswerInv => RepliesTruthful
  BY DEF AnswerInv, Told, RepliesTruthful, Removed
<1> QED
  BY <1>1, AnswerInvariant, PTL

\* A successful response has every revision up to the row it shows, and shows
\* at least what its own request stored.
THEOREM ResponsesAreExplained == Spec => []ResponseExplained
<1>1. HistoryInv /\ AnswerInv => ResponseExplained
  BY DEF AnswerInv, Told, ResponseExplained
<1> QED
  BY <1>1, AnswerInvariant, PTL

-----------------------------------------------------------------------------
(* Conflicts and audit rows, for clients without foresight                 *)

\* A request that is refused for its version lost it to another request or to a
\* deletion: it named no version beyond the row it had read.
LEMMA ConflictTaken ==
    ASSUME SafetyInv, NEW r \in Requests, VersionConflict(r)
    PROVE  Taken(r)'
<1> USE DEF SafetyInv, HistoryInv
<1>1. PICK i \in Ids : i = subject[r] /\ decisions[i] # None
  BY DEF VersionConflict, HandlerShape
<1>2. /\ UNCHANGED <<decisions, revisions>> /\ i = subject'[r]
      /\ current'[r] = current[r] /\ pc[r] = "write" /\ op[r] \in Writers
  BY <1>1 DEF VersionConflict, tables, locals, Writers
<1>3. CASE decisions[i].deleted
  BY <1>1, <1>2, <1>3 DEF Taken, Removed
<1>4. CASE ~decisions[i].deleted
  <2>1. /\ decisions[i].version \in Nat
        /\ current[r] \in Row /\ current[r].version > 1
        /\ read[r] \in Row
    BY <1>1, <1>2 DEF TypeOK, Row, HandlerShape, ChangePlanned
  <2>2. decisions[i].version + 1 # current[r].version
    BY <1>1, <1>4 DEF VersionConflict, RowMatches, Live
  <2>3. /\ current[r].version <= read[r].version + 1
        /\ read[r].version <= decisions[i].version
    BY <1>1, <1>2 DEF ReadIsStale
  <2>4. current[r].version \in 1..decisions[i].version
    BY <2>1, <2>2, <2>3 DEF Row
  <2>5. PICK rev \in revisions : rev.decision = i /\ rev.version = current[r].version
    BY <1>1, <2>4 DEF NoVersionMissing
  <2>6. rev.actor # r
    BY <1>2 DEF AuthorsPastWrite
  <2> QED
    BY <1>2, <2>5, <2>6 DEF Taken
<1> QED
  BY <1>3, <1>4

\* An answered request takes no further step.
LEMMA DoneUnmoved ==
    ASSUME TypeOK, [Next]_vars, NEW r \in Requests, pc[r] = "done"
    PROVE  Unmoved(r)
<1>1. ~Step(r)
  BY DEF Step, Refuse, Create, Update, Transition, Delete, BusinessRule, Read,
         Missing, Enter, CreateWithRevision, UpdateWithRevision, VersionConflict,
         SoftDelete, DeleteNotFound, AppendAudit, AuditFails, Reload,
         PreloadRevisions, TransactionFails, QueryFails
<1>2. CASE Crash
  BY <1>2 DEF Crash, Forget, TypeOK, Unmoved
<1>3. CASE UNCHANGED vars
  BY <1>3 DEF vars, Unmoved
<1> QED
  BY <1>1, <1>2, <1>3, StepOfOne DEF Next

\* What was taken stays taken.
LEMMA TakenStays ==
    ASSUME RowsGrow, RevisionsGrow, NEW r \in Requests, Taken(r), Unmoved(r)
    PROVE  Taken(r)'
<1>1. PICK i : i = subject[r] /\ i = subject'[r]
  BY DEF Unmoved
<1>2. Removed(i) => Removed(i)'
  BY DEF Removed, RowsGrow
<1>3. current'[r] = current[r] /\ revisions \subseteq revisions'
  BY DEF Unmoved, RevisionsGrow
<1> QED
  BY <1>1, <1>2, <1>3 DEF Taken

\* Only a version conflict is answered with 409.
LEMMA ConflictStep ==
    ASSUME SafetyInv, AnswerInv, [Next]_vars,
           \A r \in Requests : reply[r] = "conflict" => Taken(r),
           NEW r \in Requests, reply'[r] = "conflict"
    PROVE  Taken(r)'
<1>1. RowsGrow /\ RevisionsGrow
  BY TablesGrow DEF SafetyInv
<1>2. CASE pc[r] = "done"
  <2>1. Unmoved(r)
    BY <1>2, DoneUnmoved DEF SafetyInv, HistoryInv
  <2> QED
    BY <1>1, <2>1, TakenStays DEF Unmoved
<1>3. CASE VersionConflict(r)
  BY <1>3, ConflictTaken
<1>4. CASE pc[r] # "done" /\ ~VersionConflict(r)
  <2>1. reply[r] = "none"
    BY <1>4 DEF AnswerInv, Stored
  <2>2. \A q \in Requests \ {r} : ~Step(q)
    BY <2>1, StepOfOne DEF SafetyInv, HistoryInv, Unmoved
  <2>3. ~Crash
    BY <1>4, <2>1 DEF Crash, SafetyInv, HistoryInv, TypeOK
  <2>4. reply' # reply
    BY <2>1
  <2>5. Step(r)
    BY <2>2, <2>3, <2>4 DEF Next, vars
  <2>6. reply'[r] # "conflict"
    <3>1. CASE Arrival(r)
      BY <2>1, <3>1 DEF Arrival, Refuse, Create, Update, Transition, Delete,
                        BusinessRule, Read, Missing, Goto, Answer,
                        SafetyInv, HistoryInv, TypeOK
    <3>2. CASE Transact(r)
      BY <1>4, <2>1, <3>2 DEF Transact, CreateWithRevision, UpdateWithRevision,
                              SoftDelete, DeleteNotFound, Committed, Goto, Answer,
                              SafetyInv, HistoryInv, TypeOK
    <3>3. CASE Followup(r)
      BY <2>1, <3>3 DEF Followup, AppendAudit, AuditFails, Reload, PreloadRevisions,
                        TransactionFails, QueryFails, Goto, Answer,
                        SafetyInv, HistoryInv, TypeOK
    <3> QED
      BY <2>5, <3>1, <3>2, <3>3, StepPhases
  <2> QED
    BY <2>6
<1> QED
  BY <1>2, <1>3, <1>4

\* What the audit row of a write owes to the revisions.
RowTruthful(a) ==
    \E new \in revisions :
        /\ new.actor = a.request
        /\ new.decision = a.decision
        /\ new.state = a.after
        /\ IF new.version = 1 THEN a.before = ""
           ELSE \E old \in revisions :
                    /\ old.decision = new.decision
                    /\ old.version + 1 = new.version
                    /\ old.state = a.before

\* The audit row a handler is about to append is true: the row it had read is
\* the version before the one it stored.
LEMMA AuditOfTruthful ==
    ASSUME SafetyInv, AnswerInv, NEW r \in Requests, pc[r] = "audit",
           op[r] # "delete"
    PROVE  RowTruthful(AuditOf(r))
<1> USE DEF SafetyInv, HistoryInv
<1> DEFINE a == AuditOf(r)
           i == subject[r]
           new == RevisionOf(r, i)
<1>1. /\ op[r] \in {"create", "update", "transition"}
      /\ i \in Ids /\ current[r] \in Row
      /\ read[r] = None \/ read[r] \in Row
  BY DEF HandlerShape, TypeOK
<1>2. new \in revisions
  BY <1>1 DEF AnswerInv, Stored, IsWriter
<1>3. /\ op[r] = "create" => read[r] = None /\ current[r].version = 1
      /\ op[r] \in Writers => read[r] # None /\ current[r].version > 1
  BY DEF AnswerInv, Stored
<1>4. /\ new.actor = r /\ new.decision = i /\ new.version = current[r].version
      /\ new.state = current[r].status
  BY DEF RevisionOf
<1>5. /\ a.request = r /\ a.decision = i /\ a.after = current[r].status
      /\ read[r] = None => a.before = ""
      /\ read[r] # None => a.before = read[r].status
  BY <1>1 DEF AuditOf
<1> HIDE DEF a, i, new
<1>6. CASE op[r] = "create"
  <2>1. new.version = 1 /\ a.before = ""
    BY <1>3, <1>4, <1>5, <1>6
  <2> QED
    BY <1>2, <1>4, <1>5, <2>1 DEF RowTruthful, a
<1>7. CASE op[r] \in Writers
  <2>1. read[r] # None /\ new.version \in Nat /\ new.version > 1
    BY <1>1, <1>3, <1>4, <1>7 DEF Row
  <2>2. decisions[i] # None /\ new.version \in 1..decisions[i].version
    BY <1>2, <1>4 DEF RevisionsInRange
  <2>3. decisions[i].version \in Nat
    BY <1>1, <2>2 DEF TypeOK, Row
  <2>4. new.version - 1 \in 1..decisions[i].version
    BY <2>1, <2>2, <2>3
  <2>5. PICK old \in revisions : old.decision = i /\ old.version = new.version - 1
    BY <1>1, <2>2, <2>4 DEF NoVersionMissing
  <2>6. new.version = old.version + 1
    BY <2>1, <2>5
  <2>7. read[r].status = old.state
    BY <1>2, <1>4, <2>5, <2>6 DEF NoLostUpdate
  <2>8. a.before = read[r].status
    BY <1>5, <2>1
  <2>9. \E earlier \in revisions : /\ earlier.decision = new.decision
                                    /\ earlier.version + 1 = new.version
                                    /\ earlier.state = a.before
    <3>1. old.state = a.before
      BY <2>7, <2>8
    <3> QED
      BY <1>4, <2>5, <2>6, <3>1
  <2>10. new.version # 1
    BY <2>1
  <2>11. new.state = a.after /\ new.actor = a.request /\ new.decision = a.decision
    BY <1>4, <1>5
  <2>12. RowTruthful(a)
    BY <1>2, <2>9, <2>10, <2>11 DEF RowTruthful
  <2> QED
    BY <2>12 DEF a
<1> QED
  BY <1>1, <1>6, <1>7 DEF Writers

\* Revisions are never taken away from under an audit row.
LEMMA RowTruthfulStays ==
    ASSUME RevisionsGrow, NEW a, RowTruthful(a)
    PROVE  RowTruthful(a)'
  BY DEF RowTruthful, RevisionsGrow

\* What the audit row of a deletion owes to the tables.
DeletionTruthful(a) ==
    /\ Removed(a.decision)
    /\ \E seen \in revisions :
          /\ seen.decision = a.decision
          /\ seen.version = read[a.request].version
          /\ seen.state = a.before

\* A deleted decision stays deleted, and an answered request keeps what it read.
LEMMA DeletionTruthfulStays ==
    ASSUME RowsGrow, RevisionsGrow, NEW a, DeletionTruthful(a),
           read'[a.request] = read[a.request]
    PROVE  DeletionTruthful(a)'
<1>1. Removed(a.decision)'
  BY DEF DeletionTruthful, Removed, RowsGrow
<1> QED
  BY <1>1 DEF DeletionTruthful, RevisionsGrow

\* AuditTruthful is this of every audit row.
LEMMA AuditRowsTruthful ==
    ASSUME HistoryInv
    PROVE  AuditTruthful <=> \A a \in audits :
              IF a.action = "delete" THEN DeletionTruthful(a) ELSE RowTruthful(a)
<1>1. ASSUME NEW a \in audits
      PROVE  a.decision \in Ids
  BY DEF HistoryInv, TypeOK, AuditRow
<1>2. \A rev \in revisions : decisions[rev.decision] # None
  BY DEF HistoryInv, RevisionsInRange
<1> QED
  BY <1>1, <1>2 DEF AuditTruthful, DeletionTruthful, RowTruthful, Removed

\* Only a request at its audit appends an audit row, its own.
LEMMA AppendedAudit ==
    ASSUME [Next]_vars, NEW a \in audits', a \notin audits
    PROVE  \E q \in Requests :
              /\ AppendAudit(q) \/ AuditFails(q)
              /\ a = AuditOf(q) /\ pc[q] = "audit" /\ UNCHANGED <<decisions, revisions, read>>
<1>1. PICK q \in Requests : AppendAudit(q) \/ AuditFails(q)
  <2>1. CASE UNCHANGED vars
    BY <2>1 DEF vars
  <2>2. CASE Crash
    BY <2>2 DEF Crash, tables
  <2>3. ASSUME NEW q \in Requests, Step(q), ~AppendAudit(q), ~AuditFails(q)
        PROVE  FALSE
    BY <2>3 DEF Step, Refuse, Create, Update, Transition, Delete,
          BusinessRule, Read, Missing, Enter, CreateWithRevision,
          UpdateWithRevision, VersionConflict, SoftDelete, DeleteNotFound,
          Reload, PreloadRevisions, TransactionFails, QueryFails, tables
  <2> QED
    BY <2>1, <2>2, <2>3 DEF Next
<1> QED
  BY <1>1 DEF AppendAudit, AuditFails, locals

\* A request that stands still has still read that revision.
LEMMA ReadRevisionStays ==
    ASSUME RevisionsGrow, NEW r \in Requests, ReadRevision(r),
           read'[r] = read[r], subject'[r] = subject[r]
    PROVE  ReadRevision(r)'
  BY DEF ReadRevision, RevisionsGrow

\* Delete has read the newest version, which has a revision.
LEMMA DeleteReads ==
    ASSUME SafetyInv, NEW r \in Requests, Delete(r)
    PROVE  read'[r] # None /\ ReadRevision(r)'
<1> USE DEF SafetyInv, HistoryInv
<1>1. PICK i \in Ids : Live(i) /\ Enter(r, "delete", i, decisions[i], decisions[i])
  BY DEF Delete
<1>2. /\ decisions[i] # None /\ decisions[i] \in Row /\ revisions' = revisions
      /\ subject'[r] = i /\ read'[r] = decisions[i]
  BY <1>1 DEF Live, Enter, tables, TypeOK
<1>3. decisions[i].version \in Nat /\ decisions[i].version > 0
  BY <1>2 DEF NoVersionMissing, Row
<1>4. PICK seen \in revisions : seen.decision = i /\ seen.version = decisions[i].version
  BY <1>2, <1>3 DEF NoVersionMissing
<1>5. seen.state = decisions[i].status
  BY <1>4 DEF RevisionsKeyed
<1> QED
  BY <1>2, <1>4, <1>5 DEF ReadRevision

\* No step takes from a deletion what it has read.
LEMMA DeletionsReadStep ==
    ASSUME SafetyInv, DeletionsRead, [Next]_vars
    PROVE  DeletionsRead'
<1> USE DEF SafetyInv, HistoryInv
<1>1. RowsGrow /\ RevisionsGrow
  BY TablesGrow
<1>2. ASSUME NEW r \in Requests, pc'[r] \in {"write", "audit"}, op'[r] = "delete"
      PROVE  read'[r] # None /\ ReadRevision(r)'
  <2>1. CASE Unmoved(r)
    BY <1>1, <1>2, <2>1, ReadRevisionStays DEF Unmoved, DeletionsRead
  <2>2. CASE Delete(r)
    BY <2>2, DeleteReads
  <2>3. CASE SoftDelete(r)
    <3>1. pc[r] = "write" /\ op[r] = "delete" /\ read' = read /\ subject' = subject
      BY <2>3 DEF SoftDelete, locals
    <3> QED
      BY <1>1, <3>1, ReadRevisionStays DEF DeletionsRead
  <2>4. CASE Crash
    BY <1>2, <2>4 DEF Crash, TypeOK
  <2>5. CASE Step(r) /\ ~Delete(r) /\ ~SoftDelete(r)
    <3>1. CASE Arrival(r)
      BY <1>2, <2>5, <3>1 DEF Arrival, Refuse, Create, Update, Transition, BusinessRule,
            Read, Missing, Enter, Goto, Answer, TypeOK
    <3>2. CASE Transact(r)
      BY <1>2, <2>5, <3>2 DEF Transact, CreateWithRevision, UpdateWithRevision,
            VersionConflict, DeleteNotFound, Goto, Answer, locals, TypeOK
    <3>3. CASE Followup(r)
      BY <1>2, <3>3 DEF Followup, AppendAudit, AuditFails, Reload, PreloadRevisions,
            TransactionFails, QueryFails, Goto, Answer, TypeOK
    <3> QED
      BY <2>5, <3>1, <3>2, <3>3, StepPhases
  <2>6. CASE UNCHANGED vars
    BY <2>1, <2>6 DEF vars, Unmoved
  <2> QED
    BY <2>1, <2>2, <2>3, <2>4, <2>5, <2>6, StepOfOne DEF Next
<1>3. ASSUME NEW a \in audits', a.action = "delete"
      PROVE  pc'[a.request] = "done"
  <2>1. CASE a \in audits
    <3>1. a.request \in Requests /\ pc[a.request] = "done"
      BY <1>3, <2>1 DEF DeletionsRead, TypeOK, AuditRow
    <3> QED
      BY <3>1, DoneUnmoved DEF Unmoved
  <2>2. CASE a \notin audits
    <3>1. PICK q \in Requests : (AppendAudit(q) \/ AuditFails(q)) /\ a = AuditOf(q)
      BY <2>2, AppendedAudit
    <3>2. a.request = q /\ op[q] = "delete"
      BY <1>3, <3>1 DEF AuditOf
    <3> QED
      BY <3>1, <3>2 DEF AppendAudit, AuditFails, Answer, TypeOK
  <2> QED
    BY <2>1, <2>2
<1> QED
  BY <1>2, <1>3 DEF DeletionsRead

\* Every audit row appended is true, and stays so.
LEMMA AuditStep ==
    ASSUME SafetyInv, AnswerInv, DeletionsRead, AuditTruthful, [Next]_vars
    PROVE  AuditTruthful'
<1> USE DEF SafetyInv, HistoryInv
<1>1. RowsGrow /\ RevisionsGrow /\ TypeOK'
  BY TablesGrow, HistoryInvStep
<1>2. ASSUME NEW a \in audits', a.action = "delete"
      PROVE  DeletionTruthful(a)'
  <2>1. CASE a \in audits
    <3>1. a.request \in Requests /\ pc[a.request] = "done" /\ DeletionTruthful(a)
      BY <1>2, <2>1, AuditRowsTruthful DEF DeletionsRead, TypeOK, AuditRow
    <3>2. read'[a.request] = read[a.request]
      BY <3>1, DoneUnmoved DEF Unmoved
    <3> QED
      BY <1>1, <3>1, <3>2, DeletionTruthfulStays
  <2>2. CASE a \notin audits
    <3>1. PICK q \in Requests :
            a = AuditOf(q) /\ pc[q] = "audit" /\ UNCHANGED <<decisions, revisions, read>>
      BY <2>2, AppendedAudit
    <3>2. /\ op[q] = "delete" /\ a.request = q /\ a.decision = subject[q]
          /\ read[q] # None => a.before = read[q].status
      BY <1>2, <3>1 DEF AuditOf
    <3>3. Removed(subject[q]) /\ read[q] # None /\ ReadRevision(q)
      BY <3>1, <3>2 DEF AnswerInv, Stored, DeletionsRead
    <3>4. DeletionTruthful(a)
      BY <3>2, <3>3 DEF DeletionTruthful, ReadRevision
    <3> QED
      BY <1>1, <3>1, <3>4, DeletionTruthfulStays
  <2> QED
    BY <2>1, <2>2
<1>3. ASSUME NEW a \in audits', a.action # "delete"
      PROVE  RowTruthful(a)'
  <2>1. CASE a \in audits
    BY <1>1, <1>3, <2>1, AuditRowsTruthful, RowTruthfulStays
  <2>2. CASE a \notin audits
    <3>1. PICK q \in Requests : a = AuditOf(q) /\ pc[q] = "audit"
      BY <2>2, AppendedAudit
    <3>2. op[q] # "delete"
      BY <1>3, <3>1 DEF AuditOf
    <3> QED
      BY <1>1, <3>1, <3>2, AuditOfTruthful, RowTruthfulStays
  <2> QED
    BY <2>1, <2>2
<1>4. ASSUME NEW a \in audits'
      PROVE  a.decision \in Ids
  BY <1>1 DEF TypeOK, AuditRow
<1> QED
  BY <1>2, <1>3, <1>4 DEF AuditTruthful, DeletionTruthful, RowTruthful, Removed

\* Nothing has been refused or audited yet.
LEMMA EvidenceInit == Init => EvidenceInv
  BY DEF Init, EvidenceInv, DeletionsRead, AuditTruthful

\* With clients that send only versions they were shown, every refusal and every
\* audit row has its evidence in the tables.
THEOREM EvidenceInvariant ==
    ASSUME Foresight = 0
    PROVE  Spec => [](SafetyInv /\ AnswerInv /\ EvidenceInv)
<1>1. ASSUME SafetyInv, AnswerInv, EvidenceInv, [Next]_vars
      PROVE  EvidenceInv'
  BY <1>1, ConflictStep, DeletionsReadStep, AuditStep DEF EvidenceInv
<1>2. SafetyInv => HistoryInv
  BY DEF SafetyInv
<1> QED
  BY <1>1, <1>2, SafetyInit, SafetyStep, AnswerInit, AnswerStep, EvidenceInit, PTL
  DEF Spec

\* 409 is honest: the version went to another request or the decision is gone.
THEOREM ConflictsAreJustified ==
    ASSUME Foresight = 0
    PROVE  Spec => []ConflictJustified
<1>1. EvidenceInv => ConflictJustified
  BY DEF EvidenceInv, Taken, Removed, ConflictJustified
<1> QED
  BY <1>1, EvidenceInvariant, PTL

\* The state before and after in an audit row are those of the versions its
\* request replaced and stored, though others wrote between its two statements.
THEOREM AuditsAreTruthful ==
    ASSUME Foresight = 0
    PROVE  Spec => []AuditTruthful
<1>1. EvidenceInv => AuditTruthful
  BY DEF EvidenceInv
<1> QED
  BY <1>1, EvidenceInvariant, PTL
=============================================================================
