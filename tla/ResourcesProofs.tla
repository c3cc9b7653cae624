--------------------------- MODULE ResourcesProofs ---------------------------
(***************************************************************************)
(* Proofs about Resources, for any number of requests, keys and contents:  *)
(* what a service read before its UPDATE still holds of the row that its   *)
(* WHERE clause matches.  Where a version is decisive, clients send only   *)
(* versions that exist (Foresight = 0).                                    *)
(***************************************************************************)
EXTENDS Resources, TLAPS

JobType == [op : Changes, entity : Entities, item : Ids \cup {None}]

AuditType ==
    [action : Changes, entity : Entities, item : Ids, before : Statuses \cup {""},
     after : Statuses \cup {"deleted"}, request : Requests]

StoredType ==
    [action : Changes, entity : Entities, item : Ids, version : Nat, basis : Nat,
     before : Statuses \cup {""}, after : Statuses \cup {"deleted"}, request : Requests]

ItemsType ==
    /\ items \in [Entities -> [Ids -> Row \cup {None}]]
    /\ \A e \in Entities, i \in Ids :
          items[e][i] # None => items[e][i].status \in StatesOf(e)

HandlerType ==
    /\ pc \in [Requests -> {"idle", "write", "audit", "reload", "done"}]
    /\ job \in [Requests -> JobType \cup {None}]
    /\ read \in [Requests -> Row \cup {None}]
    /\ current \in [Requests -> Row \cup {None}]

LEMMA TypeParts ==
    TypeOK <=> ItemsType /\ HandlerType /\ audits \subseteq AuditType /\ stored \subseteq StoredType
BY DEF TypeOK, ItemsType, HandlerType, JobType, AuditType, StoredType

LEMMA TypePartsNext ==
    TypeOK' <=> /\ ItemsType' /\ HandlerType'
                /\ audits' \subseteq AuditType /\ stored' \subseteq StoredType
BY DEF TypeOK, ItemsType, HandlerType, JobType, AuditType, StoredType

\* The three ways a service or the database edits a row.
Edited(row, c, n) == [row EXCEPT !.content = c, !.version = n]
Moved(row, s, n) == [row EXCEPT !.status = s, !.version = n]
Deleted(row) == [row EXCEPT !.deleted = TRUE]

LEMMA RowEdits ==
    /\ \A row \in Row, c \in Contents, n \in Nat :
          /\ Edited(row, c, n) \in Row /\ Edited(row, c, n).status = row.status
          /\ Edited(row, c, n).version = n /\ Edited(row, c, n).deleted = row.deleted
    /\ \A row \in Row, s \in Statuses, n \in Nat :
          /\ Moved(row, s, n) \in Row /\ Moved(row, s, n).status = s
          /\ Moved(row, s, n).version = n /\ Moved(row, s, n).deleted = row.deleted
          /\ Moved(row, s, n).content = row.content
    /\ \A row \in Row :
          /\ Deleted(row) \in Row /\ Deleted(row).deleted
          /\ Deleted(row).version = row.version
          /\ Deleted(row).status = row.status /\ Deleted(row).content = row.content
BY DEF Row, Edited, Moved, Deleted

LEMMA EntityFacts ==
    /\ \A e \in Entities : StatesOf(e) \subseteq Statuses
    /\ \A e \in Entities, s, t \in Statuses :
          CanTransition(GraphOf(e), s, t) => t \in StatesOf(e)
    /\ "standby" \in StatesOf("CaptureUnit")
    /\ "draft" \in StatesOf("PermitRule")
    /\ "collected" \in StatesOf("EmissionSample")
<1>1. \A e \in Entities : StatesOf(e) \subseteq Statuses
  BY DEF Entities, StatesOf, Statuses
<1>2. ASSUME NEW e \in Entities, NEW s \in Statuses, NEW t \in Statuses,
             CanTransition(GraphOf(e), s, t)
      PROVE  t \in StatesOf(e)
  <2>1. CASE e = "CaptureUnit"
    BY <1>2, <2>1 DEF CanTransition, GraphOf, StatesOf, CaptureUnitTransitions, UnitStates
  <2>2. CASE e = "PermitRule"
    BY <1>2, <2>2 DEF CanTransition, GraphOf, StatesOf, PermitRuleTransitions, RuleStates
  <2>3. CASE e = "EmissionSample"
    BY <1>2, <2>3 DEF CanTransition, GraphOf, StatesOf, EmissionSampleTransitions, SampleStates
  <2>4. QED
    BY <2>1, <2>2, <2>3 DEF Entities
<1>3. QED
  BY <1>1, <1>2 DEF StatesOf, UnitStates, RuleStates, SampleStates

-----------------------------------------------------------------------------
(* Types                                                                   *)

\* A request that is about to write or to log has what that takes.
WriteTyped(r) ==
    pc[r] = "write" =>
        /\ job[r] \in JobType
        /\ current[r] \in Row /\ current[r].status \in StatesOf(job[r].entity)
        /\ job[r].op # "create" => job[r].item \in Ids /\ read[r] \in Row

AuditTyped(r) == pc[r] = "audit" => AuditOf(r) \in AuditType

TypeInv == TypeOK /\ \A r \in Requests : WriteTyped(r) /\ AuditTyped(r)

LEMMA InitTypes == Init => TypeInv
<1> SUFFICES ASSUME Init PROVE TypeInv
  OBVIOUS
<1>1. ItemsType
  <2>1. ASSUME NEW e \in Entities, NEW i \in Ids
        PROVE  /\ items[e][i] \in Row \cup {None}
               /\ items[e][i] # None => items[e][i].status \in StatesOf(e)
    BY <2>1, ConstantsAssumption, EntityFacts DEF Init, NewRow, Row
  <2>2. QED
    BY <2>1 DEF ItemsType, Init
<1>2. HandlerType
  BY DEF Init, HandlerType
<1>3. QED
  BY <1>1, <1>2, TypeParts DEF Init, TypeInv, WriteTyped, AuditTyped

\* One request moves and leaves the tables alone.
LEMMA MoveTypes ==
    ASSUME TypeInv, NEW r \in Requests,
           HandlerType', UNCHANGED items, audits' \subseteq AuditType, UNCHANGED stored,
           \A x \in Requests \ {r} :
               \/ pc'[x] = "done"
               \/ pc'[x] = pc[x] /\ job'[x] = job[x] /\ read'[x] = read[x]
                  /\ current'[x] = current[x],
           WriteTyped(r)', AuditTyped(r)'
    PROVE  TypeInv'
<1>1. TypeOK'
  BY TypeParts, TypePartsNext DEF TypeInv, ItemsType
<1>2. ASSUME NEW x \in Requests PROVE WriteTyped(x)' /\ AuditTyped(x)'
  BY <1>2 DEF TypeInv, WriteTyped, AuditTyped, AuditOf
<1>3. QED
  BY <1>1, <1>2 DEF TypeInv

LEMMA EnterTypes ==
    ASSUME TypeInv, NEW r \in Requests, NEW op \in Changes, NEW e \in Entities,
           NEW i \in Ids \cup {None}, NEW row \in Row \cup {None}, NEW next \in Row,
           next.status \in StatesOf(e),
           op # "create" => i \in Ids /\ row \in Row,
           Enter(r, op, e, i, row, next)
    PROVE  TypeInv'
<1>1. HandlerType
  BY TypeParts DEF TypeInv
<1>2. [op |-> op, entity |-> e, item |-> i] \in JobType
  BY DEF JobType
<1>3. HandlerType'
  BY <1>1, <1>2 DEF HandlerType, Enter
<1>4. /\ pc'[r] = "write" /\ job'[r] = [op |-> op, entity |-> e, item |-> i]
      /\ read'[r] = row /\ current'[r] = next
  BY <1>1 DEF HandlerType, Enter
<1>5. WriteTyped(r)' /\ AuditTyped(r)'
  BY <1>2, <1>4 DEF WriteTyped, AuditTyped
<1>6. audits' \subseteq AuditType /\ UNCHANGED <<items, stored>>
  BY TypeParts DEF Enter, TypeInv
<1>7. QED
  BY <1>1, <1>3, <1>5, <1>6, MoveTypes DEF HandlerType, Enter

LEMMA EndMoves ==
    ASSUME HandlerType, NEW ended \in SUBSET Requests, End(ended)
    PROVE  /\ HandlerType'
           /\ \A x \in Requests :
                 \/ pc'[x] = "done" /\ x \in ended
                 \/ pc'[x] = pc[x] /\ job'[x] = job[x] /\ read'[x] = read[x]
                    /\ current'[x] = current[x] /\ x \notin ended
BY DEF HandlerType, End

LEMMA GotoMoves ==
    ASSUME HandlerType, NEW r \in Requests, NEW step \in {"audit", "reload"}, Goto(r, step)
    PROVE  /\ HandlerType'
           /\ pc'[r] = step
           /\ UNCHANGED <<job, read, current>>
           /\ \A x \in Requests \ {r} : pc'[x] = pc[x]
BY DEF HandlerType, Goto

\* Handlers that end, and at most one audit row appended by them.
LEMMA EndTypes ==
    ASSUME TypeInv, NEW ended \in SUBSET Requests, End(ended),
           UNCHANGED <<items, stored>>, audits' \subseteq AuditType
    PROVE  TypeInv'
<1>1. HandlerType
  BY TypeParts DEF TypeInv
<1>2. TypeOK'
  BY <1>1, EndMoves, TypeParts, TypePartsNext DEF TypeInv, ItemsType
<1>3. ASSUME NEW x \in Requests PROVE WriteTyped(x)' /\ AuditTyped(x)'
  BY <1>1, EndMoves DEF TypeInv, WriteTyped, AuditTyped, AuditOf
<1>4. QED
  BY <1>2, <1>3 DEF TypeInv

\* Whose routes, which graph and which initial status.
LEMMA Arrivals ==
    ASSUME NEW r \in Requests,
           CaptureUnits(r) \/ PermitRules(r) \/ EmissionSamples(r)
    PROVE  \E e \in Entities, initial \in Statuses :
              /\ initial \in StatesOf(e)
              /\ \/ Create(r, e, initial) \/ Update(r, e)
                 \/ Transition(r, e, GraphOf(e)) \/ Delete(r, e)
<1>1. CASE CaptureUnits(r)
  <2>1. "standby" \in Statuses /\ "CaptureUnit" \in Entities
           /\ GraphOf("CaptureUnit") = CaptureUnitTransitions
    BY DEF Statuses, UnitStates, Entities, GraphOf
  <2>2. QED
    BY <1>1, <2>1, EntityFacts DEF CaptureUnits, Arrive
<1>2. CASE PermitRules(r)
  <2>1. "draft" \in Statuses /\ "PermitRule" \in Entities
           /\ GraphOf("PermitRule") = PermitRuleTransitions
    BY DEF Statuses, RuleStates, Entities, GraphOf
  <2>2. QED
    BY <1>2, <2>1, EntityFacts DEF PermitRules, Arrive
<1>3. CASE EmissionSamples(r)
  <2>1. "collected" \in Statuses /\ "EmissionSample" \in Entities
           /\ GraphOf("EmissionSample") = EmissionSampleTransitions
    BY DEF Statuses, SampleStates, Entities, GraphOf
  <2>2. QED
    BY <1>3, <2>1, EntityFacts DEF EmissionSamples, Arrive
<1>4. QED
  BY <1>1, <1>2, <1>3

LEMMA ArriveTypes ==
    ASSUME TypeInv, NEW r \in Requests,
           CaptureUnits(r) \/ PermitRules(r) \/ EmissionSamples(r)
    PROVE  TypeInv'
<1>1. PICK e \in Entities, initial \in Statuses :
        /\ initial \in StatesOf(e)
        /\ Create(r, e, initial) \/ Update(r, e) \/ Transition(r, e, GraphOf(e)) \/ Delete(r, e)
  BY Arrivals
<1>2. ASSUME NEW i \in Ids, Live(e, i)
      PROVE  /\ items[e][i] \in Row
             /\ items[e][i].status \in StatesOf(e)
             /\ items[e][i].version \in Nat
  BY <1>2, TypeParts DEF TypeInv, ItemsType, Live, Row
<1>3. CASE Create(r, e, initial)
  <2>1. PICK c \in Contents : Enter(r, "create", e, None, None, NewRow(initial, c))
    BY <1>3 DEF Create
  <2>2. NewRow(initial, c) \in Row /\ NewRow(initial, c).status = initial
    BY DEF NewRow, Row
  <2>3. "create" \in Changes
    BY DEF Changes
  <2>4. QED
    BY <1>1, <2>1, <2>2, <2>3, EnterTypes
<1>4. CASE Update(r, e)
  <2>1. PICK i \in Ids, c \in Contents :
          /\ Live(e, i)
          /\ \E expected \in ExpectedVersions(e, i) :
                Enter(r, "update", e, i, items[e][i],
                      [items[e][i] EXCEPT !.content = c, !.version = expected + 1])
    BY <1>4 DEF Update
  <2>2. PICK expected \in ExpectedVersions(e, i) :
          Enter(r, "update", e, i, items[e][i],
                [items[e][i] EXCEPT !.content = c, !.version = expected + 1])
    BY <2>1
  <2> DEFINE next == Edited(items[e][i], c, expected + 1)
  <2>3. expected + 1 \in Nat
    BY <1>2, <2>1, ConstantsAssumption DEF ExpectedVersions
  <2>4. next \in Row /\ next.status = items[e][i].status
    BY <1>2, <2>1, <2>3, RowEdits
  <2>5. "update" \in Changes
    BY DEF Changes
  <2>6. next.status \in StatesOf(e) /\ items[e][i] \in Row
    BY <1>2, <2>1, <2>4
  <2>7. Enter(r, "update", e, i, items[e][i], next)
    BY <2>2 DEF Edited
  <2> HIDE DEF next
  <2>8. QED
    BY <2>4, <2>5, <2>6, <2>7, EnterTypes
<1>5. CASE Transition(r, e, GraphOf(e))
  <2>1. PICK i \in Ids, target \in Statuses :
          /\ Live(e, i) /\ CanTransition(GraphOf(e), items[e][i].status, target)
          /\ \E expected \in ExpectedVersions(e, i) :
                Enter(r, "transition", e, i, items[e][i],
                      [items[e][i] EXCEPT !.status = target, !.version = expected + 1])
    BY <1>5 DEF Transition
  <2>2. PICK expected \in ExpectedVersions(e, i) :
          Enter(r, "transition", e, i, items[e][i],
                [items[e][i] EXCEPT !.status = target, !.version = expected + 1])
    BY <2>1
  <2> DEFINE next == Moved(items[e][i], target, expected + 1)
  <2>3. expected + 1 \in Nat
    BY <1>2, <2>1, ConstantsAssumption DEF ExpectedVersions
  <2>4. next \in Row /\ next.status = target
    BY <1>2, <2>1, <2>3, RowEdits
  <2>5. "transition" \in Changes
    BY DEF Changes
  <2>6. target \in StatesOf(e) /\ items[e][i] \in Row
    BY <1>2, <2>1, EntityFacts
  <2>7. Enter(r, "transition", e, i, items[e][i], next)
    BY <2>2 DEF Moved
  <2> HIDE DEF next
  <2>8. QED
    BY <2>4, <2>5, <2>6, <2>7, EnterTypes
<1>6. CASE Delete(r, e)
  <2>1. PICK i \in Ids : Live(e, i) /\ Enter(r, "delete", e, i, items[e][i], items[e][i])
    BY <1>6 DEF Delete
  <2>2. "delete" \in Changes
    BY DEF Changes
  <2>3. QED
    BY <1>2, <2>1, <2>2, EnterTypes
<1>7. QED
  BY <1>1, <1>3, <1>4, <1>5, <1>6

-----------------------------------------------------------------------------
(* Writing one row                                                         *)

\* The record kept of a write, and the audit row that the request will append.
LEMMA AuditRecord ==
    ASSUME NEW op \in Changes, NEW e \in Entities, NEW i \in Ids, NEW r \in Requests,
           NEW before \in Statuses \cup {""}, NEW after \in Statuses \cup {"deleted"}
    PROVE  [action |-> op, entity |-> e, item |-> i, before |-> before,
            after |-> after, request |-> r] \in AuditType
BY DEF AuditType

LEMMA StoredRecord ==
    ASSUME NEW op \in Changes, NEW e \in Entities, NEW i \in Ids, NEW r \in Requests,
           NEW v \in Nat, NEW b \in Nat,
           NEW before \in Statuses \cup {""}, NEW after \in Statuses \cup {"deleted"}
    PROVE  [action |-> op, entity |-> e, item |-> i, version |-> v, basis |-> b,
            before |-> before, after |-> after, request |-> r] \in StoredType
BY DEF StoredType

LEMMA LogTyped ==
    ASSUME TypeInv, NEW r \in Requests, pc[r] = "write", NEW i \in Ids,
           NEW version \in Nat, NEW before \in Statuses \cup {""}, Log(r, i, version, before)
    PROVE  stored' \subseteq StoredType
<1> DEFINE basis == IF read[r] = None THEN 0 ELSE read[r].version
           after == IF job[r].op = "delete" THEN "deleted" ELSE current[r].status
<1>1. /\ job[r].op \in Changes /\ job[r].entity \in Entities
      /\ current[r] \in Row /\ read[r] \in Row \cup {None}
  BY TypeParts DEF TypeInv, WriteTyped, JobType, HandlerType
<1>2. basis \in Nat
  BY <1>1 DEF Row
<1>3. after \in Statuses \cup {"deleted"}
  BY <1>1 DEF Row
<1>4. stored' = stored \cup
        {[action |-> job[r].op, entity |-> job[r].entity, item |-> i, version |-> version,
          basis |-> basis, before |-> before, after |-> after, request |-> r]}
  BY DEF Log
<1> HIDE DEF basis, after
<1>5. job[r].op \in Changes /\ job[r].entity \in Entities
  BY <1>1
<1>6. [action |-> job[r].op, entity |-> job[r].entity, item |-> i, version |-> version,
       basis |-> basis, before |-> before, after |-> after, request |-> r] \in StoredType
  BY <1>2, <1>3, <1>5, StoredRecord
<1>7. stored \subseteq StoredType
  BY TypeParts DEF TypeInv
<1>8. QED
  BY <1>4, <1>6, <1>7

LEMMA AuditOfTyped ==
    ASSUME TypeInv, NEW r \in Requests, pc[r] = "write", NEW i \in Ids,
           job'[r].op = job[r].op, job'[r].entity = job[r].entity, job'[r].item = i,
           read'[r] = read[r], current'[r] = current[r]
    PROVE  AuditOf(r)' \in AuditType
<1> DEFINE before == IF job[r].op = "create" THEN "" ELSE read[r].status
           after == IF job[r].op = "delete" THEN "deleted" ELSE current[r].status
<1>1. /\ job[r].op \in Changes /\ job[r].entity \in Entities
      /\ current[r] \in Row
      /\ job[r].op # "create" => read[r] \in Row
  BY DEF TypeInv, WriteTyped, JobType
<1>2. before \in Statuses \cup {""}
  BY <1>1 DEF Row
<1>3. after \in Statuses \cup {"deleted"}
  BY <1>1 DEF Row
<1>4. AuditOf(r)' = [action |-> job[r].op, entity |-> job[r].entity, item |-> i,
                     before |-> before, after |-> after, request |-> r]
  BY DEF AuditOf
<1> HIDE DEF before, after
<1>5. job[r].op \in Changes /\ job[r].entity \in Entities
  BY <1>1
<1>6. [action |-> job[r].op, entity |-> job[r].entity, item |-> i,
                     before |-> before, after |-> after, request |-> r] \in AuditType
  BY <1>5, <1>2, <1>3, AuditRecord
<1>7. QED
  BY <1>4, <1>6

\* One statement writes one row and the request goes on to its audit or ends.
LEMMA WriteTypes ==
    ASSUME TypeInv, NEW r \in Requests, NEW e \in Entities, NEW i \in Ids, NEW new \in Row,
           new.status \in StatesOf(e), items' = [items EXCEPT ![e][i] = new],
           stored' \subseteq StoredType, UNCHANGED audits, HandlerType',
           \A x \in Requests \ {r} :
               pc'[x] = pc[x] /\ job'[x] = job[x] /\ read'[x] = read[x] /\ current'[x] = current[x],
           pc'[r] \in {"audit", "done"}, pc'[r] = "audit" => AuditOf(r)' \in AuditType
    PROVE  TypeInv'
<1>1. ItemsType /\ audits \subseteq AuditType
  BY TypeParts DEF TypeInv
<1>2. ItemsType'
  <2>1. ASSUME NEW f \in Entities, NEW j \in Ids
        PROVE  /\ items'[f][j] \in Row \cup {None}
               /\ items'[f][j] # None => items'[f][j].status \in StatesOf(f)
    BY <1>1, <2>1 DEF ItemsType
  <2>2. items' \in [Entities -> [Ids -> Row \cup {None}]]
    BY <1>1 DEF ItemsType
  <2>3. QED
    BY <2>1, <2>2 DEF ItemsType
<1>3. ASSUME NEW x \in Requests PROVE WriteTyped(x)' /\ AuditTyped(x)'
  BY <1>3 DEF TypeInv, WriteTyped, AuditTyped, AuditOf
<1>4. QED
  BY <1>1, <1>2, <1>3, TypePartsNext DEF TypeInv

\* Where a request goes after its statement took effect.
LEMMA CommittedMoves ==
    ASSUME TypeInv, NEW r \in Requests, pc[r] = "write", job[r].item \in Ids, Committed(r)
    PROVE  /\ HandlerType'
           /\ \A x \in Requests \ {r} :
                 pc'[x] = pc[x] /\ job'[x] = job[x] /\ read'[x] = read[x] /\ current'[x] = current[x]
           /\ pc'[r] \in {"audit", "done"}
           /\ pc'[r] = "audit" =>
                 job'[r] = job[r] /\ read'[r] = read[r] /\ current'[r] = current[r]
           /\ pc'[r] = "audit" => AuditOf(r)' \in AuditType
<1>1. HandlerType
  BY TypeParts DEF TypeInv
<1>2. CASE Goto(r, "audit")
  BY <1>1, <1>2, GotoMoves, AuditOfTyped
<1>3. CASE End({r})
  BY <1>1, <1>3, EndMoves
<1>4. QED
  BY <1>2, <1>3 DEF Committed

LEMMA InsertMoves ==
    ASSUME TypeInv, NEW r \in Requests, Insert(r)
    PROVE  /\ pc[r] = "write" /\ job[r].op = "create"
           /\ UNCHANGED audits
           /\ \E i \in Ids :
                 /\ items[job[r].entity][i] = None
                 /\ items' = [items EXCEPT ![job[r].entity][i] = current[r]]
                 /\ Log(r, i, 1, "")
                 /\ HandlerType'
                 /\ \A x \in Requests \ {r} :
                       /\ pc'[x] = pc[x] /\ job'[x] = job[x]
                       /\ read'[x] = read[x] /\ current'[x] = current[x]
                 /\ pc'[r] \in {"audit", "done"}
                 /\ pc'[r] = "audit" =>
                       /\ job'[r].op = job[r].op /\ job'[r].entity = job[r].entity
                       /\ job'[r].item = i /\ read'[r] = read[r] /\ current'[r] = current[r]
                       /\ AuditOf(r)' \in AuditType
<1>1. HandlerType /\ pc[r] = "write" /\ job[r] \in JobType
  BY TypeParts DEF TypeInv, WriteTyped, Insert
<1>2. PICK i \in Ids :
        /\ items[job[r].entity][i] = None
        /\ items' = [items EXCEPT ![job[r].entity][i] = current[r]]
        /\ Log(r, i, 1, "")
        /\ \/ /\ pc' = [pc EXCEPT ![r] = "audit"]
              /\ job' = [job EXCEPT ![r].item = i]
              /\ UNCHANGED <<read, current>>
           \/ End({r})
  BY DEF Insert
<1>3. CASE /\ pc' = [pc EXCEPT ![r] = "audit"]
           /\ job' = [job EXCEPT ![r].item = i]
           /\ UNCHANGED <<read, current>>
  <2>1. /\ job'[r] \in JobType /\ job'[r].op = job[r].op
        /\ job'[r].entity = job[r].entity /\ job'[r].item = i
        /\ \A x \in Requests \ {r} : job'[x] = job[x]
        /\ job' \in [Requests -> JobType \cup {None}]
    BY <1>1, <1>3 DEF HandlerType, JobType
  <2>2. HandlerType'
    BY <1>1, <1>3, <2>1 DEF HandlerType
  <2>3. AuditOf(r)' \in AuditType
    BY <1>1, <1>3, <2>1, AuditOfTyped
  <2>4. QED
    BY <1>1, <1>2, <1>3, <2>1, <2>2, <2>3 DEF HandlerType, Insert
<1>4. CASE End({r})
  BY <1>1, <1>2, <1>4, EndMoves DEF Insert
<1>5. QED
  BY <1>2, <1>3, <1>4

LEMMA WritesTyped ==
    ASSUME TypeInv, NEW r \in Requests, Insert(r) \/ Store(r) \/ SoftDelete(r)
    PROVE  TypeInv'
<1>1. CASE Insert(r)
  <2>1. /\ job[r].entity \in Entities
        /\ current[r] \in Row /\ current[r].status \in StatesOf(job[r].entity)
    BY <1>1 DEF Insert, TypeInv, WriteTyped, JobType
  <2>2. \A i \in Ids : Log(r, i, 1, "") => stored' \subseteq StoredType
    BY <1>1, LogTyped DEF Insert
  <2>3. PICK i \in Ids :
          /\ items' = [items EXCEPT ![job[r].entity][i] = current[r]]
          /\ Log(r, i, 1, "")
          /\ HandlerType' /\ pc'[r] \in {"audit", "done"} /\ UNCHANGED audits
          /\ \A x \in Requests \ {r} :
                pc'[x] = pc[x] /\ job'[x] = job[x] /\ read'[x] = read[x] /\ current'[x] = current[x]
          /\ pc'[r] = "audit" => AuditOf(r)' \in AuditType
    BY <1>1, InsertMoves
  <2>4. stored' \subseteq StoredType
    BY <2>2, <2>3
  <2>5. QED
    BY <2>1, <2>3, <2>4, WriteTypes
<1>2. ASSUME Store(r) \/ SoftDelete(r)
      PROVE  /\ pc[r] = "write" /\ job[r].entity \in Entities /\ job[r].item \in Ids
             /\ items[job[r].entity][job[r].item] \in Row
             /\ items[job[r].entity][job[r].item].status \in StatesOf(job[r].entity)
             /\ items[job[r].entity][job[r].item].status \in Statuses
             /\ items[job[r].entity][job[r].item].version \in Nat
             /\ UNCHANGED audits /\ Committed(r)
  <2>1. pc[r] = "write" /\ job[r].op # "create" /\ Matches(r) /\ UNCHANGED audits /\ Committed(r)
    BY <1>2 DEF Store, SoftDelete
  <2>2. job[r] \in JobType /\ job[r].item \in Ids
    BY <2>1 DEF TypeInv, WriteTyped
  <2>3. job[r].entity \in Entities
    BY <2>2 DEF JobType
  <2>4. items[job[r].entity][job[r].item] \in Row
        /\ items[job[r].entity][job[r].item].status \in StatesOf(job[r].entity)
    BY <2>1, <2>2, <2>3, TypeParts DEF Matches, Live, TypeInv, ItemsType
  <2>5. QED
    BY <2>1, <2>2, <2>3, <2>4 DEF Row
<1>3. CASE Store(r)
  <2>1. current[r] \in Row /\ current[r].status \in StatesOf(job[r].entity)
        /\ current[r].version \in Nat
    BY <1>3 DEF Store, TypeInv, WriteTyped, Row
  <2>2. stored' \subseteq StoredType
    BY <1>2, <1>3, <2>1, LogTyped DEF Store
  <2>3. items' = [items EXCEPT ![job[r].entity][job[r].item] = current[r]]
    BY <1>3 DEF Store
  <2>4. /\ job[r].entity \in Entities /\ job[r].item \in Ids /\ pc[r] = "write"
        /\ Committed(r) /\ UNCHANGED audits
    BY <1>2, <1>3
  <2>5. /\ HandlerType' /\ pc'[r] \in {"audit", "done"}
        /\ \A x \in Requests \ {r} :
              pc'[x] = pc[x] /\ job'[x] = job[x] /\ read'[x] = read[x] /\ current'[x] = current[x]
        /\ pc'[r] = "audit" => AuditOf(r)' \in AuditType
    BY <2>4, CommittedMoves
  <2>6. QED
    BY <2>1, <2>2, <2>3, <2>4, <2>5, WriteTypes
<1>4. CASE SoftDelete(r)
  <2> DEFINE new == Deleted(items[job[r].entity][job[r].item])
  <2>1. new \in Row /\ new.status \in StatesOf(job[r].entity)
    BY <1>2, <1>4, RowEdits
  <2>2. stored' \subseteq StoredType
    BY <1>2, <1>4, LogTyped DEF SoftDelete
  <2>3. items' = [items EXCEPT ![job[r].entity][job[r].item] = new]
    BY <1>4 DEF SoftDelete, Deleted
  <2> HIDE DEF new
  <2>4. QED
    BY <1>2, <1>4, <2>1, <2>2, <2>3, CommittedMoves, WriteTypes
<1>5. QED
  BY <1>1, <1>3, <1>4

\* The steps after the write, and those that end a request.
LEMMA AfterTypes ==
    ASSUME TypeInv, NEW r \in Requests,
           AppendAudit(r) \/ AuditFails(r) \/ Return(r) \/ NoWrite(r) \/ NoRowMatched(r)
    PROVE  TypeInv'
<1>1. UNCHANGED <<items, stored>> /\ (Goto(r, "reload") \/ End({r}))
  BY DEF AppendAudit, AuditFails, Return, NoWrite, NoRowMatched
<1>2. audits' \subseteq AuditType
  <2>1. audits \subseteq AuditType
    BY TypeParts DEF TypeInv
  <2>2. pc[r] = "audit" => AuditOf(r) \in AuditType
    BY DEF TypeInv, AuditTyped
  <2>3. \/ audits' = audits
        \/ pc[r] = "audit" /\ audits' = audits \cup {AuditOf(r)}
    BY Zenon DEF AppendAudit, AuditFails, Return, NoWrite, NoRowMatched
  <2>4. QED
    BY <2>1, <2>2, <2>3
<1>3. HandlerType
  BY TypeParts DEF TypeInv
<1>4. CASE Goto(r, "reload")
  <2>1. WriteTyped(r)' /\ AuditTyped(r)'
    BY <1>3, <1>4, GotoMoves DEF WriteTyped, AuditTyped
  <2>2. QED
    BY <1>1, <1>2, <1>3, <1>4, <2>1, GotoMoves, MoveTypes
<1>5. CASE End({r})
  BY <1>1, <1>2, <1>5, EndTypes
<1>6. QED
  BY <1>1, <1>4, <1>5

LEMMA StepTypes == TypeInv /\ [Next]_vars => TypeInv'
<1> SUFFICES ASSUME TypeInv, [Next]_vars PROVE TypeInv'
  OBVIOUS
<1>1. CASE Crash
  <2>1. audits' \subseteq AuditType
    BY <1>1, TypeParts DEF Crash, TypeInv
  <2>2. {r \in Requests : pc[r] # "idle"} \in SUBSET Requests
    OBVIOUS
  <2>3. QED
    BY <1>1, <2>1, <2>2, EndTypes DEF Crash
<1>2. CASE UNCHANGED vars
  BY <1>2 DEF vars, handler, TypeInv, TypeOK, WriteTyped, AuditTyped, AuditOf
<1>3. QED
  BY <1>1, <1>2, ArriveTypes, WritesTyped, AfterTypes DEF Next

\* Rows keep the statuses of their own entity, whatever requests overlap and
\* whatever versions clients send.
THEOREM ResourceTypes == Spec => []TypeOK
<1>1. Spec => []TypeInv
  BY InitTypes, StepTypes, PTL DEF Spec
<1>2. TypeInv => TypeOK
  BY DEF TypeInv
<1>3. QED
  BY <1>1, <1>2, PTL

-----------------------------------------------------------------------------
(* What was read and what is stored                                        *)

\* The row read is an earlier form of the row stored, and the same one as
\* long as the version is the same.
Behind(row, e, i) ==
    /\ items[e][i] # None
    /\ row.version <= items[e][i].version
    /\ row.version = items[e][i].version =>
          row.status = items[e][i].status /\ row.content = items[e][i].content

\* What is about to be stored was checked against the row read.
Checked(r) ==
    /\ ~current[r].deleted
    /\ current[r].version <= read[r].version + 1
    /\ \/ current[r].status = read[r].status
       \/ /\ CanTransition(GraphOf(job[r].entity), read[r].status, current[r].status)
          /\ current[r].content = read[r].content

Based(r) ==
    (pc[r] = "write" /\ job[r].op # "create") =>
        /\ Behind(read[r], job[r].entity, job[r].item)
        /\ job[r].op \in {"update", "transition"} => Checked(r)

\* The audit row a request is about to append tells of a committed write.
Tells(w, a) ==
    /\ w.action = a.action /\ w.entity = a.entity /\ w.item = a.item
    /\ w.request = a.request /\ w.after = a.after
    /\ w.before = a.before \/ (w.action = "delete" /\ w.basis < w.version)

Witnessed(r) == pc[r] = "audit" => \E w \in stored : Tells(w, AuditOf(r))

BasisInv ==
    /\ TypeInv
    /\ \A r \in Requests : Based(r) /\ Witnessed(r)
    /\ NoLostUpdate
    /\ AuditTruthful

LEMMA InitBasis == Init => BasisInv
<1> SUFFICES ASSUME Init PROVE BasisInv
  OBVIOUS
<1>1. /\ NoLostUpdate /\ AuditTruthful
      /\ \A r \in Requests : Based(r) /\ Witnessed(r)
  BY DEF Init, NoLostUpdate, AuditTruthful, Based, Witnessed
<1>2. QED
  BY <1>1, InitTypes DEF BasisInv

\* Rows only move on: none disappears, versions never fall, and what changes
\* a status or a content raises the version.
RowsOnward ==
    \A e \in Entities, i \in Ids :
        items[e][i] # None =>
            /\ items'[e][i] # None
            /\ items[e][i].version <= items'[e][i].version
            /\ items[e][i].version = items'[e][i].version =>
                  /\ items[e][i].status = items'[e][i].status
                  /\ items[e][i].content = items'[e][i].content

\* A request that does not move keeps its basis while rows move on.
LEMMA BasisStays ==
    ASSUME BasisInv, TypeInv', RowsOnward, stored \subseteq stored', NEW x \in Requests,
           \/ pc'[x] \in {"done", "reload"}
           \/ pc'[x] = pc[x] /\ job'[x] = job[x] /\ read'[x] = read[x] /\ current'[x] = current[x]
    PROVE  Based(x)' /\ Witnessed(x)'
<1>1. CASE pc'[x] \in {"done", "reload"}
  BY <1>1 DEF Based, Witnessed
<1>2. CASE pc'[x] = pc[x] /\ job'[x] = job[x] /\ read'[x] = read[x] /\ current'[x] = current[x]
  <2>1. Witnessed(x)'
    <3>1. AuditOf(x)' = AuditOf(x)
      BY <1>2 DEF AuditOf
    <3>2. QED
      BY <1>2, <3>1 DEF BasisInv, Witnessed, Tells
  <2>2. ASSUME pc[x] = "write", job[x].op # "create"
        PROVE  /\ Behind(read[x], job[x].entity, job[x].item)'
               /\ job[x].op \in {"update", "transition"} => Checked(x)'
    <3> DEFINE e == job[x].entity
               i == job[x].item
    <3>1. e \in Entities /\ i \in Ids /\ read[x] \in Row
      BY <2>2 DEF BasisInv, TypeInv, WriteTyped, JobType
    <3>2. Behind(read[x], e, i) /\ (job[x].op \in {"update", "transition"} => Checked(x))
      BY <2>2 DEF BasisInv, Based
    <3>3. items[e][i] \in Row /\ items'[e][i] \in Row \cup {None}
      BY <3>1, <3>2, TypeParts, TypePartsNext DEF BasisInv, TypeInv, ItemsType, Behind
    <3> HIDE DEF e, i
    <3>4. /\ items'[e][i] # None
          /\ items[e][i].version <= items'[e][i].version
          /\ items[e][i].version = items'[e][i].version =>
                /\ items[e][i].status = items'[e][i].status
                /\ items[e][i].content = items'[e][i].content
      BY <3>1, <3>2 DEF RowsOnward, Behind
    <3>5. items[e][i].version \in Nat /\ items'[e][i].version \in Nat /\ read[x].version \in Nat
      BY <3>1, <3>3, <3>4 DEF Row
    <3>6. /\ items'[e][i] # None
          /\ read[x].version <= items'[e][i].version
          /\ read[x].version = items'[e][i].version =>
                read[x].status = items'[e][i].status /\ read[x].content = items'[e][i].content
      BY <3>2, <3>4, <3>5 DEF Behind
    <3>7. Behind(read[x], job[x].entity, job[x].item)'
      BY <1>2, <3>6 DEF Behind, e, i
    <3>8. Checked(x) => Checked(x)'
      BY <1>2 DEF Checked
    <3>9. QED
      BY <3>2, <3>7, <3>8
  <2>3. QED
    BY <1>2, <2>1, <2>2 DEF Based
<1>3. QED
  BY <1>1, <1>2

\* A service stores what it checked against the row it has just read.
LEMMA EnterBasis ==
    ASSUME BasisInv, TypeInv', NEW r \in Requests, NEW op \in Changes, NEW e \in Entities,
           NEW i \in Ids \cup {None}, NEW row, NEW next, Enter(r, op, e, i, row, next),
           op # "create" => Behind(row, e, i),
           op \in {"update", "transition"} =>
              /\ ~next.deleted /\ next.version <= row.version + 1
              /\ \/ next.status = row.status
                 \/ /\ CanTransition(GraphOf(e), row.status, next.status)
                    /\ next.content = row.content
    PROVE  BasisInv'
<1>1. HandlerType
  BY TypeParts DEF BasisInv, TypeInv
<1>2. /\ pc'[r] = "write" /\ job'[r] = [op |-> op, entity |-> e, item |-> i]
      /\ read'[r] = row /\ current'[r] = next
      /\ \A x \in Requests \ {r} :
            pc'[x] = pc[x] /\ job'[x] = job[x] /\ read'[x] = read[x] /\ current'[x] = current[x]
      /\ UNCHANGED <<items, audits, stored>>
  BY <1>1 DEF HandlerType, Enter
<1>3. /\ job'[r].op = op /\ job'[r].entity = e /\ job'[r].item = i
  BY <1>2
<1>4. Based(r)' /\ Witnessed(r)'
  BY <1>2, <1>3 DEF Based, Witnessed, Behind, Checked
<1>5. RowsOnward
  <2>1. ASSUME NEW f \in Entities, NEW j \in Ids, items[f][j] # None
        PROVE  items[f][j].version <= items[f][j].version
    BY <2>1, TypeParts DEF BasisInv, TypeInv, ItemsType, Row
  <2>2. QED
    BY <1>2, <2>1 DEF RowsOnward
<1>6. \A x \in Requests : Based(x)' /\ Witnessed(x)'
  BY <1>2, <1>4, <1>5, BasisStays
<1>7. NoLostUpdate' /\ AuditTruthful'
  BY <1>2 DEF BasisInv, NoLostUpdate, AuditTruthful
<1>8. QED
  BY <1>6, <1>7 DEF BasisInv

LEMMA ArriveBasis ==
    ASSUME BasisInv, TypeInv', Foresight = 0, NEW r \in Requests,
           CaptureUnits(r) \/ PermitRules(r) \/ EmissionSamples(r)
    PROVE  BasisInv'
<1>1. PICK e \in Entities, initial \in Statuses :
        Create(r, e, initial) \/ Update(r, e) \/ Transition(r, e, GraphOf(e)) \/ Delete(r, e)
  BY Arrivals
<1>2. ASSUME NEW i \in Ids, Live(e, i)
      PROVE  /\ items[e][i] \in Row /\ items[e][i].version \in Nat
             /\ ~items[e][i].deleted
             /\ Behind(items[e][i], e, i)
             /\ \A expected \in ExpectedVersions(e, i) :
                   expected + 1 \in Nat /\ expected + 1 <= items[e][i].version + 1
  <2>1. items[e][i] # None /\ ~items[e][i].deleted
    BY <1>2 DEF Live
  <2>2. items[e][i] \in Row /\ items[e][i].version \in Nat
    BY <2>1, TypeParts DEF BasisInv, TypeInv, ItemsType, Row
  <2>3. QED
    BY <2>1, <2>2 DEF Behind, ExpectedVersions
<1>3. CASE Create(r, e, initial)
  <2>1. PICK c \in Contents : Enter(r, "create", e, None, None, NewRow(initial, c))
    BY <1>3 DEF Create
  <2>2. "create" \in Changes
    BY DEF Changes
  <2>3. QED
    BY <2>1, <2>2, EnterBasis
<1>4. CASE Update(r, e)
  <2>1. PICK i \in Ids, c \in Contents :
          /\ Live(e, i)
          /\ \E expected \in ExpectedVersions(e, i) :
                Enter(r, "update", e, i, items[e][i],
                      [items[e][i] EXCEPT !.content = c, !.version = expected + 1])
    BY <1>4 DEF Update
  <2>2. PICK expected \in ExpectedVersions(e, i) :
          Enter(r, "update", e, i, items[e][i],
                [items[e][i] EXCEPT !.content = c, !.version = expected + 1])
    BY <2>1
  <2> DEFINE next == Edited(items[e][i], c, expected + 1)
  <2>3. /\ next.status = items[e][i].status /\ ~next.deleted
        /\ next.version <= items[e][i].version + 1
    BY <1>2, <2>1, RowEdits
  <2>4. "update" \in Changes /\ Behind(items[e][i], e, i)
    BY <1>2, <2>1 DEF Changes
  <2>5. Enter(r, "update", e, i, items[e][i], next)
    BY <2>2 DEF Edited
  <2> HIDE DEF next
  <2>6. QED
    BY <2>3, <2>4, <2>5, EnterBasis
<1>5. CASE Transition(r, e, GraphOf(e))
  <2>1. PICK i \in Ids, target \in Statuses :
          /\ Live(e, i) /\ CanTransition(GraphOf(e), items[e][i].status, target)
          /\ \E expected \in ExpectedVersions(e, i) :
                Enter(r, "transition", e, i, items[e][i],
                      [items[e][i] EXCEPT !.status = target, !.version = expected + 1])
    BY <1>5 DEF Transition
  <2>2. PICK expected \in ExpectedVersions(e, i) :
          Enter(r, "transition", e, i, items[e][i],
                [items[e][i] EXCEPT !.status = target, !.version = expected + 1])
    BY <2>1
  <2> DEFINE next == Moved(items[e][i], target, expected + 1)
  <2>3. /\ next.status = target /\ ~next.deleted /\ next.content = items[e][i].content
        /\ next.version <= items[e][i].version + 1
    BY <1>2, <2>1, RowEdits
  <2>4. "transition" \in Changes /\ Behind(items[e][i], e, i)
    BY <1>2, <2>1 DEF Changes
  <2>5. Enter(r, "transition", e, i, items[e][i], next)
    BY <2>2 DEF Moved
  <2> HIDE DEF next
  <2>6. QED
    BY <2>1, <2>3, <2>4, <2>5, EnterBasis
<1>6. CASE Delete(r, e)
  <2>1. PICK i \in Ids : Live(e, i) /\ Enter(r, "delete", e, i, items[e][i], items[e][i])
    BY <1>6 DEF Delete
  <2>2. "delete" \in Changes
    BY DEF Changes
  <2>3. QED
    BY <1>2, <2>1, <2>2, EnterBasis
<1>7. QED
  BY <1>1, <1>3, <1>4, <1>5, <1>6

\* Requests that end or read once more, and the audit row of one of them.
LEMMA AfterBasis ==
    ASSUME BasisInv, TypeInv', UNCHANGED <<items, stored>>,
           \A x \in Requests :
               \/ pc'[x] \in {"done", "reload"}
               \/ pc'[x] = pc[x] /\ job'[x] = job[x] /\ read'[x] = read[x] /\ current'[x] = current[x],
           \/ audits' = audits
           \/ \E r \in Requests : pc[r] = "audit" /\ audits' = audits \cup {AuditOf(r)}
    PROVE  BasisInv'
<1>1. RowsOnward
  <2>1. ASSUME NEW f \in Entities, NEW j \in Ids, items[f][j] # None
        PROVE  items[f][j].version <= items[f][j].version
    BY <2>1, TypeParts DEF BasisInv, TypeInv, ItemsType, Row
  <2>2. QED
    BY <2>1 DEF RowsOnward
<1>2. \A x \in Requests : Based(x)' /\ Witnessed(x)'
  BY <1>1, BasisStays
<1>3. NoLostUpdate'
  BY DEF BasisInv, NoLostUpdate
<1>4. AuditTruthful'
  <2>1. \A r \in Requests : pc[r] = "audit" => \E w \in stored : Tells(w, AuditOf(r))
    BY DEF BasisInv, Witnessed
  <2>2. \A a \in audits : \E w \in stored : Tells(w, a)
    BY DEF BasisInv, AuditTruthful, Tells
  <2>3. \A a \in audits' : \E w \in stored' : Tells(w, a)
    BY <2>1, <2>2
  <2>4. QED
    BY <2>3 DEF AuditTruthful, Tells
<1>5. QED
  BY <1>2, <1>3, <1>4 DEF BasisInv

\* One row is written and its write recorded; the audit row follows the record.
LEMMA WriteBasis ==
    ASSUME BasisInv, TypeInv', NEW r \in Requests, NEW e \in Entities, NEW i \in Ids,
           NEW new \in Row, items' = [items EXCEPT ![e][i] = new],
           items[e][i] # None =>
               /\ items[e][i].version <= new.version
               /\ items[e][i].version = new.version =>
                     items[e][i].status = new.status /\ items[e][i].content = new.content,
           NEW w, stored' = stored \cup {w}, UNCHANGED audits,
           w.action \in {"update", "transition"} => w.basis + 1 = w.version,
           \A x \in Requests \ {r} :
               pc'[x] = pc[x] /\ job'[x] = job[x] /\ read'[x] = read[x] /\ current'[x] = current[x],
           pc'[r] \in {"audit", "done"}, pc'[r] = "audit" => Tells(w, AuditOf(r)')
    PROVE  BasisInv'
<1>1. ItemsType
  BY TypeParts DEF BasisInv, TypeInv
<1>2. RowsOnward
  <2>1. ASSUME NEW f \in Entities, NEW j \in Ids, items[f][j] # None
        PROVE  /\ items'[f][j] # None
               /\ items[f][j].version <= items'[f][j].version
               /\ items[f][j].version = items'[f][j].version =>
                     /\ items[f][j].status = items'[f][j].status
                     /\ items[f][j].content = items'[f][j].content
    <3>1. CASE f = e /\ j = i
      BY <1>1, <2>1, <3>1, NoneAssumption DEF ItemsType
    <3>2. CASE ~(f = e /\ j = i)
      <4>1. items'[f][j] = items[f][j]
        BY <1>1, <2>1, <3>2 DEF ItemsType
      <4>2. items[f][j].version \in Nat
        BY <1>1, <2>1 DEF ItemsType, Row
      <4>3. QED
        BY <2>1, <4>1, <4>2
    <3>3. QED
      BY <3>1, <3>2
  <2>2. QED
    BY <2>1 DEF RowsOnward
<1>3. Based(r)' /\ Witnessed(r)'
  BY DEF Based, Witnessed
<1>4. \A x \in Requests : Based(x)' /\ Witnessed(x)'
  BY <1>2, <1>3, BasisStays
<1>5. NoLostUpdate' /\ AuditTruthful'
  BY DEF BasisInv, NoLostUpdate, AuditTruthful
<1>6. QED
  BY <1>4, <1>5 DEF BasisInv

\* The record that Log keeps of a write of r.
Recorded(r, i, version, before) ==
    [action |-> job[r].op, entity |-> job[r].entity, item |-> i, version |-> version,
     basis |-> IF read[r] = None THEN 0 ELSE read[r].version,
     before |-> before,
     after |-> IF job[r].op = "delete" THEN "deleted" ELSE current[r].status,
     request |-> r]

LEMMA RecordTells ==
    ASSUME NEW r \in Requests, NEW i, NEW version, NEW before,
           job'[r].op = job[r].op, job'[r].entity = job[r].entity, job'[r].item = i,
           read'[r] = read[r], current'[r] = current[r],
           \/ before = IF job[r].op = "create" THEN "" ELSE read[r].status
           \/ job[r].op = "delete" /\ read[r] # None /\ read[r].version < version
    PROVE  Tells(Recorded(r, i, version, before), AuditOf(r)')
BY DEF Tells, Recorded, AuditOf

LEMMA RecordFields ==
    ASSUME NEW r \in Requests, NEW i, NEW version, NEW before
    PROVE  LET w == Recorded(r, i, version, before)
           IN  /\ w.action = job[r].op /\ w.version = version
               /\ w.basis = IF read[r] = None THEN 0 ELSE read[r].version
BY DEF Recorded

\* What a service read is what its WHERE clause matches, and so every write is
\* a legal move.
LEMMA InsertBasis ==
    ASSUME BasisInv, TypeInv', NEW r \in Requests, Insert(r)
    PROVE  BasisInv' /\ \A f \in Entities, j \in Ids : LegalMove(f, j)
<1>1. PICK i \in Ids :
        /\ items[job[r].entity][i] = None
        /\ items' = [items EXCEPT ![job[r].entity][i] = current[r]]
        /\ Log(r, i, 1, "")
        /\ \A x \in Requests \ {r} :
              pc'[x] = pc[x] /\ job'[x] = job[x] /\ read'[x] = read[x] /\ current'[x] = current[x]
        /\ pc'[r] \in {"audit", "done"}
        /\ pc'[r] = "audit" =>
              /\ job'[r].op = job[r].op /\ job'[r].entity = job[r].entity
              /\ job'[r].item = i /\ read'[r] = read[r] /\ current'[r] = current[r]
  BY InsertMoves DEF BasisInv
<1>2. pc[r] = "write" /\ job[r].op = "create" /\ UNCHANGED audits
  BY InsertMoves DEF BasisInv
<1>3. current[r] \in Row /\ job[r].entity \in Entities
  BY <1>2 DEF BasisInv, TypeInv, WriteTyped, JobType
<1> DEFINE w == Recorded(r, i, 1, "")
<1>4. stored' = stored \cup {w}
  BY <1>1 DEF Log, Recorded
<1>5. pc'[r] = "audit" => Tells(w, AuditOf(r)')
  BY <1>1, <1>2, RecordTells
<1>6. w.action = "create"
  BY <1>2 DEF Recorded
<1> HIDE DEF w
<1>7. BasisInv'
  BY <1>1, <1>2, <1>3, <1>4, <1>5, <1>6, WriteBasis
<1>8. ASSUME NEW f \in Entities, NEW j \in Ids PROVE LegalMove(f, j)
  BY <1>1, <1>3, TypeParts DEF LegalMove, BasisInv, TypeInv, ItemsType
<1>9. QED
  BY <1>7, <1>8

LEMMA StoreBasis ==
    ASSUME BasisInv, TypeInv', NEW r \in Requests, Store(r)
    PROVE  BasisInv' /\ \A f \in Entities, j \in Ids : LegalMove(f, j)
<1> DEFINE e == job[r].entity
           i == job[r].item
           old == items[e][i]
           w == Recorded(r, i, current[r].version, old.status)
<1>1. /\ pc[r] = "write" /\ job[r].op \in {"update", "transition"} /\ UNCHANGED audits
      /\ Committed(r) /\ items' = [items EXCEPT ![e][i] = current[r]]
      /\ old # None /\ ~old.deleted /\ old.version + 1 = current[r].version
  BY DEF Store, Matches, Live
<1>2. /\ e \in Entities /\ i \in Ids /\ current[r] \in Row /\ read[r] \in Row
      /\ old \in Row
  BY <1>1, TypeParts DEF BasisInv, TypeInv, WriteTyped, JobType, ItemsType
<1>3. /\ current[r].version \in Nat /\ read[r].version \in Nat /\ old.version \in Nat
      /\ read[r] # None
  BY <1>2, NoneAssumption DEF Row
<1>4. Behind(read[r], e, i) /\ Checked(r)
  BY <1>1 DEF BasisInv, Based
<1>5. /\ read[r].version = old.version
      /\ read[r].status = old.status /\ read[r].content = old.content
  BY <1>1, <1>3, <1>4 DEF Behind, Checked
<1>6. stored' = stored \cup {w}
  BY DEF Store, Log, Recorded
<1>7. w.action = job[r].op /\ w.version = current[r].version /\ w.basis = read[r].version
  BY <1>3, RecordFields
<1>8. /\ \A x \in Requests \ {r} :
            pc'[x] = pc[x] /\ job'[x] = job[x] /\ read'[x] = read[x] /\ current'[x] = current[x]
      /\ pc'[r] \in {"audit", "done"}
      /\ pc'[r] = "audit" => job'[r] = job[r] /\ read'[r] = read[r] /\ current'[r] = current[r]
  BY <1>1, <1>2, CommittedMoves DEF BasisInv
<1>9. pc'[r] = "audit" => Tells(w, AuditOf(r)')
  BY <1>1, <1>5, <1>8, RecordTells
<1>10. w.basis + 1 = w.version
  BY <1>1, <1>5, <1>7
<1>11. ASSUME NEW f \in Entities, NEW j \in Ids PROVE LegalMove(f, j)
  <2>1. CASE f = e /\ j = i
    <3>1. items'[e][i] = current[r]
      BY <1>1, <1>2, TypeParts DEF BasisInv, TypeInv, ItemsType
    <3>2. QED
      BY <1>1, <1>4, <1>5, <2>1, <3>1 DEF LegalMove, Checked
  <2>2. CASE ~(f = e /\ j = i)
    BY <1>1, <1>2, <2>2, TypeParts DEF LegalMove, BasisInv, TypeInv, ItemsType
  <2>3. QED
    BY <2>1, <2>2
<1>12. old.version <= current[r].version /\ old.version # current[r].version
  BY <1>1, <1>3
<1> HIDE DEF w, e, i
<1>13. BasisInv'
  BY <1>1, <1>2, <1>6, <1>8, <1>9, <1>10, <1>12, WriteBasis
<1>14. QED
  BY <1>11, <1>13

LEMMA SoftDeleteBasis ==
    ASSUME BasisInv, TypeInv', NEW r \in Requests, SoftDelete(r)
    PROVE  BasisInv' /\ \A f \in Entities, j \in Ids : LegalMove(f, j)
<1> DEFINE e == job[r].entity
           i == job[r].item
           old == items[e][i]
           w == Recorded(r, i, old.version, old.status)
<1>1. /\ pc[r] = "write" /\ job[r].op = "delete" /\ UNCHANGED audits
      /\ Committed(r) /\ items' = [items EXCEPT ![e][i] = Deleted(old)]
      /\ old # None /\ ~old.deleted
  BY DEF SoftDelete, Matches, Live, Deleted
<1>2. /\ e \in Entities /\ i \in Ids /\ old \in Row
  BY <1>1, TypeParts DEF BasisInv, TypeInv, WriteTyped, JobType, ItemsType
<1>3. /\ Deleted(old) \in Row /\ old.version \in Nat
      /\ Deleted(old).version = old.version /\ Deleted(old).status = old.status
      /\ Deleted(old).content = old.content
  BY <1>2, RowEdits DEF Row
<1>4. stored' = stored \cup {w}
  BY DEF SoftDelete, Log, Recorded
<1>5. w.action = "delete"
  BY <1>1 DEF Recorded
<1>6. /\ \A x \in Requests \ {r} :
            pc'[x] = pc[x] /\ job'[x] = job[x] /\ read'[x] = read[x] /\ current'[x] = current[x]
      /\ pc'[r] \in {"audit", "done"}
      /\ pc'[r] = "audit" => job'[r] = job[r] /\ read'[r] = read[r] /\ current'[r] = current[r]
  BY <1>1, <1>2, CommittedMoves DEF BasisInv
<1>7. pc'[r] = "audit" => Tells(w, AuditOf(r)')
  <2>1. Behind(read[r], e, i) /\ read[r] \in Row
    BY <1>1 DEF BasisInv, Based, TypeInv, WriteTyped
  <2>2. read[r].version \in Nat /\ read[r] # None
    BY <2>1, NoneAssumption DEF Row
  <2>3. old.status = read[r].status \/ read[r].version < old.version
    BY <1>3, <2>1, <2>2 DEF Behind
  <2> QED
    BY <1>1, <1>6, <2>2, <2>3, RecordTells
<1>8. ASSUME NEW f \in Entities, NEW j \in Ids PROVE LegalMove(f, j)
  <2>1. CASE f = e /\ j = i
    <3>1. items'[e][i] = Deleted(old)
      BY <1>1, <1>2, TypeParts DEF BasisInv, TypeInv, ItemsType
    <3>2. QED
      BY <1>1, <2>1, <3>1 DEF LegalMove, Deleted
  <2>2. CASE ~(f = e /\ j = i)
    BY <1>1, <1>2, <2>2, TypeParts DEF LegalMove, BasisInv, TypeInv, ItemsType
  <2>3. QED
    BY <2>1, <2>2
<1>9. BasisInv'
  <2> DEFINE new == Deleted(old)
  <2>1. /\ new \in Row /\ items' = [items EXCEPT ![e][i] = new]
        /\ items[e][i].version <= new.version
        /\ items[e][i].status = new.status /\ items[e][i].content = new.content
        /\ e \in Entities /\ i \in Ids /\ UNCHANGED audits
    BY <1>1, <1>2, <1>3
  <2> HIDE DEF new, w, e, i
  <2>2. w.action \notin {"update", "transition"}
    BY <1>5
  <2>3. QED
    BY <1>4, <2>2, <1>6, <1>7, <2>1, WriteBasis
<1>10. QED
  BY <1>8, <1>9

\* Every other step leaves the rows alone.
LEMMA RowsAlone ==
    ASSUME UNCHANGED items
    PROVE  \A f \in Entities, j \in Ids : LegalMove(f, j)
BY DEF LegalMove

LEMMA StepBasis ==
    ASSUME BasisInv, [Next]_vars, Foresight = 0
    PROVE  BasisInv' /\ \A f \in Entities, j \in Ids : LegalMove(f, j)
<1>1. TypeInv'
  BY StepTypes DEF BasisInv
<1>2. HandlerType
  BY TypeParts DEF BasisInv, TypeInv
<1>3. ASSUME NEW r \in Requests, CaptureUnits(r) \/ PermitRules(r) \/ EmissionSamples(r)
      PROVE  BasisInv' /\ \A f \in Entities, j \in Ids : LegalMove(f, j)
  <2>1. UNCHANGED items
    BY <1>3 DEF CaptureUnits, PermitRules, EmissionSamples, Arrive, Create, Update,
       Transition, Delete, Enter
  <2>2. QED
    BY <1>1, <1>3, <2>1, ArriveBasis, RowsAlone
<1>4. ASSUME NEW r \in Requests,
             AppendAudit(r) \/ AuditFails(r) \/ Return(r) \/ NoWrite(r) \/ NoRowMatched(r)
      PROVE  BasisInv' /\ \A f \in Entities, j \in Ids : LegalMove(f, j)
  <2>1. UNCHANGED <<items, stored>> /\ (Goto(r, "reload") \/ End({r}))
    BY <1>4 DEF AppendAudit, AuditFails, Return, NoWrite, NoRowMatched
  <2>2. \/ audits' = audits
        \/ pc[r] = "audit" /\ audits' = audits \cup {AuditOf(r)}
    BY <1>4, Zenon DEF AppendAudit, AuditFails, Return, NoWrite, NoRowMatched
  <2>3. \A x \in Requests :
            \/ pc'[x] \in {"done", "reload"}
            \/ pc'[x] = pc[x] /\ job'[x] = job[x] /\ read'[x] = read[x] /\ current'[x] = current[x]
    BY <1>2, <2>1, EndMoves, GotoMoves
  <2>4. QED
    BY <1>1, <2>1, <2>2, <2>3, AfterBasis, RowsAlone
<1>5. CASE Crash
  <2>2. {x \in Requests : pc[x] # "idle"} \in SUBSET Requests
    OBVIOUS
  <2>3. \A x \in Requests :
            \/ pc'[x] \in {"done", "reload"}
            \/ pc'[x] = pc[x] /\ job'[x] = job[x] /\ read'[x] = read[x] /\ current'[x] = current[x]
    BY <1>2, <1>5, <2>2, EndMoves DEF Crash
  <2>4. UNCHANGED <<items, audits, stored>>
    BY <1>5 DEF Crash
  <2>5. QED
    BY <1>1, <2>3, <2>4, AfterBasis, RowsAlone
<1>6. CASE UNCHANGED vars
  <2>1. UNCHANGED <<items, audits, pc, job, read, current, stored>>
    BY <1>6 DEF vars, handler
  <2>2. QED
    BY <1>1, <2>1, AfterBasis, RowsAlone
<1>7. QED
  BY <1>1, <1>3, <1>4, <1>5, <1>6, InsertBasis, StoreBasis, SoftDeleteBasis DEF Next

-----------------------------------------------------------------------------
(* Theorems                                                                *)

\* With clients that send versions they were given, nobody's committed change
\* is written over: the versioned UPDATE matches only the row that was read.
THEOREM UpdatesNotLost == ASSUME Foresight = 0 PROVE Spec => []NoLostUpdate
<1>1. BasisInv /\ [Next]_vars => BasisInv'
  BY StepBasis
<1>2. BasisInv => NoLostUpdate
  BY DEF BasisInv
<1>3. QED
  BY <1>1, <1>2, InitBasis, PTL DEF Spec

\* Audit rows tell of committed changes, from the status the database held.
THEOREM AuditsTrue == ASSUME Foresight = 0 PROVE Spec => []AuditTruthful
<1>1. BasisInv /\ [Next]_vars => BasisInv'
  BY StepBasis
<1>2. BasisInv => AuditTruthful
  BY DEF BasisInv
<1>3. QED
  BY <1>1, <1>2, InitBasis, PTL DEF Spec

\* And every step of every table is a legal move of its entity's graph.
THEOREM MovesLegal == ASSUME Foresight = 0 PROVE Spec => LegalMoves
<1>1. BasisInv /\ [Next]_vars => BasisInv'
  BY StepBasis
<1>2. BasisInv /\ [Next]_vars => [\A e \in Entities, i \in Ids : LegalMove(e, i)]_vars
  BY StepBasis
<1>3. QED
  BY <1>1, <1>2, InitBasis, PTL DEF Spec, LegalMoves
==============================================================================
