------------------------- MODULE AuditReportsProofs -------------------------
(***************************************************************************)
(* Proofs about AuditReports: what every page, history, summary and       *)
(* overview promises of a log that grows while it is read.  LogInv says    *)
(* how the log and the tables go together, ReaderInv what a request has    *)
(* seen so far; both are kept by every step.                               *)
(***************************************************************************)
EXTENDS AuditReports, FiniteSetTheorems, SequenceTheorems, NaturalsInduction, TLAPS

-----------------------------------------------------------------------------
(* Sums and numbers of rows                                                *)

\* The numbers are well-founded: a property that fails fails first somewhere.
LEMMA NatWellFounded == IsWellFoundedOn({p \in Nat \X Nat : p[1] < p[2]}, Nat)
BY NatLessThanWellFounded DEF OpToRel

\* SumFunction adds the values one after another.
LEMMA SumUnfolds ==
  ASSUME NEW f, IsFiniteSet(DOMAIN f)
  PROVE  \E g : /\ g[{}] = 0
                /\ \A s \in SUBSET DOMAIN f : s # {} => \E x \in s : g[s] = f[x] + g[s \ {x}]
                /\ g[DOMAIN f] = SumFunction(f)
<1> DEFINE V == DOMAIN f
           Picked(s) == CHOOSE x \in s : TRUE
           Step(g, s) == IF s = {} THEN 0 ELSE f[Picked(s)] + g[s \ {Picked(s)}]
           IsSum(g) == g = [s \in SUBSET V |-> Step(g, s)]
           Small(n) == {s \in SUBSET V : Cardinality(s) <= n}
           SumsUpTo(g, n) == \A s \in Small(n) : g[s] = Step(g, s)
           Bad == {n \in Nat : ~\E g : SumsUpTo(g, n)}
<1>1. \A s \in SUBSET V : IsFiniteSet(s) /\ Cardinality(s) \in Nat
  BY FS_Subset, FS_CardinalityType
<1>2. ASSUME NEW s \in SUBSET V, s # {}
      PROVE  /\ Picked(s) \in s
             /\ s \ {Picked(s)} \in SUBSET V
             /\ Cardinality(s \ {Picked(s)}) = Cardinality(s) - 1
  <2>1. Picked(s) \in s
    BY <1>2
  <2> QED
    BY <2>1, <1>1, FS_RemoveElement
<1>3. ASSUME Bad # {}
      PROVE  FALSE
  <2>1. PICK n \in Bad : \A m \in Bad : ~(<<m, n>> \in {p \in Nat \X Nat : p[1] < p[2]})
    <3> HIDE DEF Bad
    <3>1. Bad \subseteq Nat
      BY DEF Bad
    <3> QED
      BY <3>1, <1>3, NatWellFounded, WFMin
  <2>2. CASE n = 0
    <3> DEFINE g == [s \in {{}} |-> 0]
    <3>1. Small(0) = {{}}
      BY <1>1, FS_EmptySet
    <3>2. SumsUpTo(g, n)
      BY <3>1, <2>2
    <3> QED
      BY <3>2, <2>1
  <2>3. CASE n # 0
    <3>1. n \in Nat
      OBVIOUS
    <3>2. n - 1 \in Nat /\ n - 1 \notin Bad
      <4> HIDE DEF Bad
      <4>1. n - 1 \in Nat /\ n - 1 < n
        BY <3>1, <2>3
      <4>2. <<n - 1, n>> \in {p \in Nat \X Nat : p[1] < p[2]}
        BY <3>1, <4>1
      <4> QED
        BY <4>1, <4>2, <2>1
    <3>3. PICK g : SumsUpTo(g, n - 1)
      BY <3>2
    <3> DEFINE h == [s \in SUBSET V |-> IF Cardinality(s) <= n - 1 THEN g[s] ELSE Step(g, s)]
    <3>4. ASSUME NEW s \in Small(n)
          PROVE  h[s] = Step(h, s)
      <4> HIDE DEF Picked
      <4>1. h[s] = Step(g, s)
        BY <3>3, <1>1 DEF Step
      <4>2. CASE s = {}
        BY <4>1, <4>2
      <4>3. CASE s # {}
        <5>1. /\ s \ {Picked(s)} \in SUBSET V
              /\ Cardinality(s \ {Picked(s)}) <= n - 1
          <6>1. s \in SUBSET V /\ Cardinality(s) <= n
            OBVIOUS
          <6> HIDE DEF Small, Bad, Step
          <6> QED
            BY <6>1, <1>2, <4>3, <1>1, <3>1
        <5>2. h[s \ {Picked(s)}] = g[s \ {Picked(s)}]
          BY <5>1
        <5> QED
          BY <5>2, <4>1, <4>3
      <4> QED
        BY <4>2, <4>3
    <3>5. SumsUpTo(h, n)
      <4> HIDE DEF Step, Small, h
      <4> QED
        BY <3>4
    <3> QED
      BY <3>5, <2>1
  <2> QED
    BY <2>2, <2>3
<1>4. \E g : IsSum(g)
  <2>1. Cardinality(V) \in Nat
    BY <1>1
  <2>2. PICK g : SumsUpTo(g, Cardinality(V))
    <3>1. Bad = {}
      <4> HIDE DEF Bad
      <4> QED
        BY <1>3
    <3> HIDE DEF SumsUpTo
    <3> QED
      BY <2>1, <3>1
  <2>3. ASSUME NEW s \in SUBSET V
        PROVE  s \in Small(Cardinality(V))
    BY FS_Subset
  <2> DEFINE h == [s \in SUBSET V |-> g[s]]
  <2>4. ASSUME NEW s \in SUBSET V
        PROVE  h[s] = Step(h, s)
    <3> HIDE DEF Picked
    <3>1. h[s] = Step(g, s)
      <4> HIDE DEF Small, Step
      <4> QED
        BY <2>2, <2>3, <2>4
    <3>2. s # {} => s \ {Picked(s)} \in SUBSET V
      OBVIOUS
    <3> QED
      BY <3>1, <3>2
  <2>5. h = [s \in SUBSET V |-> Step(h, s)]
    <3> HIDE DEF Step
    <3> QED
      BY <2>4
  <2> QED
    BY <2>5
<1> DEFINE sum == CHOOSE g : IsSum(g)
<1>5. IsSum(sum)
  <2> HIDE DEF IsSum
  <2> QED
    BY <1>4
<1>6. SumFunction(f) = sum[V]
  BY Zenon DEF SumFunction, SumFunctionOnSet, FoldFunctionOnSet, MapThenFoldSet
<1> HIDE DEF sum
<1>7. ASSUME NEW s \in SUBSET V
      PROVE  sum[s] = Step(sum, s)
  BY <1>5, Zenon
<1>8. sum[{}] = 0
  BY <1>7
<1>9. ASSUME NEW s \in SUBSET V, s # {}
      PROVE  \E x \in s : sum[s] = f[x] + sum[s \ {x}]
  <2> HIDE DEF Picked
  <2>1. sum[s] = f[Picked(s)] + sum[s \ {Picked(s)}]
    BY <1>7, <1>9
  <2> QED
    BY <2>1, <1>2, <1>9
<1> QED
  BY <1>6, <1>8, <1>9

\* The sizes of the groups of a set add up to its size.
LEMMA SumOfGroups ==
  ASSUME NEW rows, IsFiniteSet(rows), NEW value, NEW f,
         f = [v \in {value[i] : i \in rows} |-> Cardinality({i \in rows : value[i] = v})]
  PROVE  SumFunction(f) = Cardinality(rows)
<1> DEFINE V == {value[i] : i \in rows}
           In(U) == {i \in rows : value[i] \in U}
<1>1. DOMAIN f = V
  OBVIOUS
<1>2. IsFiniteSet(V)
  <2> DEFINE g == [i \in rows |-> value[i]]
  <2>1. g \in Surjection(rows, V)
    BY DEF Surjection
  <2> QED
    BY <2>1, FS_Surjection
<1>3. PICK g : /\ g[{}] = 0
               /\ \A s \in SUBSET V : s # {} => \E x \in s : g[s] = f[x] + g[s \ {x}]
               /\ g[V] = SumFunction(f)
  BY <1>1, <1>2, SumUnfolds
<1> DEFINE Bad == {U \in SUBSET V : g[U] # Cardinality(In(U))}
<1>4. ASSUME Bad # {}
      PROVE  FALSE
  <2>1. PICK U \in Bad : \A W \in Bad : ~(<<W, U>> \in StrictSubsetOrdering(V))
    <3>1. Bad \subseteq FiniteSubsetsOf(V)
      BY <1>2, FS_FiniteSubsetsOfFinite
    <3> HIDE DEF Bad
    <3> QED
      BY <3>1, <1>4, FS_StrictSubsetOrderingWellFounded, WFMin
  <2>2. CASE U = {}
    <3>1. In(U) = {}
      BY <2>2
    <3> QED
      BY <3>1, <2>1, <2>2, <1>3, FS_EmptySet
  <2>3. CASE U # {}
    <3>1. PICK x \in U : g[U] = f[x] + g[U \ {x}]
      BY <1>3, <2>3
    <3> DEFINE W == U \ {x}
    <3>2. W \notin Bad
      BY <2>1, <3>1 DEF StrictSubsetOrdering
    <3>3. g[W] = Cardinality(In(W))
      BY <3>2
    <3>4. f[x] = Cardinality(In({x}))
      <4>1. In({x}) = {i \in rows : value[i] = x}
        OBVIOUS
      <4> QED
        BY <4>1, <3>1, <2>1
    <3>5. /\ IsFiniteSet(In({x})) /\ Cardinality(In({x})) \in Nat
          /\ IsFiniteSet(In(W)) /\ Cardinality(In(W)) \in Nat
      BY FS_Subset, FS_CardinalityType
    <3>6. In(U) = In({x}) \cup In(W) /\ In({x}) \cap In(W) = {}
      BY <3>1
    <3>7. Cardinality(In(U)) = Cardinality(In({x})) + Cardinality(In(W)) - Cardinality({})
      <4> HIDE DEF In, W
      <4> QED
        BY <3>5, <3>6, FS_Union
    <3> HIDE DEF In, W
    <3> QED
      BY <3>1, <3>3, <3>4, <3>5, <3>7, <2>1, FS_EmptySet DEF W
  <2> QED
    BY <2>2, <2>3
<1>5. g[V] = Cardinality(In(V))
  BY <1>4
<1>6. In(V) = rows
  OBVIOUS
<1> QED
  BY <1>3, <1>5, <1>6

-----------------------------------------------------------------------------
(* What a statement returns                                                *)

\* What the handlers make of a size, a limit and a number of hours.
LEMMA Clamps ==
  /\ {MaxSize, MaxLimit, MaxHours, MaxAudits, MaxTable, MaxClock} \subseteq Nat
  /\ \A size \in Sizes : BindPage(size) \in 1..MaxSize
  /\ \A size \in 1..MaxSize : NormalizePage(size) = size
  /\ \A hours \in Hours : Window(hours) \in Int
  /\ \A limit \in Limits : NormalizedLimit(limit) \in Nat
BY ConstantsAssumption DEF BindPage, NormalizePage, Window, NormalizedLimit

\* The instants of the log are numbers.
LEMMA Instants ==
  ASSUME TypeOK
  PROVE  /\ Len(audits) \in Nat
         /\ DOMAIN audits = 1..Len(audits)
         /\ IsFiniteSet(DOMAIN audits)
         /\ \A i \in DOMAIN audits : audits[i] \in AuditLog /\ audits[i].at \in Nat
<1>1. audits \in Seq(AuditLog)
  BY DEF TypeOK
<1>2. Len(audits) \in Nat /\ DOMAIN audits = 1..Len(audits)
  BY <1>1, LenProperties
<1>3. \A i \in DOMAIN audits : audits[i] \in AuditLog
  BY <1>1, <1>2, ElementOfSeq
<1>4. IsFiniteSet(DOMAIN audits)
  BY <1>2, FS_Interval
<1>5. \A i \in DOMAIN audits : audits[i].at \in Nat
  BY <1>3, Clamps DEF AuditLog
<1> QED
  BY <1>2, <1>3, <1>4, <1>5

\* A part of a finite set is not larger.
LEMMA Smaller ==
  ASSUME NEW T, IsFiniteSet(T), NEW S, S \subseteq T
  PROVE  /\ IsFiniteSet(S)
         /\ Cardinality(S) \in Nat /\ Cardinality(T) \in Nat
         /\ Cardinality(S) <= Cardinality(T)
BY FS_Subset, FS_CardinalityType

\* Two sets without a common element add up.
LEMMA Disjoint ==
  ASSUME NEW S, IsFiniteSet(S), NEW T, IsFiniteSet(T), S \cap T = {}
  PROVE  Cardinality(S \cup T) = Cardinality(S) + Cardinality(T)
<1>1. Cardinality(S \cup T) = Cardinality(S) + Cardinality(T) - Cardinality(S \cap T)
  BY FS_Union
<1>2. Cardinality(S \cap T) = 0
  BY FS_EmptySet
<1>3. Cardinality(S) \in Nat /\ Cardinality(T) \in Nat
  BY FS_CardinalityType
<1> QED
  BY <1>1, <1>2, <1>3

\* An order of rows is a sequence with each of them once, the newest first.
LEMMA Ordered ==
  ASSUME TypeOK, NEW rows, rows \subseteq DOMAIN audits, NEW order \in NewestFirst(rows)
  PROVE  /\ order \in Seq(rows)
         /\ Len(order) = Cardinality(rows)
         /\ \A a, b \in 1..Len(order) : order[a] = order[b] => a = b
         /\ \A i \in rows : \E p \in 1..Len(order) : order[p] = i
         /\ \A a, b \in 1..Len(order) : a < b => audits[order[a]].at >= audits[order[b]].at
<1> DEFINE D == 1..Cardinality(rows)
<1>1. IsFiniteSet(rows) /\ Cardinality(rows) \in Nat
  BY Instants, Smaller
<1>2. /\ order \in [D -> rows]
      /\ \A a, b \in D : a # b => order[a] # order[b]
      /\ \A a, b \in D : a < b => audits[order[a]].at >= audits[order[b]].at
  BY DEF NewestFirst, SetToSeqs
<1>3. order \in Seq(rows) /\ Len(order) = Cardinality(rows)
  BY <1>1, <1>2
<1>4. order \in Injection(D, rows)
  BY <1>2 DEF Injection, IsInjective
<1>5. IsFiniteSet(D) /\ Cardinality(D) = Cardinality(rows)
  BY <1>1, FS_Interval
<1>6. order \in Surjection(D, rows)
  BY <1>1, <1>4, <1>5, FS_Injection
<1> QED
  BY <1>2, <1>3, <1>6 DEF Surjection

\* A row that shares its instant with no other row has one place: there are as
\* many rows up to it as rows that are not older.
LEMMA PlaceOfRow ==
  ASSUME TypeOK, NEW rows, rows \subseteq DOMAIN audits, NEW order \in NewestFirst(rows),
         NEW i \in rows, \A j \in rows \ {i} : audits[j].at # audits[i].at,
         NEW p \in 1..Len(order), order[p] = i
  PROVE  p = Cardinality({j \in rows : audits[j].at >= audits[i].at})
<1> DEFINE upto == {j \in rows : audits[j].at >= audits[i].at}
           place == [q \in 1..p |-> order[q]]
<1>1. /\ order \in [1..Len(order) -> rows] /\ Len(order) \in Nat
      /\ \A a, b \in 1..Len(order) : order[a] = order[b] => a = b
      /\ \A j \in rows : \E q \in 1..Len(order) : order[q] = j
      /\ \A a, b \in 1..Len(order) : a < b => audits[order[a]].at >= audits[order[b]].at
  BY Ordered, LenProperties
<1>2. \A j \in rows : audits[j].at \in Nat
  BY Instants
<1>3. p \in Nat /\ 1..p \subseteq 1..Len(order)
  BY <1>1
<1>4. ASSUME NEW q \in 1..p
      PROVE  place[q] \in upto
  <2>1. q \in 1..Len(order) /\ order[q] \in rows /\ q <= p
    BY <1>1, <1>3
  <2> QED
    BY <2>1, <1>1, <1>2
<1>5. ASSUME NEW j \in upto
      PROVE  \E q \in 1..p : place[q] = j
  <2>1. PICK q \in 1..Len(order) : order[q] = j
    BY <1>1
  <2>2. ~(p < q)
    <3>1. ASSUME p < q
          PROVE  FALSE
      <4>1. audits[i].at >= audits[j].at
        BY <1>1, <2>1, <3>1
      <4>2. audits[i].at = audits[j].at
        BY <4>1, <1>2
      <4> QED
        BY <4>2, <2>1, <3>1, <1>1, <1>3
    <3> QED
      BY <3>1
  <2> QED
    BY <2>1, <2>2
<1>6. place \in Bijection(1..p, upto)
  <2>1. place \in [1..p -> upto]
    BY <1>4
  <2>2. \A a, b \in 1..p : place[a] = place[b] => a = b
    BY <1>1, <1>3
  <2> HIDE DEF upto, place
  <2> QED
    BY <2>1, <2>2, <1>5 DEF Bijection, Injection, IsInjective, Surjection
<1> QED
  BY <1>3, <1>6, FS_CountingElements DEF ExistsBijection

\* LIMIT and OFFSET give the rows from one place on, as many as there are.
LEMMA LimitedTo ==
  ASSUME NEW S, NEW order \in Seq(S), NEW offset \in Nat, NEW limit \in Nat
  PROVE  /\ Limited(order, offset, limit) \in Seq(S)
         /\ Len(Limited(order, offset, limit)) =
               IF Len(order) <= offset THEN 0
               ELSE IF offset + limit <= Len(order) THEN limit
               ELSE Len(order) - offset
         /\ \A p \in 1..Len(Limited(order, offset, limit)) :
               /\ Limited(order, offset, limit)[p] = order[offset + p]
               /\ offset + p \in 1..Len(order)
<1> DEFINE last == Min({offset + limit, Len(order)})
<1>1. Len(order) \in Nat /\ \A p \in 1..Len(order) : order[p] \in S
  BY LenProperties, ElementOfSeq
<1>2. last = IF offset + limit <= Len(order) THEN offset + limit ELSE Len(order)
  BY <1>1 DEF Min
<1> HIDE DEF last
<1>3. last \in Int /\ \A p \in (offset + 1)..last : order[p] \in S
  BY <1>1, <1>2
<1>4. /\ SubSeq(order, offset + 1, last) \in Seq(S)
      /\ Len(SubSeq(order, offset + 1, last)) =
            IF offset + 1 <= last THEN last - (offset + 1) + 1 ELSE 0
      /\ \A p \in 1..(last - (offset + 1) + 1) :
            SubSeq(order, offset + 1, last)[p] = order[(offset + 1) + p - 1]
  BY <1>3, SubSeqProperties
<1>5. Limited(order, offset, limit) = SubSeq(order, offset + 1, last)
  BY DEF Limited, last
<1> DEFINE shown == Limited(order, offset, limit)
<1>6. shown \in Seq(S)
  BY <1>4, <1>5
<1>7. Len(shown) = IF Len(order) <= offset THEN 0
                   ELSE IF offset + limit <= Len(order) THEN limit
                   ELSE Len(order) - offset
  <2>1. Len(shown) = IF offset + 1 <= last THEN last - (offset + 1) + 1 ELSE 0
    BY <1>4, <1>5
  <2> HIDE DEF shown
  <2> QED
    BY <2>1, <1>1, <1>2
<1>8. \A p \in 1..Len(shown) : /\ offset + p \in 1..Len(order)
                               /\ p \in 1..(last - (offset + 1) + 1)
                               /\ (offset + 1) + p - 1 = offset + p
  <2> HIDE DEF shown
  <2> QED
    BY <1>1, <1>2, <1>7
<1>9. \A p \in 1..Len(shown) : shown[p] = order[offset + p]
  <2>1. \A p \in 1..(last - (offset + 1) + 1) : shown[p] = order[(offset + 1) + p - 1]
    BY <1>4, <1>5
  <2> HIDE DEF shown
  <2> QED
    BY <2>1, <1>8
<1> QED
  BY <1>6, <1>7, <1>8, <1>9

-----------------------------------------------------------------------------
(* The log and the tables                                                  *)

Waiting == {w \in Writers : writers[w] # None}

\* There is room in the log for the audits still to come.
AuditsBounded == Len(audits) + Cardinality(Waiting) <= MaxAudits

PendingSeen == \A w \in Waiting : writers[w].seen <= Len(audits)

\* A change is not stamped earlier than one that was in the log when it was made.
StampsInOrder ==
    /\ \A i \in DOMAIN audits :
          /\ audits[i].at <= clock
          /\ \A k \in 1..audits[i].seen : audits[k].at <= audits[i].at
    /\ \A w \in Waiting : writers[w].at # None =>
          /\ writers[w].at <= clock
          /\ \A k \in 1..writers[w].seen : audits[k].at <= writers[w].at

Logged(type, action) ==
    {i \in DOMAIN audits : audits[i].kind.type = type /\ audits[i].kind.action = action}

Unlogged(type, action) ==
    {w \in Waiting : writers[w].kind.type = type /\ writers[w].kind.action = action}

Changes(type, action) ==
    Cardinality(Logged(type, action)) + Cardinality(Unlogged(type, action))

\* A table holds the rows it was seeded with and those whose creation is or will be
\* audited, and those whose deletion is or will be are marked.
RowsExplained ==
    \A type \in Types :
        /\ Seeded + Changes(type, "create") <= Total(tables[type]) + tables[type].deleted
        /\ Changes(type, "delete") <= tables[type].deleted

LogInv == TypeOK /\ AuditsBounded /\ PendingSeen /\ StampsInOrder /\ RowsExplained

ReaderStep ==
    \/ ListAudits \/ CountAudits \/ FindAudits
    \/ EntityHistory \/ FindHistory
    \/ AuditSummary \/ SummarizeAudits
    \/ Overview \/ StatusCounts
    \/ ReadEnds

\* Readers change nothing but their own request.
LEMMA ReadersOnlyRead ==
  ReaderStep => UNCHANGED <<tables, audits, clock, writers>>
BY DEF ReaderStep, ListAudits, CountAudits, FindAudits, EntityHistory, FindHistory,
       AuditSummary, SummarizeAudits, Overview, StatusCounts, ReadEnds

Table == [{"first", "later", "deleted"} -> 0..MaxTable]

\* What a change does to the numbers of rows.
LEMMA ChangedRows ==
  ASSUME NEW row \in Table, NEW action \in {"create", "update", "transition", "delete"},
         NEW rows \in Changed(row, action), Total(rows) + rows.deleted <= MaxTable
  PROVE  /\ rows \in Table
         /\ Total(rows) + rows.deleted =
               Total(row) + row.deleted + (IF action = "create" THEN 1 ELSE 0)
         /\ rows.deleted = row.deleted + (IF action = "delete" THEN 1 ELSE 0)
<1>1. MaxTable \in Nat
  BY Clamps
<1>2. CASE action = "create"
  BY <1>1, <1>2 DEF Changed, Table, Total
<1>3. CASE action = "update"
  <2>1. rows = row
    BY <1>3 DEF Changed
  <2>2. /\ row["first"] \in 0..MaxTable /\ row["later"] \in 0..MaxTable
        /\ row["deleted"] \in 0..MaxTable
    BY DEF Table
  <2> QED
    BY <1>1, <1>3, <2>1, <2>2 DEF Total
<1>4. CASE action = "transition"
  <2>1. PICK from \in Holding(row) : \E to \in Statuses \ {from} :
           rows = [row EXCEPT ![from] = @ - 1, ![to] = @ + 1]
    BY <1>4 DEF Changed
  <2> QED
    BY <1>1, <1>4, <2>1 DEF Table, Total, Holding, Statuses
<1>5. CASE action = "delete"
  <2>1. PICK from \in Holding(row) : rows = [row EXCEPT ![from] = @ - 1, !.deleted = @ + 1]
    BY <1>5 DEF Changed
  <2>2. /\ row["first"] \in 0..MaxTable /\ row["later"] \in 0..MaxTable
        /\ row["deleted"] \in 0..MaxTable /\ row[from] > 0
    BY <2>1 DEF Table, Holding
  <2>3. CASE from = "first"
    <3>1. /\ rows = [row EXCEPT !["first"] = row["first"] - 1, !["deleted"] = row["deleted"] + 1]
          /\ row["first"] > 0
      BY <2>1, <2>2, <2>3
    <3>2. /\ rows["first"] = row["first"] - 1 /\ rows["later"] = row["later"]
          /\ rows["deleted"] = row["deleted"] + 1
          /\ rows \in [{"first", "later", "deleted"} -> Int]
      BY <3>1, <2>2 DEF Table
    <3> QED
      BY <1>1, <1>5, <2>2, <3>1, <3>2 DEF Table, Total
  <2>4. CASE from = "later"
    <3>1. /\ rows = [row EXCEPT !["later"] = row["later"] - 1, !["deleted"] = row["deleted"] + 1]
          /\ row["later"] > 0
      BY <2>1, <2>2, <2>4
    <3>2. /\ rows["first"] = row["first"] /\ rows["later"] = row["later"] - 1
          /\ rows["deleted"] = row["deleted"] + 1
          /\ rows \in [{"first", "later", "deleted"} -> Int]
      BY <3>1, <2>2 DEF Table
    <3> QED
      BY <1>1, <1>5, <2>2, <3>1, <3>2 DEF Table, Total
  <2> QED
    BY <2>1, <2>3, <2>4 DEF Holding, Statuses
<1> QED
  BY <1>2, <1>4, <1>5, <1>3

\* The type invariant, of a table and of a writer.
LEMMA Typed ==
  ASSUME TypeOK
  PROVE  /\ \A type \in Types : tables[type] \in Table
         /\ \A w \in Waiting : writers[w] \in Pending
         /\ \A w \in Waiting : writers[w].kind \in Kinds /\ writers[w].seen \in 0..MaxAudits
         /\ IsFiniteSet(Waiting) /\ Cardinality(Waiting) \in Nat
<1>1. IsFiniteSet(Writers)
  BY ConstantsAssumption
<1>2. IsFiniteSet(Waiting) /\ Cardinality(Waiting) \in Nat
  BY <1>1, Smaller DEF Waiting
<1> QED
  BY <1>2 DEF TypeOK, Table, Waiting, Pending

\* The log starts empty, and no change is waiting for its audit.
LEMMA InitLog == Init => LogInv
<1> SUFFICES ASSUME Init
             PROVE  LogInv
  OBVIOUS
<1>1. Waiting = {} /\ Len(audits) = 0 /\ DOMAIN audits = {}
  BY EmptySeq DEF Init, Waiting
<1>2. TypeOK
  <2>1. Seeded \in 0..MaxTable /\ MaxTable \in Nat /\ MaxClock \in Nat
    BY ConstantsAssumption
  <2>2. tables \in [Types -> [{"first", "later", "deleted"} -> 0..MaxTable]]
    BY <2>1 DEF Init
  <2> QED
    BY <1>1, <2>1, <2>2, EmptySeq DEF Init, TypeOK
<1>3. AuditsBounded
  BY <1>1, FS_EmptySet, Clamps DEF AuditsBounded
<1>4. RowsExplained
  <2>1. \A type, action : Changes(type, action) = 0
    BY <1>1, FS_EmptySet DEF Changes, Logged, Unlogged
  <2>2. \A type \in Types : /\ tables[type].deleted = 0
                            /\ Total(tables[type]) = Seeded
    BY ConstantsAssumption DEF Init, Total
  <2> QED
    BY <2>1, <2>2, ConstantsAssumption DEF RowsExplained
<1> QED
  BY <1>1, <1>2, <1>3, <1>4 DEF LogInv, PendingSeen, StampsInOrder

-----------------------------------------------------------------------------
(* The reader                                                              *)

\* No other row has the instant of row i.
Alone(i) == \A j \in DOMAIN audits \ {i} : audits[j].at # audits[i].at

NotOlder(search, i) == {j \in Matching(search) : audits[j].at >= audits[i].at}

\* A row that is owed and has its instant to itself is still to come: the pages
\* turned so far were filled by rows that are not older.
PagesInv ==
    Answered("pages") => \E search \in Searches :
        /\ reader \in [report : {"pages"}, search : {search}, size : 1..MaxSize,
                       page : Nat \ {0}, owed : SUBSET Matching(search),
                       total : Nat \cup {None}, last : Nat \cup {None}]
        /\ reader.total # None => reader.total <= Cardinality(Matching(search))
        /\ reader.last # None =>
              (reader.page - 1) * reader.size + reader.last >= reader.total
        /\ \A i \in reader.owed : Alone(i) =>
              /\ reader.last = None
              /\ Cardinality(NotOlder(search, i)) > (reader.page - 1) * reader.size

HistoryInv ==
    Answered("history") =>
        /\ reader \in [report : {"history"}, type : Types, item : {kind.item : kind \in Kinds},
                       limit : Nat, from : Nat, items : Seq(Nat) \cup {None}]
        /\ reader.from <= Len(audits)
        /\ reader.items # None => reader.items \in Seq(1..Len(audits))
        /\ HistoryInOrder
        /\ HistoryNewest

FigureOf(k, since, n) ==
    CASE k = 1 -> Cardinality(Since(since, n))
      [] k = 2 -> Transitions(since, n)
      [] k = 3 -> UniqueActors(since, n)
      [] k = 4 -> Actions(since, n)
      [] k = 5 -> EntityTypes(since, n)

\* The figures were read from a log that grew from one to the next.
FiguresOfGrowingLog ==
    \E n \in [1..5 -> reader.from..Len(audits)] :
        \A k \in 1..Len(reader.figures) :
            /\ reader.figures[k] = FigureOf(k, reader.since, n[k])
            /\ \A j \in 1..k : n[j] <= n[k]

SummaryInv ==
    Answered("summary") =>
        /\ reader = [report |-> "summary", since |-> reader.since, from |-> reader.from,
                     figures |-> reader.figures]
        /\ reader.since \in Int
        /\ reader.from \in 0..Len(audits)
        /\ Len(reader.figures) \in 0..5
        /\ reader.figures = [k \in 1..Len(reader.figures) |-> reader.figures[k]]
        /\ FiguresOfGrowingLog

OverviewInv ==
    Answered("overview") =>
        /\ reader = [report |-> "overview", from |-> reader.from, figures |-> reader.figures]
        /\ reader.from \in 0..Len(audits)
        /\ reader.figures \in Seq([{"first", "later"} -> Nat])
        /\ Len(reader.figures) <= 4
        /\ OverviewKeepsUp

ReaderInv == PagesInv /\ HistoryInv /\ SummaryInv /\ OverviewInv

ReportInv == LogInv /\ ReaderInv

-----------------------------------------------------------------------------
(* The log grows as it should                                              *)

\* What becomes of the log in a step: rows are only appended.
LEMMA LogGrows ==
  ASSUME TypeOK, [Next]_vars
  PROVE  /\ DOMAIN audits \subseteq DOMAIN audits' /\ Len(audits) <= Len(audits')
         /\ \A i \in DOMAIN audits : audits'[i] = audits[i]
         /\ DOMAIN audits = 1..Len(audits) /\ Len(audits) \in Nat
<1>1. audits' = audits \/ \E w \in Writers : audits' = Append(audits, writers[w])
  BY ReadersOnlyRead
     DEF Next, ReaderStep, vars, Change, Stamp, AppendAudit, AuditLost, Tick
<1>2. Len(audits) \in Nat /\ DOMAIN audits = 1..Len(audits)
  BY Instants
<1>3. CASE audits' = audits
  BY <1>2, <1>3
<1>4. ASSUME NEW w \in Writers, audits' = Append(audits, writers[w])
      PROVE  /\ DOMAIN audits' = 1..(Len(audits) + 1) /\ Len(audits') = Len(audits) + 1
             /\ \A i \in DOMAIN audits : audits'[i] = audits[i]
  <2> DEFINE S == AuditLog \cup {writers[w]}
  <2>1. audits \in Seq(S) /\ writers[w] \in S
    BY SeqMonotonic DEF TypeOK
  <2> HIDE DEF S
  <2>2. /\ audits' \in Seq(S) /\ Len(audits') = Len(audits) + 1
        /\ \A i \in 1..Len(audits) : audits'[i] = audits[i]
    BY <1>4, <2>1, AppendProperties
  <2> QED
    BY <2>2, <1>2, LenProperties
<1> QED
  BY <1>1, <1>2, <1>3, <1>4

WriterStep(w) == Change(w) \/ Stamp(w) \/ AppendAudit(w) \/ AuditLost(w)

\* Only writers and the clock change more than the reader.
LEMMA Steps ==
  [Next]_vars => \/ \E w \in Writers : WriterStep(w)
                 \/ Tick
                 \/ UNCHANGED <<tables, audits, clock, writers>>
BY ReadersOnlyRead DEF Next, ReaderStep, vars, WriterStep

\* A step of one writer leaves the others where they are.
LEMMA WritersApart ==
  ASSUME TypeOK, NEW w \in Writers, WriterStep(w)
  PROVE  \A v \in Writers \ {w} : writers'[v] = writers[v]
BY DEF TypeOK, WriterStep, Change, Stamp, AppendAudit, AuditLost

\* What a change does.
LEMMA ChangeEffect ==
  ASSUME TypeOK, NEW w \in Writers, Change(w)
  PROVE  /\ w \notin Waiting
         /\ Len(audits) + Cardinality(Waiting) < MaxAudits
         /\ \E kind \in Kinds :
              \E rows \in Changed(tables[kind.type], kind.action) :
                 /\ Total(rows) + rows.deleted <= MaxTable
                 /\ tables' = [tables EXCEPT ![kind.type] = rows]
                 /\ writers' = [writers EXCEPT ![w] =
                                  [kind |-> kind, at |-> None, seen |-> Len(audits)]]
                 /\ writers'[w] = [kind |-> kind, at |-> None, seen |-> Len(audits)]
         /\ Waiting' \subseteq Waiting \cup {w}
         /\ UNCHANGED <<audits, clock>>
BY DEF Change, TypeOK, Waiting

\* What a stamp does.
LEMMA StampEffect ==
  ASSUME TypeOK, NEW w \in Writers, Stamp(w)
  PROVE  /\ w \in Waiting
         /\ writers'[w] = [writers[w] EXCEPT !.at = clock]
         /\ writers'[w].kind = writers[w].kind /\ writers'[w].seen = writers[w].seen
         /\ writers'[w].at = clock
         /\ writers' = [writers EXCEPT ![w] = writers'[w]]
         /\ Waiting' \subseteq Waiting
         /\ UNCHANGED <<tables, audits, clock>>
<1>1. w \in Waiting /\ writers[w] \in Pending
  BY Typed DEF Stamp, Waiting
<1>2. writers' = [writers EXCEPT ![w] = [writers[w] EXCEPT !.at = clock]]
  BY DEF Stamp
<1>3. writers'[w] = [writers[w] EXCEPT !.at = clock]
  BY <1>2 DEF TypeOK
<1>4. \A v \in Writers \ {w} : writers'[v] = writers[v]
  BY <1>2 DEF TypeOK
<1>5. Waiting' \subseteq Waiting
  BY <1>1, <1>4 DEF Waiting
<1> QED
  BY <1>1, <1>2, <1>3, <1>5 DEF Stamp, Pending

\* What an insertion does.
LEMMA AppendEffect ==
  ASSUME TypeOK, NEW w \in Writers, AppendAudit(w)
  PROVE  /\ w \in Waiting /\ writers[w].at \in 0..MaxClock
         /\ writers[w] \in AuditLog
         /\ audits' \in Seq(AuditLog)
         /\ Len(audits') = Len(audits) + 1
         /\ DOMAIN audits' = 1..(Len(audits) + 1)
         /\ \A i \in 1..Len(audits) : audits'[i] = audits[i]
         /\ audits'[Len(audits) + 1] = writers[w]
         /\ writers' = [writers EXCEPT ![w] = None]
         /\ Waiting' = Waiting \ {w}
         /\ UNCHANGED <<tables, clock>>
<1>1. w \in Waiting /\ writers[w].at # None
  BY DEF AppendAudit, Waiting
<1>2. writers[w] \in Pending
  BY <1>1, Typed
<1>3. writers[w] \in AuditLog /\ writers[w].at \in 0..MaxClock
  BY <1>1, <1>2 DEF Pending, AuditLog
<1>4. audits \in Seq(AuditLog) /\ audits' = Append(audits, writers[w])
  BY DEF TypeOK, AppendAudit
<1>5. /\ audits' \in Seq(AuditLog) /\ Len(audits') = Len(audits) + 1
      /\ \A i \in 1..Len(audits) : audits'[i] = audits[i]
      /\ audits'[Len(audits) + 1] = writers[w]
  BY <1>3, <1>4, AppendProperties
<1>6. DOMAIN audits' = 1..(Len(audits) + 1)
  BY <1>5, LenProperties
<1>7. writers' = [writers EXCEPT ![w] = None] /\ Waiting' = Waiting \ {w}
  BY DEF AppendAudit, Waiting, TypeOK
<1> QED
  BY <1>1, <1>3, <1>5, <1>6, <1>7 DEF AppendAudit

\* What a lost audit does.
LEMMA LostEffect ==
  ASSUME TypeOK, NEW w \in Writers, AuditLost(w)
  PROVE  /\ w \in Waiting
         /\ writers' = [writers EXCEPT ![w] = None]
         /\ Waiting' = Waiting \ {w}
         /\ UNCHANGED <<tables, audits, clock>>
BY DEF AuditLost, Waiting, TypeOK

\* Every step keeps the types; there is room for the audits that are waiting.
LEMMA TypesKept ==
  ASSUME TypeOK, AuditsBounded, PendingSeen, [Next]_vars
  PROVE  TypeOK' /\ AuditsBounded' /\ PendingSeen'
<1>1. /\ Len(audits) \in Nat /\ DOMAIN audits = 1..Len(audits)
      /\ IsFiniteSet(Waiting) /\ Cardinality(Waiting) \in Nat
      /\ MaxAudits \in Nat /\ MaxClock \in Nat /\ MaxTable \in Nat
  BY Instants, Typed, Clamps
<1>2. ASSUME NEW w \in Writers, Change(w)
      PROVE  TypeOK' /\ AuditsBounded' /\ PendingSeen'
  <2>1. PICK kind \in Kinds : \E rows \in Changed(tables[kind.type], kind.action) :
           /\ Total(rows) + rows.deleted <= MaxTable
           /\ tables' = [tables EXCEPT ![kind.type] = rows]
           /\ writers' = [writers EXCEPT ![w] =
                            [kind |-> kind, at |-> None, seen |-> Len(audits)]]
           /\ writers'[w] = [kind |-> kind, at |-> None, seen |-> Len(audits)]
    BY <1>2, ChangeEffect
  <2>2. PICK rows \in Changed(tables[kind.type], kind.action) :
           /\ Total(rows) + rows.deleted <= MaxTable
           /\ tables' = [tables EXCEPT ![kind.type] = rows]
    BY <2>1
  <2>3. kind.type \in Types /\ kind.action \in {"create", "update", "transition", "delete"}
    BY KindsAssumption
  <2>4. rows \in Table
    BY <2>2, <2>3, Typed, ChangedRows
  <2>5. Len(audits) + Cardinality(Waiting) < MaxAudits /\ Waiting' \subseteq Waiting \cup {w}
        /\ UNCHANGED <<audits, clock>>
    BY <1>2, ChangeEffect
  <2>6. tables' \in [Types -> [{"first", "later", "deleted"} -> 0..MaxTable]]
    BY <2>2, <2>4 DEF TypeOK, Table
  <2>7. [kind |-> kind, at |-> None, seen |-> Len(audits)] \in Pending
    BY <1>1, <2>5 DEF Pending
  <2>8. writers' \in [Writers -> Pending \cup {None}]
    BY <2>1, <2>7 DEF TypeOK
  <2>9. TypeOK'
    BY <2>5, <2>6, <2>8 DEF TypeOK, AuditLog, Pending
  <2>10. AuditsBounded'
    <3>1. IsFiniteSet(Waiting \cup {w}) /\ Cardinality(Waiting \cup {w}) <= Cardinality(Waiting) + 1
      <4>1. w \notin Waiting
        BY <1>2, ChangeEffect
      <4>2. /\ IsFiniteSet(Waiting \cup {w})
            /\ Cardinality(Waiting \cup {w}) = Cardinality(Waiting) + 1
        BY <1>1, <4>1, FS_AddElement
      <4> QED
        BY <1>1, <4>2
    <3>2. /\ Cardinality(Waiting') \in Nat /\ Cardinality(Waiting \cup {w}) \in Nat
          /\ Cardinality(Waiting') <= Cardinality(Waiting \cup {w})
      BY <2>5, <3>1, Smaller
    <3> QED
      BY <1>1, <2>5, <3>1, <3>2 DEF AuditsBounded
  <2>11. PendingSeen'
    <3>1. ASSUME NEW v \in Waiting'
          PROVE  writers'[v].seen <= Len(audits')
      <4>1. CASE v = w
        BY <1>1, <2>1, <2>5, <4>1
      <4>2. CASE v # w
        <5>1. v \in Waiting /\ v \in Writers /\ writers'[v] = writers[v]
          BY <1>2, <2>5, <4>2, WritersApart DEF WriterStep, Waiting
        <5> QED
          BY <5>1, <2>5 DEF PendingSeen
      <4> QED
        BY <4>1, <4>2
    <3> QED
      BY <3>1 DEF PendingSeen
  <2> QED
    BY <2>9, <2>10, <2>11
<1>3. ASSUME NEW w \in Writers, Stamp(w)
      PROVE  TypeOK' /\ AuditsBounded' /\ PendingSeen'
  <2>1. /\ w \in Waiting /\ writers[w] \in Pending /\ clock \in 0..MaxClock
        /\ writers'[w] = [writers[w] EXCEPT !.at = clock]
        /\ writers'[w].seen = writers[w].seen
        /\ writers' = [writers EXCEPT ![w] = writers'[w]]
        /\ Waiting' \subseteq Waiting
        /\ UNCHANGED <<tables, audits, clock>>
    BY <1>3, StampEffect, Typed DEF TypeOK
  <2>2. writers'[w] \in Pending
    BY <2>1 DEF Pending
  <2>3. TypeOK'
    <3> DEFINE r == writers'[w]
    <3>1. writers' = [writers EXCEPT ![w] = r] /\ r \in Pending
      BY <2>1, <2>2
    <3> HIDE DEF r
    <3>2. writers' \in [Writers -> Pending \cup {None}]
      BY <3>1 DEF TypeOK
    <3> QED
      BY <2>1, <3>2 DEF TypeOK, AuditLog, Pending
  <2>4. AuditsBounded'
    <3>1. Cardinality(Waiting') \in Nat /\ Cardinality(Waiting') <= Cardinality(Waiting)
      BY <1>1, <2>1, Smaller
    <3> QED
      BY <1>1, <2>1, <3>1 DEF AuditsBounded
  <2>5. PendingSeen'
    BY <1>3, <2>1, WritersApart DEF PendingSeen, WriterStep, Waiting
  <2> QED
    BY <2>3, <2>4, <2>5
<1>4. ASSUME NEW w \in Writers, AppendAudit(w)
      PROVE  TypeOK' /\ AuditsBounded' /\ PendingSeen'
  <2>1. /\ w \in Waiting
        /\ audits' \in Seq(AuditLog)
        /\ Len(audits') = Len(audits) + 1
        /\ DOMAIN audits' = 1..(Len(audits) + 1)
        /\ \A i \in 1..Len(audits) : audits'[i] = audits[i]
        /\ audits'[Len(audits) + 1] = writers[w]
        /\ writers' = [writers EXCEPT ![w] = None]
        /\ Waiting' = Waiting \ {w}
        /\ UNCHANGED <<tables, clock>>
    BY <1>4, AppendEffect
  <2>2. writers[w].seen <= Len(audits) /\ writers[w].seen \in Nat
    BY <1>1, <2>1, Typed DEF PendingSeen
  <2>3. \A i \in DOMAIN audits' : audits'[i].seen < i
    BY <1>1, <2>1, <2>2 DEF TypeOK
  <2>4. writers' \in [Writers -> Pending \cup {None}]
    BY <2>1 DEF TypeOK
  <2>5. TypeOK'
    BY <2>1, <2>3, <2>4 DEF TypeOK, AuditLog, Pending
  <2>6. Cardinality(Waiting') = Cardinality(Waiting) - 1
    BY <1>1, <2>1, FS_RemoveElement
  <2>7. AuditsBounded'
    BY <1>1, <2>1, <2>6 DEF AuditsBounded
  <2>8. PendingSeen'
    <3>1. ASSUME NEW v \in Waiting'
          PROVE  writers'[v].seen <= Len(audits')
      <4>1. v \in Waiting /\ writers'[v] = writers[v]
        BY <1>4, <2>1, WritersApart DEF WriterStep, Waiting
      <4>2. writers[v].seen <= Len(audits) /\ writers[v].seen \in Nat
        BY <4>1, Typed DEF PendingSeen
      <4> QED
        BY <4>1, <4>2, <2>1, <1>1
    <3> QED
      BY <3>1 DEF PendingSeen
  <2> QED
    BY <2>5, <2>7, <2>8
<1>5. ASSUME NEW w \in Writers, AuditLost(w)
      PROVE  TypeOK' /\ AuditsBounded' /\ PendingSeen'
  <2>1. /\ writers' = [writers EXCEPT ![w] = None]
        /\ Waiting' = Waiting \ {w}
        /\ UNCHANGED <<tables, audits, clock>>
    BY <1>5, LostEffect
  <2>2. writers' \in [Writers -> Pending \cup {None}]
    BY <2>1 DEF TypeOK
  <2>3. TypeOK'
    BY <2>1, <2>2 DEF TypeOK, AuditLog, Pending
  <2>4. Cardinality(Waiting') \in Nat /\ Cardinality(Waiting') <= Cardinality(Waiting)
    BY <1>1, <2>1, Smaller
  <2>5. AuditsBounded'
    BY <1>1, <2>1, <2>4 DEF AuditsBounded
  <2>6. PendingSeen'
    BY <1>5, <2>1, WritersApart DEF PendingSeen, WriterStep, Waiting
  <2> QED
    BY <2>3, <2>5, <2>6
<1>6. CASE Tick
  BY <1>1, <1>6 DEF Tick, TypeOK, AuditsBounded, PendingSeen, Waiting, AuditLog, Pending
<1>7. CASE UNCHANGED <<tables, audits, clock, writers>>
  BY <1>7 DEF TypeOK, AuditsBounded, PendingSeen, Waiting, AuditLog, Pending
<1> QED
  BY <1>2, <1>3, <1>4, <1>5, <1>6, <1>7, Steps DEF WriterStep

\* The clock does not go back: a stamp is not earlier than one already in the log.
LEMMA StampsKept ==
  ASSUME TypeOK, PendingSeen, StampsInOrder, [Next]_vars
  PROVE  StampsInOrder'
<1>1. /\ Len(audits) \in Nat /\ DOMAIN audits = 1..Len(audits)
      /\ MaxClock \in Nat /\ clock \in Nat
      /\ \A i \in DOMAIN audits : audits[i].seen < i /\ audits[i].seen \in Nat
  BY Instants, Clamps DEF TypeOK, AuditLog
<1>2. \A w \in Waiting : writers[w].seen \in Nat /\ writers[w].seen <= Len(audits)
  BY Typed DEF PendingSeen
<1>3. ASSUME NEW w \in Writers, Change(w)
      PROVE  StampsInOrder'
  <2>1. /\ writers'[w].at = None
        /\ Waiting' \subseteq Waiting \cup {w}
        /\ UNCHANGED <<audits, clock>>
    <3>1. \E kind \in Kinds :
             writers'[w] = [kind |-> kind, at |-> None, seen |-> Len(audits)]
      BY <1>3, ChangeEffect
    <3> QED
      BY <1>3, <3>1, ChangeEffect
  <2>2. \A v \in Waiting' \ {w} : v \in Waiting /\ writers'[v] = writers[v]
    BY <1>3, <2>1, WritersApart DEF WriterStep, Waiting
  <2> QED
    BY <2>1, <2>2 DEF StampsInOrder
<1>4. ASSUME NEW w \in Writers, Stamp(w)
      PROVE  StampsInOrder'
  <2>1. /\ w \in Waiting /\ Waiting' \subseteq Waiting
        /\ writers'[w].seen = writers[w].seen /\ writers'[w].at = clock
        /\ UNCHANGED <<audits, clock>>
    BY <1>4, StampEffect
  <2>2. \A k \in 1..writers[w].seen : audits[k].at <= clock
    BY <1>1, <1>2, <2>1 DEF StampsInOrder
  <2>3. \A v \in Waiting' \ {w} : v \in Waiting /\ writers'[v] = writers[v]
    BY <1>4, <2>1, WritersApart DEF WriterStep, Waiting
  <2> QED
    BY <1>1, <2>1, <2>2, <2>3 DEF StampsInOrder
<1>5. ASSUME NEW w \in Writers, AppendAudit(w)
      PROVE  StampsInOrder'
  <2>1. /\ w \in Waiting /\ writers[w].at \in 0..MaxClock
        /\ DOMAIN audits' = 1..(Len(audits) + 1)
        /\ \A i \in 1..Len(audits) : audits'[i] = audits[i]
        /\ audits'[Len(audits) + 1] = writers[w]
        /\ Waiting' = Waiting \ {w}
        /\ clock' = clock
    BY <1>5, AppendEffect
  <2>2. writers[w].at # None
    BY <1>5 DEF AppendAudit
  <2>3. ASSUME NEW i \in DOMAIN audits'
        PROVE  /\ audits'[i].at <= clock
               /\ \A k \in 1..audits'[i].seen : audits'[k].at <= audits'[i].at
    <3>1. CASE i \in DOMAIN audits
      <4>1. /\ audits'[i] = audits[i]
            /\ \A k \in 1..audits[i].seen : audits'[k] = audits[k]
        BY <1>1, <2>1, <3>1
      <4> QED
        BY <4>1, <3>1 DEF StampsInOrder
    <3>2. CASE i = Len(audits) + 1
      <4>1. /\ audits'[i] = writers[w]
            /\ \A k \in 1..writers[w].seen : audits'[k] = audits[k]
        BY <1>1, <1>2, <2>1, <3>2
      <4> QED
        BY <4>1, <2>1, <2>2 DEF StampsInOrder
    <3> QED
      BY <1>1, <2>1, <3>1, <3>2
  <2>4. ASSUME NEW v \in Waiting', writers'[v].at # None
        PROVE  /\ writers'[v].at <= clock
               /\ \A k \in 1..writers'[v].seen : audits'[k].at <= writers'[v].at
    <3>1. v \in Waiting /\ writers'[v] = writers[v]
      BY <1>5, <2>1, WritersApart DEF WriterStep, Waiting
    <3>2. \A k \in 1..writers[v].seen : audits'[k] = audits[k]
      BY <1>1, <1>2, <2>1, <3>1
    <3> QED
      BY <2>4, <3>1, <3>2 DEF StampsInOrder
  <2> QED
    BY <2>1, <2>3, <2>4 DEF StampsInOrder
<1>6. ASSUME NEW w \in Writers, AuditLost(w)
      PROVE  StampsInOrder'
  <2>1. Waiting' = Waiting \ {w} /\ UNCHANGED <<audits, clock>>
    BY <1>6, LostEffect
  <2>2. \A v \in Waiting' : v \in Waiting /\ writers'[v] = writers[v]
    BY <1>6, <2>1, WritersApart DEF WriterStep, Waiting
  <2> QED
    BY <2>1, <2>2 DEF StampsInOrder
<1>7. CASE Tick
  <2>1. clock' = clock + 1 /\ UNCHANGED <<audits, writers>> /\ Waiting' = Waiting
    BY <1>7 DEF Tick, Waiting
  <2>2. \A i \in DOMAIN audits : audits[i].at \in Nat
    BY Instants
  <2>3. \A w \in Waiting : writers[w].at # None => writers[w].at \in Nat
    BY Typed, <1>1 DEF Pending
  <2> QED
    BY <1>1, <2>1, <2>2, <2>3 DEF StampsInOrder
<1>8. CASE UNCHANGED <<tables, audits, clock, writers>>
  BY <1>8 DEF StampsInOrder, Waiting
<1> QED
  BY <1>3, <1>4, <1>5, <1>6, <1>7, <1>8, Steps DEF WriterStep

\* The audits of a kind, logged and waiting, are finitely many.
LEMMA Counted ==
  ASSUME TypeOK, NEW type, NEW action
  PROVE  /\ IsFiniteSet(Logged(type, action)) /\ Cardinality(Logged(type, action)) \in Nat
         /\ IsFiniteSet(Unlogged(type, action)) /\ Cardinality(Unlogged(type, action)) \in Nat
<1>1. Logged(type, action) \subseteq DOMAIN audits /\ IsFiniteSet(DOMAIN audits)
  BY Instants DEF Logged
<1>2. Unlogged(type, action) \subseteq Waiting /\ IsFiniteSet(Waiting)
  BY Typed DEF Unlogged
<1> QED
  BY <1>1, <1>2, Smaller

\* A table has a number of rows.
LEMMA Totals ==
  ASSUME TypeOK, NEW type \in Types
  PROVE  Total(tables[type]) \in Nat /\ tables[type].deleted \in Nat
BY Typed, Clamps DEF Table, Total

LEMMA SeededRows == Seeded \in Nat
BY ConstantsAssumption

\* Only a change of that kind adds to the changes, and an append to the log
\* moves one.
LEMMA ChangesKept ==
  ASSUME TypeOK, [Next]_vars, NEW type, NEW action,
         ~\E w \in Writers : Change(w) /\ writers'[w].kind.type = type
                                       /\ writers'[w].kind.action = action
  PROVE  Changes(type, action)' <= Changes(type, action)
<1>1. /\ IsFiniteSet(Logged(type, action)) /\ Cardinality(Logged(type, action)) \in Nat
      /\ IsFiniteSet(Unlogged(type, action)) /\ Cardinality(Unlogged(type, action)) \in Nat
      /\ Len(audits) \in Nat /\ DOMAIN audits = 1..Len(audits)
  BY Counted, Instants
<1>2. ASSUME NEW w \in Writers, Change(w)
      PROVE  /\ Logged(type, action)' = Logged(type, action)
             /\ Unlogged(type, action)' \subseteq Unlogged(type, action)
  <2>1. /\ Waiting' \subseteq Waiting \cup {w}
        /\ audits' = audits
    BY <1>2, ChangeEffect
  <2>2. w \notin Unlogged(type, action)'
    BY <1>2 DEF Unlogged
  <2>3. \A v \in Waiting' \ {w} : v \in Waiting /\ writers'[v] = writers[v]
    BY <1>2, <2>1, WritersApart DEF WriterStep, Waiting
  <2> QED
    BY <2>1, <2>2, <2>3 DEF Logged, Unlogged
<1>3. ASSUME NEW w \in Writers, Stamp(w)
      PROVE  /\ Logged(type, action)' = Logged(type, action)
             /\ Unlogged(type, action)' \subseteq Unlogged(type, action)
  <2>1. /\ Waiting' \subseteq Waiting /\ w \in Waiting
        /\ audits' = audits
        /\ writers'[w].kind = writers[w].kind
    BY <1>3, StampEffect
  <2>2. \A v \in Waiting' : v \in Waiting /\ writers'[v].kind = writers[v].kind
    BY <1>3, <2>1, WritersApart DEF WriterStep, Waiting
  <2> QED
    BY <2>1, <2>2 DEF Logged, Unlogged
<1>4. ASSUME NEW w \in Writers, AppendAudit(w)
      PROVE  \/ /\ Logged(type, action)' = Logged(type, action)
                /\ Unlogged(type, action)' \subseteq Unlogged(type, action)
             \/ /\ Logged(type, action)' = Logged(type, action) \cup {Len(audits) + 1}
                /\ Unlogged(type, action)' = Unlogged(type, action) \ {w}
                /\ w \in Unlogged(type, action)
                /\ Len(audits) + 1 \notin Logged(type, action)
  <2>1. /\ w \in Waiting
        /\ DOMAIN audits' = 1..(Len(audits) + 1)
        /\ \A i \in 1..Len(audits) : audits'[i] = audits[i]
        /\ audits'[Len(audits) + 1] = writers[w]
        /\ Waiting' = Waiting \ {w}
    BY <1>4, AppendEffect
  <2>2. \A v \in Waiting' : v \in Waiting /\ writers'[v] = writers[v]
    BY <1>4, <2>1, WritersApart DEF WriterStep, Waiting
  <2>3. Unlogged(type, action)' = Unlogged(type, action) \ {w}
    BY <2>1, <2>2 DEF Unlogged
  <2>4. DOMAIN audits' = DOMAIN audits \cup {Len(audits) + 1}
        /\ Len(audits) + 1 \notin DOMAIN audits
    BY <1>1, <2>1
  <2>5. CASE w \in Unlogged(type, action)
    BY <1>1, <2>1, <2>3, <2>4, <2>5 DEF Logged, Unlogged
  <2>6. CASE w \notin Unlogged(type, action)
    BY <1>1, <2>1, <2>3, <2>4, <2>6 DEF Logged, Unlogged
  <2> QED
    BY <2>5, <2>6
<1>5. ASSUME NEW w \in Writers, AuditLost(w)
      PROVE  /\ Logged(type, action)' = Logged(type, action)
             /\ Unlogged(type, action)' \subseteq Unlogged(type, action)
  <2>1. Waiting' = Waiting \ {w} /\ audits' = audits
    BY <1>5, LostEffect
  <2>2. \A v \in Waiting' : v \in Waiting /\ writers'[v] = writers[v]
    BY <1>5, <2>1, WritersApart DEF WriterStep, Waiting
  <2> QED
    BY <2>1, <2>2 DEF Logged, Unlogged
<1>6. CASE Tick \/ UNCHANGED <<tables, audits, clock, writers>>
  <2>1. audits' = audits /\ writers' = writers
    BY <1>6 DEF Tick
  <2> QED
    BY <2>1, <1>1 DEF Changes, Logged, Unlogged, Waiting
<1>7. CASE /\ Logged(type, action)' = Logged(type, action)
           /\ Unlogged(type, action)' \subseteq Unlogged(type, action)
  <2>1. /\ Cardinality(Unlogged(type, action)') \in Nat
        /\ Cardinality(Unlogged(type, action)') <= Cardinality(Unlogged(type, action))
    BY <1>1, <1>7, Smaller
  <2> QED
    BY <1>1, <1>7, <2>1 DEF Changes
<1>8. ASSUME NEW w \in Writers,
             /\ Logged(type, action)' = Logged(type, action) \cup {Len(audits) + 1}
             /\ Unlogged(type, action)' = Unlogged(type, action) \ {w}
             /\ w \in Unlogged(type, action)
             /\ Len(audits) + 1 \notin Logged(type, action)
      PROVE  Changes(type, action)' <= Changes(type, action)
  <2>1. Cardinality(Logged(type, action)') = Cardinality(Logged(type, action)) + 1
    BY <1>1, <1>8, FS_AddElement
  <2>2. Cardinality(Unlogged(type, action)') = Cardinality(Unlogged(type, action)) - 1
    BY <1>1, <1>8, FS_RemoveElement
  <2> QED
    BY <1>1, <2>1, <2>2 DEF Changes
<1> QED
  BY <1>2, <1>3, <1>4, <1>5, <1>6, <1>7, <1>8, Steps DEF WriterStep

\* A change is one more of its kind.
LEMMA ChangeAddsOne ==
  ASSUME TypeOK, NEW w \in Writers, Change(w), NEW type, NEW action
  PROVE  Changes(type, action)' <= Changes(type, action) + 1
<1>1. /\ IsFiniteSet(Logged(type, action)) /\ Cardinality(Logged(type, action)) \in Nat
      /\ IsFiniteSet(Unlogged(type, action)) /\ Cardinality(Unlogged(type, action)) \in Nat
  BY Counted
<1>2. Waiting' \subseteq Waiting \cup {w} /\ audits' = audits /\ w \notin Waiting
  BY ChangeEffect
<1>3. \A v \in Waiting' \ {w} : v \in Waiting /\ writers'[v] = writers[v]
  BY <1>2, WritersApart DEF WriterStep, Waiting
<1>4. /\ Logged(type, action)' = Logged(type, action)
      /\ Unlogged(type, action)' \subseteq Unlogged(type, action) \cup {w}
      /\ w \notin Unlogged(type, action)
  BY <1>2, <1>3 DEF Logged, Unlogged
<1>5. /\ IsFiniteSet(Unlogged(type, action) \cup {w})
      /\ Cardinality(Unlogged(type, action) \cup {w}) = Cardinality(Unlogged(type, action)) + 1
  BY <1>1, <1>4, FS_AddElement
<1>6. /\ Cardinality(Unlogged(type, action)') \in Nat
      /\ Cardinality(Unlogged(type, action)') <= Cardinality(Unlogged(type, action) \cup {w})
  BY <1>4, <1>5, Smaller
<1> QED
  BY <1>1, <1>4, <1>5, <1>6 DEF Changes

\* The tables never lose a row, nor the mark of a deleted one.
LEMMA TablesKept ==
  ASSUME TypeOK, [Next]_vars, NEW type \in Types
  PROVE  /\ tables[type].deleted <= tables'[type].deleted
         /\ Total(tables[type]) + tables[type].deleted
               <= Total(tables'[type]) + tables'[type].deleted
<1>1. Total(tables[type]) \in Nat /\ tables[type].deleted \in Nat
  BY Totals
<1>2. CASE tables' = tables
  BY <1>1, <1>2
<1>3. ASSUME NEW w \in Writers, Change(w)
      PROVE  /\ tables[type].deleted <= tables'[type].deleted
             /\ Total(tables[type]) + tables[type].deleted
                   <= Total(tables'[type]) + tables'[type].deleted
  <2>1. PICK kind \in Kinds : \E rows \in Changed(tables[kind.type], kind.action) :
           /\ Total(rows) + rows.deleted <= MaxTable
           /\ tables' = [tables EXCEPT ![kind.type] = rows]
    BY <1>3, ChangeEffect
  <2>2. PICK rows \in Changed(tables[kind.type], kind.action) :
           /\ Total(rows) + rows.deleted <= MaxTable
           /\ tables' = [tables EXCEPT ![kind.type] = rows]
    BY <2>1
  <2>3. kind.type \in Types /\ kind.action \in {"create", "update", "transition", "delete"}
    BY KindsAssumption
  <2>4. /\ Total(rows) + rows.deleted =
              Total(tables[kind.type]) + tables[kind.type].deleted
              + (IF kind.action = "create" THEN 1 ELSE 0)
        /\ rows.deleted =
              tables[kind.type].deleted + (IF kind.action = "delete" THEN 1 ELSE 0)
    BY <2>2, <2>3, Typed, ChangedRows
  <2>5. tables'[type] = IF type = kind.type THEN rows ELSE tables[type]
    BY <2>2, <2>3 DEF TypeOK
  <2> QED
    BY <1>1, <2>4, <2>5
<1>4. (\E w \in Writers : Change(w)) \/ tables' = tables
  BY Steps DEF WriterStep, Stamp, AppendAudit, AuditLost, Tick
<1> QED
  BY <1>2, <1>3, <1>4

\* A row more for every creation, a mark more for every deletion.
LEMMA RowsKept ==
  ASSUME TypeOK, TypeOK', RowsExplained, [Next]_vars
  PROVE  RowsExplained'
<1> SUFFICES ASSUME NEW type \in Types
             PROVE  /\ Seeded + Changes(type, "create")' <= Total(tables'[type]) + tables'[type].deleted
                    /\ Changes(type, "delete")' <= tables'[type].deleted
  BY DEF RowsExplained
<1>1. /\ Total(tables[type]) \in Nat /\ tables[type].deleted \in Nat
      /\ Total(tables'[type]) \in Nat /\ tables'[type].deleted \in Nat
  <2>1. Total(tables'[type]) \in Nat /\ tables'[type].deleted \in Nat
    BY Clamps DEF TypeOK, Total
  <2> QED
    BY <2>1, Totals
<1>2. /\ Seeded + Changes(type, "create") <= Total(tables[type]) + tables[type].deleted
      /\ Changes(type, "delete") <= tables[type].deleted
  BY DEF RowsExplained
<1>3. \A action : Changes(type, action) \in Nat /\ Changes(type, action)' \in Nat
  <2>1. ASSUME NEW action
        PROVE  Changes(type, action) \in Nat /\ Changes(type, action)' \in Nat
    <3>1. Changes(type, action) \in Nat
      BY Counted DEF Changes
    <3>2. Cardinality(Logged(type, action))' \in Nat /\ Cardinality(Unlogged(type, action))' \in Nat
      <4>1. (Logged(type, action) \subseteq DOMAIN audits /\ IsFiniteSet(DOMAIN audits))'
        <5>1. audits' \in Seq(AuditLog)
          BY DEF TypeOK, AuditLog
        <5>2. Len(audits') \in Nat /\ DOMAIN audits' = 1..Len(audits')
          BY <5>1, LenProperties
        <5>3. IsFiniteSet(DOMAIN audits')
          BY <5>2, FS_Interval
        <5> QED
          BY <5>3 DEF Logged
      <4>2. Unlogged(type, action)' \subseteq Writers /\ IsFiniteSet(Writers)
        BY ConstantsAssumption DEF Unlogged, Waiting
      <4> QED
        BY <4>1, <4>2, Smaller
    <3> QED
      BY <3>1, <3>2 DEF Changes
  <2> QED
    BY <2>1
<1>4. /\ tables[type].deleted <= tables'[type].deleted
      /\ Total(tables[type]) + tables[type].deleted
            <= Total(tables'[type]) + tables'[type].deleted
  BY TablesKept
<1>5. ASSUME NEW w \in Writers, Change(w)
      PROVE  \A action \in {"create", "delete"} :
                writers'[w].kind.type = type /\ writers'[w].kind.action = action =>
                   /\ action = "create" => Total(tables'[type]) + tables'[type].deleted =
                         Total(tables[type]) + tables[type].deleted + 1
                   /\ action = "delete" => tables'[type].deleted = tables[type].deleted + 1
  <2>1. PICK kind \in Kinds : \E rows \in Changed(tables[kind.type], kind.action) :
           /\ Total(rows) + rows.deleted <= MaxTable
           /\ tables' = [tables EXCEPT ![kind.type] = rows]
           /\ writers'[w] = [kind |-> kind, at |-> None, seen |-> Len(audits)]
    BY <1>5, ChangeEffect
  <2>2. PICK rows \in Changed(tables[kind.type], kind.action) :
           /\ Total(rows) + rows.deleted <= MaxTable
           /\ tables' = [tables EXCEPT ![kind.type] = rows]
    BY <2>1
  <2>3. kind.type \in Types /\ kind.action \in {"create", "update", "transition", "delete"}
        /\ writers'[w].kind = kind
    BY <2>1, KindsAssumption
  <2>4. /\ Total(rows) + rows.deleted =
              Total(tables[kind.type]) + tables[kind.type].deleted
              + (IF kind.action = "create" THEN 1 ELSE 0)
        /\ rows.deleted =
              tables[kind.type].deleted + (IF kind.action = "delete" THEN 1 ELSE 0)
    BY <2>2, <2>3, Typed, ChangedRows
  <2>5. tables'[kind.type] = rows
    BY <2>2, <2>3 DEF TypeOK
  <2> QED
    BY <2>3, <2>4, <2>5
<1>6. Seeded + Changes(type, "create")' <= Total(tables'[type]) + tables'[type].deleted
  <2>1. CASE \E w \in Writers : Change(w) /\ writers'[w].kind.type = type
                                          /\ writers'[w].kind.action = "create"
    <3>1. PICK w \in Writers : Change(w) /\ writers'[w].kind.type = type
                                         /\ writers'[w].kind.action = "create"
      BY <2>1
    <3>2. Changes(type, "create")' <= Changes(type, "create") + 1
      BY <3>1, ChangeAddsOne
    <3>3. Total(tables'[type]) + tables'[type].deleted =
             Total(tables[type]) + tables[type].deleted + 1
      BY <3>1, <1>5
    <3> QED
      BY <1>1, <1>2, <1>3, <3>2, <3>3, SeededRows
  <2>2. CASE ~\E w \in Writers : Change(w) /\ writers'[w].kind.type = type
                                           /\ writers'[w].kind.action = "create"
    <3>1. Changes(type, "create")' <= Changes(type, "create")
      BY <2>2, ChangesKept
    <3> QED
      BY <1>1, <1>2, <1>3, <1>4, <3>1, SeededRows
  <2> QED
    BY <2>1, <2>2
<1>7. Changes(type, "delete")' <= tables'[type].deleted
  <2>1. CASE \E w \in Writers : Change(w) /\ writers'[w].kind.type = type
                                          /\ writers'[w].kind.action = "delete"
    <3>1. PICK w \in Writers : Change(w) /\ writers'[w].kind.type = type
                                         /\ writers'[w].kind.action = "delete"
      BY <2>1
    <3>2. Changes(type, "delete")' <= Changes(type, "delete") + 1
      BY <3>1, ChangeAddsOne
    <3>3. tables'[type].deleted = tables[type].deleted + 1
      BY <3>1, <1>5
    <3> QED
      BY <1>1, <1>2, <1>3, <3>2, <3>3
  <2>2. CASE ~\E w \in Writers : Change(w) /\ writers'[w].kind.type = type
                                           /\ writers'[w].kind.action = "delete"
    <3>1. Changes(type, "delete")' <= Changes(type, "delete")
      BY <2>2, ChangesKept
    <3> QED
      BY <1>1, <1>2, <1>3, <1>4, <3>1
  <2> QED
    BY <2>1, <2>2
<1> QED
  BY <1>6, <1>7

\* What holds of the log and the tables is kept by every step.
LEMMA LogStep ==
  LogInv /\ [Next]_vars => LogInv'
BY TypesKept, StampsKept, RowsKept DEF LogInv

\* The state stays within its types, and the log grows by appending.
THEOREM ReportTypes == Spec => []TypeOK
<1>1. LogInv => TypeOK
  BY DEF LogInv
<1> QED
  BY InitLog, LogStep, <1>1, PTL DEF Spec

-----------------------------------------------------------------------------
(* The requests of the reader                                              *)

\* At first there is no request.
LEMMA InitReader == Init => ReaderInv
BY DEF Init, ReaderInv, PagesInv, HistoryInv, SummaryInv, OverviewInv, Answered

\* Which steps lead to a state in which a report is being made.
LEMMA ReportSteps ==
  ASSUME ReaderInv, [Next]_vars, NEW report, Answered(report)'
  PROVE  \/ reader' = reader
         \/ report = "pages" /\ (ListAudits \/ CountAudits \/ FindAudits)
         \/ report = "history" /\ (EntityHistory \/ FindHistory)
         \/ report = "summary" /\ (AuditSummary \/ SummarizeAudits)
         \/ report = "overview" /\ (Overview \/ StatusCounts)
<1>1. reader' # None /\ reader'.report = report
  BY DEF Answered
<1>2. CASE ReaderStep
  <2>1. CASE ListAudits
    BY <1>1, <2>1 DEF ListAudits
  <2>2. CASE CountAudits
    <3>1. reader'.report = "pages"
      BY <2>2 DEF CountAudits, ReaderInv, PagesInv, Answered
    <3> QED
      BY <1>1, <2>2, <3>1
  <2>3. CASE FindAudits
    <3>1. reader'.report = "pages"
      BY <2>3 DEF FindAudits, ReaderInv, PagesInv, Answered
    <3> QED
      BY <1>1, <2>3, <3>1
  <2>4. CASE EntityHistory
    BY <1>1, <2>4 DEF EntityHistory
  <2>5. CASE FindHistory
    <3>1. reader'.report = "history"
      BY <2>5 DEF FindHistory, ReaderInv, HistoryInv, Answered
    <3> QED
      BY <1>1, <2>5, <3>1
  <2>6. CASE AuditSummary
    BY <1>1, <2>6 DEF AuditSummary
  <2>7. CASE SummarizeAudits
    <3>1. Answered("summary") /\ \E x : reader' = [reader EXCEPT !.figures = x]
      BY <2>7 DEF SummarizeAudits, Answered
    <3>2. "report" \in DOMAIN reader
      BY <3>1 DEF ReaderInv, SummaryInv
    <3>3. reader'.report = "summary"
      BY <3>1, <3>2 DEF Answered
    <3> QED
      BY <1>1, <2>7, <3>3
  <2>8. CASE Overview
    BY <1>1, <2>8 DEF Overview
  <2>9. CASE StatusCounts
    <3>1. Answered("overview") /\ \E x : reader' = [reader EXCEPT !.figures = x]
      BY <2>9 DEF StatusCounts, Answered
    <3>2. "report" \in DOMAIN reader
      BY <3>1 DEF ReaderInv, OverviewInv
    <3>3. reader'.report = "overview"
      BY <3>1, <3>2 DEF Answered
    <3> QED
      BY <1>1, <2>9, <3>3
  <2>10. CASE ReadEnds
    BY <1>1, <2>10 DEF ReadEnds
  <2> QED
    BY <1>2, <2>1, <2>2, <2>3, <2>4, <2>5, <2>6, <2>7, <2>8, <2>9, <2>10 DEF ReaderStep
<1>3. CASE ~ReaderStep
  BY <1>3 DEF Next, ReaderStep, vars, Change, Stamp, AppendAudit, AuditLost, Tick
<1> QED
  BY <1>2, <1>3

\* Turning a page passes one page more.
LEMMA Products ==
  ASSUME NEW page \in Nat \ {0}, NEW size \in Nat
  PROVE  /\ (page - 1) * size \in Nat
         /\ ((page + 1) - 1) * size = (page - 1) * size + size
OBVIOUS

\* What the log holds for a search is finite, and only grows.
LEMMA MatchingGrows ==
  ASSUME TypeOK, TypeOK', [Next]_vars, NEW search
  PROVE  /\ Matching(search) \subseteq Matching(search)'
         /\ Matching(search) \subseteq DOMAIN audits
         /\ IsFiniteSet(Matching(search))
         /\ Cardinality(Matching(search)) \in Nat /\ Cardinality(Matching(search)') \in Nat
         /\ Cardinality(Matching(search)) <= Cardinality(Matching(search)')
         /\ \A i \in Matching(search) :
              /\ i \in NotOlder(search, i)
              /\ Alone(i)' => Alone(i)
              /\ Cardinality(NotOlder(search, i)) \in Nat
              /\ Cardinality(NotOlder(search, i)') \in Nat
              /\ Cardinality(NotOlder(search, i)) <= Cardinality(NotOlder(search, i)')
<1>1. /\ DOMAIN audits \subseteq DOMAIN audits'
      /\ \A i \in DOMAIN audits : audits'[i] = audits[i]
      /\ DOMAIN audits = 1..Len(audits) /\ Len(audits) \in Nat
      /\ \A i \in DOMAIN audits : audits[i].at \in Nat
      /\ IsFiniteSet(DOMAIN audits)
  BY LogGrows, Instants
<1>2. IsFiniteSet(DOMAIN audits')
  <2>1. audits' \in Seq(AuditLog)
    BY DEF TypeOK, AuditLog
  <2>2. Len(audits') \in Nat /\ DOMAIN audits' = 1..Len(audits')
    BY <2>1, LenProperties
  <2> QED
    BY <2>2, FS_Interval
<1>3. Matching(search) \subseteq Matching(search)' /\ Matching(search) \subseteq DOMAIN audits
      /\ Matching(search)' \subseteq DOMAIN audits'
  BY <1>1 DEF Matching
<1>4. IsFiniteSet(Matching(search)) /\ IsFiniteSet(Matching(search)')
  BY <1>1, <1>2, <1>3, Smaller
<1>5. /\ Cardinality(Matching(search)) \in Nat /\ Cardinality(Matching(search)') \in Nat
      /\ Cardinality(Matching(search)) <= Cardinality(Matching(search)')
  BY <1>3, <1>4, Smaller
<1>6. ASSUME NEW i \in Matching(search)
      PROVE  /\ i \in NotOlder(search, i)
             /\ Alone(i)' => Alone(i)
             /\ Cardinality(NotOlder(search, i)) \in Nat
             /\ Cardinality(NotOlder(search, i)') \in Nat
             /\ Cardinality(NotOlder(search, i)) <= Cardinality(NotOlder(search, i)')
  <2>1. i \in NotOlder(search, i)
    BY <1>1, <1>3 DEF NotOlder
  <2>2. Alone(i)' => Alone(i)
    BY <1>1, <1>3 DEF Alone
  <2>3. NotOlder(search, i) \subseteq NotOlder(search, i)'
    BY <1>1, <1>3 DEF NotOlder
  <2>4. NotOlder(search, i)' \subseteq Matching(search)'
    BY DEF NotOlder
  <2>5. IsFiniteSet(NotOlder(search, i)')
    BY <1>4, <2>4, Smaller
  <2> QED
    BY <2>1, <2>2, <2>3, <2>5, Smaller
<1> QED
  BY <1>3, <1>4, <1>5, <1>6

\* A page shows the rows at its places, and a page that is not full is the last.
LEMMA PageShown ==
  ASSUME TypeOK, NEW search, NEW order \in NewestFirst(Matching(search)),
         NEW page \in Nat \ {0}, NEW size \in Nat
  PROVE  LET items  == PageOf(order, page, size)
             offset == (page - 1) * size
             rows   == Cardinality(Matching(search))
         IN  /\ Len(items) \in Nat /\ rows \in Nat /\ offset \in Nat
             /\ Len(items) < size => Len(items) + offset >= rows
             /\ \A i \in Matching(search) :
                  /\ Alone(i)
                  /\ Cardinality(NotOlder(search, i)) > offset
                  /\ i \notin ToSet(items)
                  => /\ Len(items) >= size
                     /\ Cardinality(NotOlder(search, i)) > offset + size
<1> DEFINE items  == PageOf(order, page, size)
           offset == (page - 1) * size
           rows   == Cardinality(Matching(search))
<1>1. Matching(search) \subseteq DOMAIN audits /\ IsFiniteSet(DOMAIN audits)
  BY Instants DEF Matching
<1>2. rows \in Nat /\ offset \in Nat
  BY <1>1, Smaller, Products
<1>3. /\ order \in Seq(Matching(search)) /\ Len(order) = rows
      /\ \A i \in Matching(search) : \E p \in 1..Len(order) : order[p] = i
  BY <1>1, Ordered
<1> HIDE DEF rows, offset
<1>4. /\ items \in Seq(Matching(search))
      /\ Len(items) = IF rows <= offset THEN 0
                      ELSE IF offset + size <= rows THEN size
                      ELSE rows - offset
      /\ \A p \in 1..Len(items) : items[p] = order[offset + p]
  <2> DEFINE shown == Limited(order, offset, size)
  <2>1. items = shown
    BY DEF PageOf, offset
  <2>2. /\ shown \in Seq(Matching(search))
        /\ Len(shown) = IF Len(order) <= offset THEN 0
                        ELSE IF offset + size <= Len(order) THEN size
                        ELSE Len(order) - offset
        /\ \A p \in 1..Len(shown) : shown[p] = order[offset + p]
    <3> DEFINE M == Matching(search)
    <3>1. order \in Seq(M) /\ offset \in Nat /\ size \in Nat
      BY <1>2, <1>3
    <3> HIDE DEF M
    <3>2. /\ Limited(order, offset, size) \in Seq(M)
          /\ Len(Limited(order, offset, size)) =
               IF Len(order) <= offset THEN 0
               ELSE IF offset + size <= Len(order) THEN size
               ELSE Len(order) - offset
          /\ \A p \in 1..Len(Limited(order, offset, size)) :
               /\ Limited(order, offset, size)[p] = order[offset + p]
               /\ offset + p \in 1..Len(order)
      BY <3>1, LimitedTo
    <3> QED
      BY <3>2 DEF M
  <2> HIDE DEF items, shown
  <2> QED
    BY <1>3, <2>1, <2>2
<1> HIDE DEF items
<1>5. ASSUME NEW i \in Matching(search), Alone(i),
             Cardinality(NotOlder(search, i)) > offset, i \notin ToSet(items)
      PROVE  /\ Len(items) >= size
             /\ Cardinality(NotOlder(search, i)) > offset + size
  <2>1. PICK p \in 1..Len(order) : order[p] = i
    BY <1>3
  <2>2. \A j \in Matching(search) \ {i} : audits[j].at # audits[i].at
    BY <1>1, <1>5 DEF Alone
  <2>3. p = Cardinality(NotOlder(search, i))
    BY <1>1, <2>1, <2>2, PlaceOfRow DEF NotOlder
  <2>4. p \in Nat /\ p > offset /\ p <= rows
    BY <1>2, <1>3, <1>5, <2>1, <2>3
  <2>5. ~(p - offset \in 1..Len(items))
    <3>1. ASSUME p - offset \in 1..Len(items)
          PROVE  FALSE
      <4>1. items[p - offset] = order[offset + (p - offset)]
        BY <1>4, <3>1
      <4>2. offset + (p - offset) = p
        BY <1>2, <2>4
      <4>3. items[p - offset] = i /\ DOMAIN items = 1..Len(items)
        BY <1>4, <2>1, <4>1, <4>2, LenProperties
      <4> QED
        BY <1>5, <3>1, <4>3 DEF ToSet
    <3> QED
      BY <3>1
  <2> QED
    BY <1>2, <1>4, <2>3, <2>4, <2>5
<1>6. Len(items) \in Nat /\ (Len(items) < size => Len(items) + offset >= rows)
  BY <1>2, <1>4
<1> QED
  BY <1>2, <1>5, <1>6 DEF items, offset, rows

\* Every step keeps what the pages turned so far have passed.
LEMMA PagesKept ==
  ASSUME TypeOK, TypeOK', ReaderInv, [Next]_vars
  PROVE  PagesInv'
<1> SUFFICES ASSUME Answered("pages")'
             PROVE  PagesInv'
  BY DEF PagesInv
<1>1. CASE reader' = reader
  <2>1. Answered("pages") /\ PagesInv
    BY <1>1 DEF Answered, ReaderInv
  <2>2. PICK search \in Searches :
        /\ reader \in [report : {"pages"}, search : {search}, size : 1..MaxSize,
                       page : Nat \ {0}, owed : SUBSET Matching(search),
                       total : Nat \cup {None}, last : Nat \cup {None}]
        /\ reader.total # None => reader.total <= Cardinality(Matching(search))
        /\ reader.last # None =>
              (reader.page - 1) * reader.size + reader.last >= reader.total
        /\ \A i \in reader.owed : Alone(i) =>
              /\ reader.last = None
              /\ Cardinality(NotOlder(search, i)) > (reader.page - 1) * reader.size
    BY <2>1 DEF PagesInv
  <2>3. /\ Matching(search) \subseteq Matching(search)'
        /\ Cardinality(Matching(search)) \in Nat /\ Cardinality(Matching(search)') \in Nat
        /\ Cardinality(Matching(search)) <= Cardinality(Matching(search)')
        /\ \A i \in Matching(search) :
              /\ Alone(i)' => Alone(i)
              /\ Cardinality(NotOlder(search, i)) \in Nat
              /\ Cardinality(NotOlder(search, i)') \in Nat
              /\ Cardinality(NotOlder(search, i)) <= Cardinality(NotOlder(search, i)')
    BY MatchingGrows
  <2>4. (reader.page - 1) * reader.size \in Nat
    BY <2>2, Products, Clamps
  <2>5. reader' \in [report : {"pages"}, search : {search}, size : 1..MaxSize,
                     page : Nat \ {0}, owed : SUBSET (Matching(search)'),
                     total : Nat \cup {None}, last : Nat \cup {None}]
    BY <1>1, <2>2, <2>3
  <2>6. reader'.total # None => reader'.total <= Cardinality(Matching(search)')
    BY <1>1, <2>2, <2>3
  <2>7. \A i \in reader'.owed : Alone(i)' =>
           /\ reader'.last = None
           /\ Cardinality(NotOlder(search, i)') > (reader'.page - 1) * reader'.size
    BY <1>1, <2>2, <2>3, <2>4
  <2>8. reader'.last # None =>
           (reader'.page - 1) * reader'.size + reader'.last >= reader'.total
    BY <1>1, <2>2
  <2> QED
    BY <2>5, <2>6, <2>7, <2>8 DEF PagesInv
<1>2. CASE ListAudits
  <2>1. PICK search \in Searches, size \in Sizes :
           reader' = [report |-> "pages", search |-> search, size |-> BindPage(size),
                      page |-> 1, owed |-> Matching(search), total |-> None, last |-> None]
    BY <1>2 DEF ListAudits
  <2>2. audits' = audits
    BY <1>2 DEF ListAudits
  <2>3. Matching(search)' = Matching(search)
    BY <2>2 DEF Matching
  <2>4. BindPage(size) \in 1..MaxSize /\ MaxSize \in Nat
    BY Clamps
  <2>5. reader' \in [report : {"pages"}, search : {search}, size : 1..MaxSize,
                     page : Nat \ {0}, owed : SUBSET (Matching(search)'),
                     total : Nat \cup {None}, last : Nat \cup {None}]
    BY <2>1, <2>3, <2>4
  <2>6. ASSUME NEW i \in Matching(search)
        PROVE  Cardinality(NotOlder(search, i)') > (1 - 1) * BindPage(size)
    <3>1. i \in NotOlder(search, i) /\ IsFiniteSet(NotOlder(search, i))
      <4>1. NotOlder(search, i) \subseteq Matching(search) /\ IsFiniteSet(Matching(search))
        BY MatchingGrows DEF NotOlder
      <4> QED
        BY <4>1, MatchingGrows, Smaller
    <3>2. Cardinality(NotOlder(search, i)) \in Nat /\ Cardinality(NotOlder(search, i)) # 0
      BY <3>1, FS_EmptySet, FS_CardinalityType
    <3>3. Cardinality(NotOlder(search, i)) <= Cardinality(NotOlder(search, i)')
          /\ Cardinality(NotOlder(search, i)') \in Nat
      BY MatchingGrows
    <3>4. (1 - 1) * BindPage(size) = 0
      BY <2>4
    <3> QED
      BY <3>2, <3>3, <3>4
  <2>7. \A i \in reader'.owed : Alone(i)' =>
           /\ reader'.last = None
           /\ Cardinality(NotOlder(search, i)') > (reader'.page - 1) * reader'.size
    BY <2>1, <2>6
  <2>8. reader'.total = None /\ reader'.last = None
    BY <2>1
  <2> QED
    BY <2>5, <2>7, <2>8 DEF PagesInv
<1>3. ASSUME CountAudits \/ FindAudits
      PROVE  PagesInv'
  <2>1. Answered("pages") /\ PagesInv /\ reader.last = None /\ audits' = audits
    BY <1>3 DEF CountAudits, FindAudits, Answered, ReaderInv
  <2>2. PICK search \in Searches :
        /\ reader \in [report : {"pages"}, search : {search}, size : 1..MaxSize,
                       page : Nat \ {0}, owed : SUBSET Matching(search),
                       total : Nat \cup {None}, last : Nat \cup {None}]
        /\ reader.total # None => reader.total <= Cardinality(Matching(search))
        /\ reader.last # None =>
              (reader.page - 1) * reader.size + reader.last >= reader.total
        /\ \A i \in reader.owed : Alone(i) =>
              /\ reader.last = None
              /\ Cardinality(NotOlder(search, i)) > (reader.page - 1) * reader.size
    BY <2>1 DEF PagesInv
  <2>3. /\ Matching(search)' = Matching(search)
        /\ \A i : NotOlder(search, i)' = NotOlder(search, i) /\ Alone(i)' = Alone(i)
    BY <2>1 DEF Matching, NotOlder, Alone
  <2>4. CASE CountAudits
    <3>1. reader' = [reader EXCEPT !.total = Cardinality(Matching(search))]
      BY <2>2, <2>4 DEF CountAudits
    <3>2. Cardinality(Matching(search)) \in Nat
      BY MatchingGrows
    <3>3. reader' \in [report : {"pages"}, search : {search}, size : 1..MaxSize,
                       page : Nat \ {0}, owed : SUBSET (Matching(search)'),
                       total : Nat \cup {None}, last : Nat \cup {None}]
      BY <2>2, <2>3, <3>1, <3>2
    <3>4. /\ reader'.total = Cardinality(Matching(search)) /\ reader'.last = reader.last
          /\ reader'.page = reader.page /\ reader'.size = reader.size
          /\ reader'.owed = reader.owed
      BY <2>2, <3>1
    <3>5. reader'.total <= Cardinality(Matching(search)')
      BY <2>3, <3>2, <3>4
    <3>6. \A i \in reader'.owed : Alone(i)' =>
             /\ reader'.last = None
             /\ Cardinality(NotOlder(search, i)') > (reader'.page - 1) * reader'.size
      BY <2>2, <2>3, <3>4
    <3> QED
      BY <2>1, <3>3, <3>4, <3>5, <3>6 DEF PagesInv
  <2>5. CASE FindAudits
    <3> DEFINE offset == (reader.page - 1) * reader.size
    <3>1. PICK order \in NewestFirst(Matching(search)) :
             LET items == PageOf(order, reader.page, NormalizePage(reader.size))
                 owed  == reader.owed \ ToSet(items)
             IN  reader' = IF Len(items) < reader.size
                           THEN [reader EXCEPT !.owed = owed, !.last = Len(items)]
                           ELSE [reader EXCEPT !.owed = owed, !.page = @ + 1, !.total = None]
      BY <2>2, <2>5 DEF FindAudits
    <3>2. /\ NormalizePage(reader.size) = reader.size /\ reader.size \in Nat
          /\ reader.page \in Nat \ {0} /\ reader.page + 1 \in Nat \ {0}
          /\ reader.total \in Nat /\ reader.total # None
          /\ reader.total <= Cardinality(Matching(search))
      BY <2>2, <2>5, Clamps DEF FindAudits
    <3> DEFINE items == PageOf(order, reader.page, reader.size)
               owed  == reader.owed \ ToSet(items)
    <3>3. reader' = IF Len(items) < reader.size
                    THEN [reader EXCEPT !.owed = owed, !.last = Len(items)]
                    ELSE [reader EXCEPT !.owed = owed, !.page = @ + 1, !.total = None]
      BY <3>1, <3>2
    <3>4. /\ Len(items) \in Nat /\ Cardinality(Matching(search)) \in Nat /\ offset \in Nat
          /\ Len(items) < reader.size => Len(items) + offset >= Cardinality(Matching(search))
          /\ \A i \in Matching(search) :
               /\ Alone(i)
               /\ Cardinality(NotOlder(search, i)) > offset
               /\ i \notin ToSet(items)
               => /\ Len(items) >= reader.size
                  /\ Cardinality(NotOlder(search, i)) > offset + reader.size
      BY <3>2, PageShown
    <3>5. ((reader.page + 1) - 1) * reader.size = offset + reader.size
      BY <3>2, Products
    <3> HIDE DEF items
    <3>6. ASSUME NEW i \in owed, Alone(i)
          PROVE  /\ Len(items) >= reader.size
                 /\ Cardinality(NotOlder(search, i)) > offset + reader.size
      BY <2>2, <3>4, <3>6
    <3> HIDE DEF offset, owed
    <3>7. owed \subseteq Matching(search)
      BY <2>2 DEF owed
    <3>8. CASE Len(items) < reader.size
      <4>1. reader' = [reader EXCEPT !.owed = owed, !.last = Len(items)]
        BY <3>3, <3>8
      <4>2. /\ reader' \in [report : {"pages"}, search : {search}, size : 1..MaxSize,
                            page : Nat \ {0}, owed : SUBSET (Matching(search)'),
                            total : Nat \cup {None}, last : Nat \cup {None}]
            /\ reader'.owed = owed /\ reader'.last = Len(items)
            /\ reader'.total = reader.total
            /\ reader'.page = reader.page /\ reader'.size = reader.size
        BY <2>2, <2>3, <3>4, <3>7, <4>1
      <4>3. reader'.total <= Cardinality(Matching(search)')
        BY <2>2, <2>3, <3>2, <4>2
      <4>4. \A i \in owed : ~Alone(i)
        BY <3>2, <3>4, <3>6, <3>8
      <4>5. offset + Len(items) >= reader.total
        BY <2>2, <3>2, <3>4, <3>8
      <4>6. (reader'.page - 1) * reader'.size + reader'.last >= reader'.total
        BY <4>2, <4>5 DEF offset
      <4> QED
        BY <2>3, <4>2, <4>3, <4>4, <4>6 DEF PagesInv
    <3>9. CASE ~(Len(items) < reader.size)
      <4>1. reader' = [reader EXCEPT !.owed = owed, !.page = reader.page + 1, !.total = None]
        BY <3>3, <3>9
      <4>2. /\ reader' \in [report : {"pages"}, search : {search}, size : 1..MaxSize,
                            page : Nat \ {0}, owed : SUBSET (Matching(search)'),
                            total : Nat \cup {None}, last : Nat \cup {None}]
            /\ reader'.owed = owed /\ reader'.last = reader.last
            /\ reader'.total = None
            /\ reader'.page = reader.page + 1 /\ reader'.size = reader.size
        <5> DEFINE page == reader.page + 1
        <5>1. page \in Nat \ {0} /\ reader' = [reader EXCEPT !.owed = owed, !.page = page, !.total = None]
          BY <3>2, <4>1
        <5> HIDE DEF page
        <5>2. /\ reader' \in [report : {"pages"}, search : {search}, size : 1..MaxSize,
                              page : Nat \ {0}, owed : SUBSET Matching(search),
                              total : Nat \cup {None}, last : Nat \cup {None}]
              /\ reader'.owed = owed /\ reader'.last = reader.last
              /\ reader'.total = None
              /\ reader'.page = page /\ reader'.size = reader.size
          BY <2>2, <3>7, <5>1
        <5> QED
          BY <2>3, <5>2 DEF page
      <4>3. \A i \in owed : Alone(i) =>
               Cardinality(NotOlder(search, i)) > (reader'.page - 1) * reader'.size
        BY <3>5, <3>6, <4>2
      <4> QED
        BY <2>1, <2>3, <4>2, <4>3 DEF PagesInv
    <3> QED
      BY <3>8, <3>9
  <2> QED
    BY <1>3, <2>4, <2>5
<1> QED
  BY <1>1, <1>2, <1>3, ReportSteps

\* A row that follows another was stamped later.
LEMMA FollowsLater ==
  ASSUME TypeOK, StampsInOrder, NEW i \in 1..Len(audits), NEW j \in 1..Len(audits),
         Follows(j, i)
  PROVE  audits[i].at < audits[j].at
<1>1. /\ DOMAIN audits = 1..Len(audits)
      /\ audits[i].at \in Nat /\ audits[j].at \in Nat /\ audits[j].seen \in Nat
  BY Instants DEF AuditLog
<1>2. i \in 1..audits[j].seen
  BY <1>1 DEF Follows
<1>3. audits[i].at <= audits[j].at /\ audits[i].at # audits[j].at
  BY <1>1, <1>2 DEF StampsInOrder, Follows
<1> QED
  BY <1>1, <1>3

\* A history is in order, and leaves out nothing but what does not fit.
LEMMA HistoryShown ==
  ASSUME TypeOK, StampsInOrder, NEW type, NEW item, NEW limit \in Nat,
         NEW items \in History(type, item, limit)
  PROVE  /\ items \in Seq(1..Len(audits))
         /\ \A a, b \in DOMAIN items : Follows(items[b], items[a]) => b < a
         /\ \A i \in 1..Len(audits) :
              /\ audits[i].kind.type = type /\ audits[i].kind.item = item
              /\ i \notin ToSet(items)
              => Len(items) = limit /\ \A j \in ToSet(items) : ~Follows(i, j)
<1> DEFINE rows == OfEntity(type, item)
<1>1. PICK order \in NewestFirst(rows) : items = Limited(order, 0, limit)
  BY DEF History
<1>2. /\ DOMAIN audits = 1..Len(audits) /\ Len(audits) \in Nat
      /\ \A i \in 1..Len(audits) : audits[i].at \in Nat
  BY Instants
<1>3. rows \subseteq 1..Len(audits)
  BY <1>2 DEF OfEntity
<1>4. /\ order \in Seq(rows) /\ Len(order) \in Nat
      /\ \A a, b \in 1..Len(order) : order[a] = order[b] => a = b
      /\ \A i \in rows : \E p \in 1..Len(order) : order[p] = i
      /\ \A a, b \in 1..Len(order) : a < b => audits[order[a]].at >= audits[order[b]].at
  BY <1>2, <1>3, Ordered, LenProperties
<1> HIDE DEF rows
<1>5. /\ items \in Seq(rows)
      /\ Len(items) = IF Len(order) <= 0 THEN 0
                      ELSE IF 0 + limit <= Len(order) THEN limit
                      ELSE Len(order) - 0
      /\ \A p \in 1..Len(items) : items[p] = order[0 + p] /\ 0 + p \in 1..Len(order)
  <2>1. order \in Seq(rows) /\ 0 \in Nat
    BY <1>4
  <2>2. /\ Limited(order, 0, limit) \in Seq(rows)
        /\ Len(Limited(order, 0, limit)) =
             IF Len(order) <= 0 THEN 0
             ELSE IF 0 + limit <= Len(order) THEN limit
             ELSE Len(order) - 0
        /\ \A p \in 1..Len(Limited(order, 0, limit)) :
             /\ Limited(order, 0, limit)[p] = order[0 + p]
             /\ 0 + p \in 1..Len(order)
    BY <2>1, LimitedTo
  <2> QED
    BY <1>1, <2>2
<1>6. /\ DOMAIN items = 1..Len(items) /\ Len(items) \in Nat
      /\ \A p \in 1..Len(items) : /\ items[p] = order[p] /\ p \in 1..Len(order)
                                  /\ items[p] \in 1..Len(audits)
  <2>1. DOMAIN items = 1..Len(items) /\ Len(items) \in Nat
    BY <1>5, LenProperties
  <2>2. ASSUME NEW p \in 1..Len(items)
        PROVE  items[p] = order[p] /\ p \in 1..Len(order) /\ items[p] \in 1..Len(audits)
    <3>1. 0 + p = p
      BY <2>1
    <3>2. items[p] \in rows
      BY <1>5, ElementOfSeq
    <3> QED
      BY <1>3, <1>5, <3>1, <3>2
  <2> QED
    BY <2>1, <2>2
<1>7. items \in Seq(1..Len(audits))
  BY <1>3, <1>5, SeqMonotonic
<1>8. ASSUME NEW a \in DOMAIN items, NEW b \in DOMAIN items, Follows(items[b], items[a])
      PROVE  b < a
  <2>1. audits[items[a]].at < audits[items[b]].at
    BY <1>6, <1>8, FollowsLater
  <2>2. a # b
    BY <1>2, <1>6, <2>1
  <2>3. ~(a < b)
    <3>1. ASSUME a < b
          PROVE  FALSE
      <4>1. audits[items[a]].at >= audits[items[b]].at
        BY <1>4, <1>6, <3>1
      <4> QED
        BY <1>2, <1>6, <2>1, <4>1
    <3> QED
      BY <3>1
  <2> QED
    BY <1>6, <2>2, <2>3
<1>9. ASSUME NEW i \in 1..Len(audits),
             audits[i].kind.type = type, audits[i].kind.item = item, i \notin ToSet(items)
      PROVE  Len(items) = limit /\ \A j \in ToSet(items) : ~Follows(i, j)
  <2>1. i \in rows
    BY <1>2, <1>9 DEF rows, OfEntity
  <2>2. PICK p \in 1..Len(order) : order[p] = i
    BY <1>4, <2>1
  <2>3. ~(p \in 1..Len(items))
    BY <1>6, <1>9, <2>2 DEF ToSet
  <2>4. Len(items) = limit
    BY <1>4, <1>5, <2>2, <2>3
  <2>5. ASSUME NEW j \in ToSet(items), Follows(i, j)
        PROVE  FALSE
    <3>1. PICK q \in 1..Len(items) : items[q] = j
      BY <1>6 DEF ToSet
    <3>2. q \in 1..Len(order) /\ order[q] = j /\ j \in 1..Len(audits)
      BY <1>6, <3>1
    <3> DEFINE shown == Len(items)
               all == Len(order)
    <3>3. shown \in Nat /\ all \in Nat /\ q \in 1..shown /\ p \in 1..all /\ ~(p \in 1..shown)
      BY <1>4, <1>6, <2>2, <2>3, <3>1
    <3>4. q < p
      <4> HIDE DEF shown, all
      <4> QED
        BY <3>3
    <3>5. audits[j].at >= audits[i].at
      BY <1>4, <2>2, <3>2, <3>4
    <3>6. audits[j].at < audits[i].at
      BY <2>5, <3>2, FollowsLater
    <3> QED
      BY <1>2, <3>2, <3>5, <3>6
  <2> QED
    BY <2>4, <2>5
<1> QED
  BY <1>7, <1>8, <1>9

\* Every step keeps what a history shows.
LEMMA HistoryKept ==
  ASSUME TypeOK, TypeOK', StampsInOrder, ReaderInv, [Next]_vars
  PROVE  HistoryInv'
<1> SUFFICES ASSUME Answered("history")'
             PROVE  HistoryInv'
  BY DEF HistoryInv
<1> DEFINE Requests == [report : {"history"}, type : Types, item : {kind.item : kind \in Kinds},
                        limit : Nat, from : Nat, items : Seq(Nat) \cup {None}]
<1>1. /\ DOMAIN audits = 1..Len(audits) /\ Len(audits) \in Nat
      /\ Len(audits) <= Len(audits') /\ Len(audits') \in Nat
      /\ \A i \in 1..Len(audits) : audits'[i] = audits[i]
  <2>1. Len(audits') \in Nat
    <3>1. audits' \in Seq(AuditLog)
      BY DEF TypeOK, AuditLog
    <3> QED
      BY <3>1, LenProperties
  <2> QED
    BY <2>1, LogGrows
<1>2. CASE reader' = reader
  <2>1. Answered("history") /\ HistoryInv
    BY <1>2 DEF Answered, ReaderInv
  <2>2. /\ reader \in Requests
        /\ reader.from <= Len(audits)
        /\ reader.items # None => reader.items \in Seq(1..Len(audits))
    BY <2>1 DEF HistoryInv
  <2>3. HistoryInOrder /\ HistoryNewest
    BY <2>1 DEF HistoryInv
  <2>4. reader.items # None => /\ reader.items \in Seq(1..Len(audits)')
                               /\ DOMAIN reader.items = 1..Len(reader.items)
                               /\ \A a \in DOMAIN reader.items : reader.items[a] \in 1..Len(audits)
                               /\ ToSet(reader.items) \subseteq 1..Len(audits)
    <3>1. 1..Len(audits) \subseteq 1..Len(audits')
      BY <1>1
    <3> SUFFICES ASSUME reader.items # None
                 PROVE  /\ reader.items \in Seq(1..Len(audits)')
                        /\ DOMAIN reader.items = 1..Len(reader.items)
                        /\ \A a \in DOMAIN reader.items : reader.items[a] \in 1..Len(audits)
                        /\ ToSet(reader.items) \subseteq 1..Len(audits)
      OBVIOUS
    <3>2. reader.items \in Seq(1..Len(audits))
      BY <2>2
    <3>3. /\ reader.items \in Seq(1..Len(audits'))
          /\ DOMAIN reader.items = 1..Len(reader.items)
      BY <3>1, <3>2, SeqMonotonic, LenProperties
    <3>4. \A a \in DOMAIN reader.items : reader.items[a] \in 1..Len(audits)
      BY <3>2, <3>3, ElementOfSeq
    <3> QED
      BY <3>3, <3>4 DEF ToSet
  <2>5. \A i, j \in 1..Len(audits) :
           (i <= audits[j].seen /\ audits[i].at # audits[j].at)
           <=> (i <= audits'[j].seen /\ audits'[i].at # audits'[j].at)
    BY <1>1
  <2>6. HistoryInOrder'
    <3>1. ASSUME reader.items # None, NEW a \in DOMAIN reader.items, NEW b \in DOMAIN reader.items,
                 /\ reader.items[a] <= audits'[reader.items[b]].seen
                 /\ audits'[reader.items[a]].at # audits'[reader.items[b]].at
          PROVE  b < a
      <4>1. Follows(reader.items[b], reader.items[a])
        BY <2>4, <2>5, <3>1 DEF Follows
      <4> QED
        BY <2>1, <2>3, <3>1, <4>1 DEF HistoryInOrder
    <3> QED
      BY <1>2, <3>1 DEF HistoryInOrder, Follows
  <2>7. HistoryNewest'
    <3>1. ASSUME reader.items # None, NEW i \in 1..reader.from,
                 audits'[i].kind.type = reader.type, audits'[i].kind.item = reader.item,
                 i \notin ToSet(reader.items)
          PROVE  /\ Len(reader.items) = reader.limit
                 /\ \A j \in ToSet(reader.items) :
                       ~(j <= audits'[i].seen /\ audits'[j].at # audits'[i].at)
      <4>1. i \in 1..Len(audits) /\ audits'[i] = audits[i]
        BY <1>1, <2>2
      <4>2. /\ Len(reader.items) = reader.limit
            /\ \A j \in ToSet(reader.items) : ~Follows(i, j)
        BY <2>1, <2>3, <3>1, <4>1 DEF HistoryNewest
      <4>3. ASSUME NEW j \in ToSet(reader.items)
            PROVE  ~(j <= audits'[i].seen /\ audits'[j].at # audits'[i].at)
        <5>1. j \in 1..Len(audits) /\ ~(j <= audits[i].seen /\ audits[j].at # audits[i].at)
          BY <2>4, <3>1, <4>2, <4>3 DEF Follows
        <5> QED
          BY <2>5, <4>1, <5>1
      <4> QED
        BY <4>2, <4>3
    <3> QED
      BY <1>2, <3>1 DEF HistoryNewest, Follows, ToSet
  <2> QED
    BY <1>1, <1>2, <2>2, <2>4, <2>6, <2>7 DEF HistoryInv
<1>3. CASE EntityHistory
  <2>1. PICK kind \in Kinds : \E limit \in Limits :
           reader' = [report |-> "history", type |-> kind.type, item |-> kind.item,
                      limit |-> NormalizedLimit(limit), from |-> Len(audits), items |-> None]
    BY <1>3 DEF EntityHistory
  <2>2. PICK limit \in Limits :
           reader' = [report |-> "history", type |-> kind.type, item |-> kind.item,
                      limit |-> NormalizedLimit(limit), from |-> Len(audits), items |-> None]
    BY <2>1
  <2>3. kind.type \in Types /\ NormalizedLimit(limit) \in Nat
    BY Clamps, KindsAssumption
  <2>4. reader' \in Requests /\ reader'.from <= Len(audits') /\ reader'.items = None
    BY <1>1, <2>2, <2>3
  <2> QED
    BY <2>4 DEF HistoryInv, HistoryInOrder, HistoryNewest
<1>4. CASE FindHistory
  <2>1. Answered("history") /\ HistoryInv /\ audits' = audits
    BY <1>4 DEF FindHistory, Answered, ReaderInv
  <2>2. reader \in Requests /\ reader.from <= Len(audits)
    BY <2>1 DEF HistoryInv
  <2>3. PICK items \in History(reader.type, reader.item, reader.limit) :
           reader' = [reader EXCEPT !.items = items]
    BY <1>4 DEF FindHistory
  <2>4. /\ items \in Seq(1..Len(audits))
        /\ \A a, b \in DOMAIN items : Follows(items[b], items[a]) => b < a
        /\ \A i \in 1..Len(audits) :
              /\ audits[i].kind.type = reader.type /\ audits[i].kind.item = reader.item
              /\ i \notin ToSet(items)
              => Len(items) = reader.limit /\ \A j \in ToSet(items) : ~Follows(i, j)
    BY <2>2, HistoryShown
  <2>5. items \in Seq(Nat)
    BY <1>1, <2>4, SeqMonotonic
  <2>6. /\ reader' \in Requests /\ reader'.items = items /\ reader'.from = reader.from
        /\ reader'.type = reader.type /\ reader'.item = reader.item
        /\ reader'.limit = reader.limit
    BY <2>2, <2>3, <2>5
  <2>7. HistoryInOrder'
    BY <2>1, <2>4, <2>6 DEF HistoryInOrder, Follows
  <2>8. HistoryNewest'
    BY <1>1, <2>1, <2>2, <2>4, <2>6 DEF HistoryNewest, Follows, ToSet
  <2> QED
    BY <2>1, <2>2, <2>4, <2>6, <2>7, <2>8 DEF HistoryInv
<1> QED
  BY <1>2, <1>3, <1>4, ReportSteps

\* What a statement of the summary returns depends on the rows up to its place.
LEMMA FiguresFixed ==
  ASSUME TypeOK, [Next]_vars, NEW since, NEW n \in 0..Len(audits), NEW k \in 1..5
  PROVE  FigureOf(k, since, n)' = FigureOf(k, since, n)
<1>1. \A i \in 1..n : audits'[i] = audits[i]
  BY LogGrows
<1>2. Since(since, n)' = Since(since, n) /\ Since(since, n) \subseteq 1..n
  BY <1>1 DEF Since
<1>3. Transitions(since, n)' = Transitions(since, n)
  <2>1. {i \in Since(since, n)' : audits'[i].kind.action = "transition"}
        = {i \in Since(since, n) : audits[i].kind.action = "transition"}
    BY <1>1, <1>2
  <2> QED
    BY <2>1 DEF Transitions
<1>4. UniqueActors(since, n)' = UniqueActors(since, n)
  <2>1. {audits'[i].kind.actor : i \in Since(since, n)'}
        = {audits[i].kind.actor : i \in Since(since, n)}
    BY <1>1, <1>2
  <2> QED
    BY <2>1 DEF UniqueActors
<1>5. ASSUME NEW column
      PROVE  [value \in {audits'[i].kind[column] : i \in Since(since, n)'} |->
                 Cardinality({i \in Since(since, n)' : audits'[i].kind[column] = value})]
             = [value \in {audits[i].kind[column] : i \in Since(since, n)} |->
                 Cardinality({i \in Since(since, n) : audits[i].kind[column] = value})]
  <2>1. {audits'[i].kind[column] : i \in Since(since, n)'}
        = {audits[i].kind[column] : i \in Since(since, n)}
    BY <1>1, <1>2
  <2>2. \A value : {i \in Since(since, n)' : audits'[i].kind[column] = value}
                   = {i \in Since(since, n) : audits[i].kind[column] = value}
    BY <1>1, <1>2
  <2> QED
    BY <2>1, <2>2
<1>6. Actions(since, n)' = Actions(since, n) /\ EntityTypes(since, n)' = EntityTypes(since, n)
  BY <1>5 DEF Actions, EntityTypes, Grouped
<1> QED
  BY <1>2, <1>3, <1>4, <1>6 DEF FigureOf

\* A later figure covers the rows an earlier one covers.
LEMMA SinceGrows ==
  ASSUME TypeOK, NEW since, NEW a \in 0..Len(audits), NEW b \in a..Len(audits)
  PROVE  /\ Since(since, a) \subseteq Since(since, b)
         /\ IsFiniteSet(Since(since, a)) /\ IsFiniteSet(Since(since, b))
         /\ Cardinality(Since(since, a)) \in Nat /\ Cardinality(Since(since, b)) \in Nat
         /\ Cardinality(Since(since, a)) <= Cardinality(Since(since, b))
<1>1. Len(audits) \in Nat /\ a \in Nat /\ b \in Nat /\ a <= b
  BY Instants
<1>2. Since(since, a) \subseteq Since(since, b) /\ Since(since, b) \subseteq 1..b
  BY <1>1 DEF Since
<1>3. IsFiniteSet(1..b)
  BY <1>1, FS_Interval
<1>4. IsFiniteSet(Since(since, b))
  BY <1>2, <1>3, Smaller
<1> QED
  BY <1>2, <1>4, Smaller

\* The groups of a column have as many rows as the window.
LEMMA GroupsAddUp ==
  ASSUME TypeOK, NEW since, NEW n \in 0..Len(audits)
  PROVE  /\ SumFunction(Actions(since, n)) = Cardinality(Since(since, n))
         /\ SumFunction(EntityTypes(since, n)) = Cardinality(Since(since, n))
<1>1. IsFiniteSet(Since(since, n))
  <2>1. n \in n..Len(audits)
    BY Instants
  <2> QED
    BY <2>1, SinceGrows
<1>2. ASSUME NEW column
      PROVE  SumFunction(Grouped(Since(since, n), column)) = Cardinality(Since(since, n))
  <2> DEFINE rows == Since(since, n)
             value == [i \in rows |-> audits[i].kind[column]]
             f == Grouped(rows, column)
  <2>1. /\ {value[i] : i \in rows} = {audits[i].kind[column] : i \in rows}
        /\ \A v : {i \in rows : value[i] = v} = {i \in rows : audits[i].kind[column] = v}
    OBVIOUS
  <2>2. f = [v \in {value[i] : i \in rows} |-> Cardinality({i \in rows : value[i] = v})]
    BY <2>1 DEF Grouped
  <2> HIDE DEF f, value, rows
  <2>3. IsFiniteSet(rows)
    BY <1>1 DEF rows
  <2>4. SumFunction(f) = Cardinality(rows)
    BY <2>2, <2>3, SumOfGroups
  <2> QED
    BY <2>4 DEF f, rows
<1> QED
  BY <1>2 DEF Actions, EntityTypes

\* There are no more actors than rows.
LEMMA FewerActors ==
  ASSUME TypeOK, NEW since, NEW n \in 0..Len(audits)
  PROVE  UniqueActors(since, n) <= Cardinality(Since(since, n)) /\ UniqueActors(since, n) \in Nat
<1> DEFINE rows == Since(since, n)
           actors == {audits[i].kind.actor : i \in rows}
           f == [i \in rows |-> audits[i].kind.actor]
<1>1. IsFiniteSet(rows)
  <2>1. n \in n..Len(audits)
    BY Instants
  <2> QED
    BY <2>1, SinceGrows
<1>2. f \in Surjection(rows, actors)
  BY DEF Surjection
<1> HIDE DEF f
<1> QED
  BY <1>1, <1>2, FS_Surjection, FS_CardinalityType DEF UniqueActors

\* Transitions counted earlier are in the group of that name later.
LEMMA TransitionsGrouped ==
  ASSUME TypeOK, NEW since, NEW a \in 0..Len(audits), NEW b \in a..Len(audits),
         Transitions(since, a) > 0
  PROVE  /\ "transition" \in DOMAIN Actions(since, b)
         /\ Transitions(since, a) <= Actions(since, b)["transition"]
<1> DEFINE T(n) == {i \in Since(since, n) : audits[i].kind.action = "transition"}
<1>1. Since(since, a) \subseteq Since(since, b) /\ IsFiniteSet(Since(since, b))
  BY SinceGrows
<1>2. T(a) \subseteq T(b) /\ T(b) \subseteq Since(since, b)
  BY <1>1
<1>3. IsFiniteSet(T(b)) /\ Cardinality(T(a)) <= Cardinality(T(b))
  <2> HIDE DEF T
  <2> QED
    BY <1>1, <1>2, Smaller
<1>4. T(a) # {}
  <2>1. CASE T(a) = {}
    <3>1. Cardinality(T(a)) = 0
      BY <2>1, FS_EmptySet
    <3> QED
      BY <3>1 DEF Transitions
  <2> QED
    BY <2>1
<1>5. PICK i \in Since(since, b) : audits[i].kind.action = "transition"
  BY <1>2, <1>4
<1>6. "transition" \in {audits[j].kind["action"] : j \in Since(since, b)}
  BY <1>5
<1>7. /\ DOMAIN Actions(since, b) = {audits[j].kind["action"] : j \in Since(since, b)}
      /\ Actions(since, b)["transition"] = Cardinality(T(b))
  BY <1>6 DEF Actions, Grouped
<1> QED
  BY <1>3, <1>6, <1>7 DEF Transitions

\* Every step keeps the figures those of a growing log.
LEMMA SummaryKept ==
  ASSUME TypeOK, TypeOK', ReaderInv, [Next]_vars
  PROVE  SummaryInv'
<1> SUFFICES ASSUME Answered("summary")'
             PROVE  SummaryInv'
  BY DEF SummaryInv
<1>1. /\ Len(audits) \in Nat /\ Len(audits') \in Nat /\ Len(audits) <= Len(audits')
  <2>1. audits' \in Seq(AuditLog)
    BY DEF TypeOK, AuditLog
  <2> QED
    BY <2>1, LogGrows, LenProperties
<1>2. CASE reader' = reader
  <2>1. SummaryInv /\ Answered("summary")
    BY <1>2 DEF Answered, ReaderInv
  <2>2. /\ reader = [report |-> "summary", since |-> reader.since, from |-> reader.from,
                     figures |-> reader.figures]
        /\ reader.since \in Int
        /\ reader.from \in 0..Len(audits)
        /\ Len(reader.figures) \in 0..5
        /\ reader.figures = [k \in 1..Len(reader.figures) |-> reader.figures[k]]
        /\ FiguresOfGrowingLog
    BY <2>1 DEF SummaryInv
  <2>3. PICK n \in [1..5 -> reader.from..Len(audits)] :
           \A k \in 1..Len(reader.figures) :
              /\ reader.figures[k] = FigureOf(k, reader.since, n[k])
              /\ \A j \in 1..k : n[j] <= n[k]
    BY <2>2 DEF FiguresOfGrowingLog
  <2>4. /\ reader.from \in 0..Len(audits) /\ Len(reader.figures) \in 0..5
        /\ \A k \in 1..5 : n[k] \in reader.from..Len(audits)
    BY <2>2
  <2>5. ASSUME NEW k \in 1..Len(reader.figures)
        PROVE  reader'.figures[k] = FigureOf(k, reader.since, n[k])'
    <3>1. k \in 1..5 /\ n[k] \in 0..Len(audits)
      <4>1. PICK len, from : len = Len(reader.figures) /\ from = reader.from
        OBVIOUS
      <4>2. k \in 1..len /\ len \in 0..5 /\ from \in 0..Len(audits)
        BY <2>4, <4>1
      <4>3. k \in 1..5
        BY <4>2
      <4>4. n[k] \in from..Len(audits)
        BY <2>4, <4>1, <4>3
      <4> QED
        BY <1>1, <4>2, <4>3, <4>4
    <3>2. PICK since, m : since = reader.since /\ m = n[k]
      OBVIOUS
    <3>3. FigureOf(k, since, m)' = FigureOf(k, since, m)
      BY <3>1, <3>2, FiguresFixed
    <3>4. reader'.since = since
      BY <1>2, <3>2
    <3> QED
      BY <1>2, <2>3, <3>2, <3>3, <3>4
  <2>6. n \in [1..5 -> reader'.from..Len(audits')]
    BY <1>1, <1>2, <2>2
  <2>7. FiguresOfGrowingLog'
    BY <1>2, <2>3, <2>5, <2>6 DEF FiguresOfGrowingLog
  <2> QED
    BY <1>1, <1>2, <2>2, <2>7 DEF SummaryInv
<1>3. CASE AuditSummary
  <2>1. PICK hours \in Hours :
           reader' = [report |-> "summary", since |-> clock - Window(hours),
                      from |-> Len(audits), figures |-> <<>>]
    BY <1>3 DEF AuditSummary
  <2>2. audits' = audits /\ clock - Window(hours) \in Int
    BY <1>3, Clamps DEF AuditSummary, TypeOK
  <2>3. Len(reader'.figures) = 0 /\ reader'.figures = <<>> /\ reader'.from = Len(audits)
    BY <2>1
  <2>4. FiguresOfGrowingLog'
    <3> DEFINE n == [k \in 1..5 |-> Len(audits)]
    <3>1. n \in [1..5 -> reader'.from..Len(audits')]
      BY <1>1, <2>2, <2>3
    <3> QED
      <4>1. 1..Len(reader'.figures) = {}
        BY <2>3
      <4> HIDE DEF n
      <4> QED
        BY <3>1, <4>1 DEF FiguresOfGrowingLog
  <2> QED
    BY <1>1, <2>1, <2>2, <2>3, <2>4 DEF SummaryInv
<1>4. CASE SummarizeAudits
  <2>1. SummaryInv /\ Answered("summary") /\ audits' = audits /\ Len(reader.figures) < 5
    BY <1>4 DEF SummarizeAudits, Answered, ReaderInv
  <2>2. /\ reader = [report |-> "summary", since |-> reader.since, from |-> reader.from,
                     figures |-> reader.figures]
        /\ reader.since \in Int
        /\ reader.from \in 0..Len(audits)
        /\ Len(reader.figures) \in 0..5
        /\ reader.figures = [k \in 1..Len(reader.figures) |-> reader.figures[k]]
        /\ FiguresOfGrowingLog
    BY <2>1 DEF SummaryInv
  <2>3. PICK n \in [1..5 -> reader.from..Len(audits)] :
           \A k \in 1..Len(reader.figures) :
              /\ reader.figures[k] = FigureOf(k, reader.since, n[k])
              /\ \A j \in 1..k : n[j] <= n[k]
    BY <2>2 DEF FiguresOfGrowingLog
  <2>4. PICK since, figures, len, from :
           since = reader.since /\ figures = reader.figures /\ len = Len(reader.figures)
           /\ from = reader.from
    OBVIOUS
  <2> DEFINE figure == FigureOf(len + 1, since, Len(audits))
  <2>5. /\ since \in Int /\ from \in 0..Len(audits) /\ len \in 0..5 /\ len < 5
        /\ n \in [1..5 -> from..Len(audits)]
    BY <2>1, <2>2, <2>4
  <2>6. reader = [report |-> "summary", since |-> since, from |-> from, figures |-> figures]
    BY <2>2, <2>4
  <2>7. figures = [k \in 1..len |-> figures[k]] /\ Len(figures) = len
    BY <2>2, <2>4
  <2>8. len \in 0..4 /\ len + 1 \in 1..5
    BY <2>5
  <2>9. reader' = [reader EXCEPT !.figures = Append(reader.figures, figure)]
    <3>1. CASE len = 0
      BY <1>4, <2>4, <3>1 DEF SummarizeAudits, FigureOf
    <3>2. CASE len = 1
      BY <1>4, <2>4, <3>2 DEF SummarizeAudits, FigureOf
    <3>3. CASE len = 2
      BY <1>4, <2>4, <3>3 DEF SummarizeAudits, FigureOf
    <3>4. CASE len = 3
      BY <1>4, <2>4, <3>4 DEF SummarizeAudits, FigureOf
    <3>5. CASE len = 4
      BY <1>4, <2>4, <3>5 DEF SummarizeAudits, FigureOf
    <3> QED
      BY <2>8, <3>1, <3>2, <3>3, <3>4, <3>5
  <2> HIDE DEF figure
  <2>10. /\ reader' = [report |-> "summary", since |-> since, from |-> from,
                       figures |-> Append(figures, figure)]
    <3> DEFINE appended == Append(figures, figure)
    <3>1. reader' = [reader EXCEPT !.figures = appended]
      BY <2>4, <2>9
    <3> HIDE DEF appended
    <3>2. reader' = [report |-> "summary", since |-> since, from |-> from, figures |-> appended]
      BY <2>6, <3>1
    <3> QED
      BY <3>2 DEF appended
  <2> DEFINE more == Append(figures, figure)
  <2>11. /\ Len(more) = len + 1
         /\ more = [k \in 1..(len + 1) |-> more[k]]
         /\ \A k \in 1..len : more[k] = figures[k]
         /\ more[len + 1] = figure
    <3> DEFINE S == {figures[k] : k \in 1..len} \cup {figure}
    <3>1. figures = [k \in 1..len |-> figures[k]] /\ len \in Nat /\ Len(figures) = len
      BY <2>8, <2>7
    <3>2. figures \in [1..len -> S] /\ figure \in S
      BY <3>1
    <3> HIDE DEF S, figure, more
    <3>3. figures \in Seq(S)
      <4>1. PICK f : f = figures /\ f \in [1..len -> S]
        BY <3>2
      <4>2. f \in Seq(S)
        BY <3>1, <4>1
      <4> QED
        BY <4>1, <4>2
    <3>4. /\ more \in Seq(S) /\ Len(more) = Len(figures) + 1
          /\ \A k \in 1..Len(figures) : more[k] = figures[k]
          /\ more[Len(figures) + 1] = figure
      BY <3>2, <3>3, AppendProperties DEF more
    <3>5. more \in [1..Len(more) -> S]
      BY <3>4, LenProperties
    <3> QED
      BY <3>1, <3>4, <3>5
  <2> HIDE DEF more
  <2> DEFINE m == [k \in 1..5 |-> IF k <= len THEN n[k] ELSE Len(audits)]
  <2>12. /\ m \in [1..5 -> from..Len(audits)]
         /\ \A k \in 1..(len + 1) : /\ more[k] = FigureOf(k, since, m[k])
                                    /\ \A j \in 1..k : m[j] <= m[k]
    <3>1. \A k \in 1..5 : n[k] \in from..Len(audits) /\ n[k] <= Len(audits)
      BY <1>1, <2>5
    <3>2. m \in [1..5 -> from..Len(audits)]
      BY <1>1, <2>5, <3>1
    <3>3. ASSUME NEW k \in 1..len
          PROVE  /\ more[k] = FigureOf(k, since, m[k])
                 /\ \A j \in 1..k : m[j] <= m[k]
      <4>1. /\ figures[k] = FigureOf(k, since, n[k])
            /\ \A j \in 1..k : n[j] <= n[k]
        BY <2>3, <2>4
      <4>2. m[k] = n[k] /\ \A j \in 1..k : m[j] = n[j]
        BY <2>8
      <4> QED
        BY <2>11, <4>1, <4>2
    <3>4. m[len + 1] = Len(audits) /\ \A j \in 1..(len + 1) : m[j] <= Len(audits)
      BY <1>1, <2>8, <3>1
    <3> HIDE DEF m
    <3>5. more[len + 1] = FigureOf(len + 1, since, m[len + 1])
      <4>1. more[len + 1] = figure /\ m[len + 1] = Len(audits)
        BY <2>11, <3>4
      <4> QED
        BY <4>1 DEF figure
    <3>6. \A k \in 1..(len + 1) : k \in 1..len \/ k = len + 1
      BY <2>8
    <3> QED
      BY <3>2, <3>3, <3>4, <3>5, <3>6
  <2> HIDE DEF m
  <2>13. reader'.since = since /\ reader'.from = from /\ reader'.figures = more
         /\ Len(reader'.figures) = len + 1
    BY <2>10, <2>11 DEF more
  <2>14. PICK r : r = m
    OBVIOUS
  <2>15. ASSUME NEW k \in 1..5
         PROVE  FigureOf(k, since, r[k])' = FigureOf(k, since, r[k])
    <3>1. PICK a : a = r[k]
      OBVIOUS
    <3>2. a \in 0..Len(audits)
      <4>1. a \in from..Len(audits)
        BY <2>12, <2>14, <3>1
      <4> QED
        BY <1>1, <2>5, <4>1
    <3>3. FigureOf(k, since, a)' = FigureOf(k, since, a)
      BY <3>2, FiguresFixed
    <3> QED
      BY <3>1, <3>3
  <2>16. FiguresOfGrowingLog'
    <3>1. \A k \in 1..Len(reader'.figures) :
             /\ reader'.figures[k] = FigureOf(k, reader.since, r[k])'
             /\ \A j \in 1..k : r[j] <= r[k]
      <4>1. ASSUME NEW k \in 1..(len + 1)
            PROVE  /\ more[k] = FigureOf(k, since, r[k])'
                   /\ \A j \in 1..k : r[j] <= r[k]
        <5>1. k \in 1..5
          BY <2>8
        <5> QED
          BY <2>12, <2>15, <2>14, <5>1
      <4> QED
        BY <2>13, <4>1
    <3>2. r \in [1..5 -> reader'.from..Len(audits')]
      BY <2>1, <2>12, <2>13, <2>14
    <3> QED
      BY <3>1, <3>2 DEF FiguresOfGrowingLog
  <2>17. /\ reader' = [report |-> "summary", since |-> reader'.since, from |-> reader'.from,
                       figures |-> reader'.figures]
         /\ reader'.since \in Int
         /\ reader'.from \in 0..Len(audits')
         /\ Len(reader'.figures) \in 0..5
         /\ reader'.figures = [k \in 1..Len(reader'.figures) |-> reader'.figures[k]]
    <3>1. reader' = [report |-> "summary", since |-> since, from |-> from, figures |-> more]
      BY <2>10 DEF more
    <3>2. more = [k \in 1..Len(more) |-> more[k]] /\ Len(more) \in 0..5
      BY <2>8, <2>11
    <3> QED
      BY <2>1, <2>5, <3>1, <3>2
  <2> QED
    BY <2>16, <2>17 DEF SummaryInv
<1> QED
  BY <1>2, <1>3, <1>4, ReportSteps

\* Figures of a growing log are in order.
LEMMA SummaryAgrees ==
  ASSUME TypeOK, SummaryInv
  PROVE  SummaryOrdered
<1> SUFFICES ASSUME Answered("summary"), Len(reader.figures) = 5
             PROVE  SummaryOrdered
  BY DEF SummaryOrdered
<1>1. /\ FiguresOfGrowingLog /\ reader.from \in 0..Len(audits)
      /\ Len(audits) \in Nat
  BY Instants DEF SummaryInv
<1>2. PICK n \in [1..5 -> reader.from..Len(audits)] :
         \A k \in 1..5 : /\ reader.figures[k] = FigureOf(k, reader.since, n[k])
                         /\ \A j \in 1..k : n[j] <= n[k]
  BY <1>1 DEF FiguresOfGrowingLog
<1>3. PICK since, from, last : since = reader.since /\ from = reader.from /\ last = Len(audits)
  OBVIOUS
<1> DEFINE InWindow(m) == Cardinality(Since(since, m))
<1>4. /\ from \in 0..last /\ last \in Nat
      /\ n[1] \in from..last /\ n[2] \in from..last /\ n[3] \in from..last
      /\ n[4] \in from..last /\ n[5] \in from..last
      /\ n[1] <= n[4] /\ n[2] <= n[4] /\ n[3] <= n[4] /\ n[4] <= n[5]
  BY <1>1, <1>2, <1>3
<1>5. /\ from \in 0..last /\ n[1] \in 0..last /\ n[2] \in 0..last /\ n[3] \in 0..last
      /\ n[4] \in 0..last /\ n[5] \in 0..last /\ last \in 0..last
      /\ n[1] \in from..last /\ n[4] \in n[1]..last /\ n[4] \in n[2]..last
      /\ n[4] \in n[3]..last /\ n[5] \in n[4]..last /\ last \in n[5]..last
  BY <1>4
<1>6. \A a \in 0..last : \A b \in a..last :
         InWindow(a) <= InWindow(b) /\ InWindow(a) \in Nat /\ InWindow(b) \in Nat
  BY <1>3, SinceGrows
<1>7. /\ reader.figures[1] = InWindow(n[1])
      /\ reader.figures[2] = Transitions(since, n[2])
      /\ reader.figures[3] = UniqueActors(since, n[3])
      /\ reader.figures[4] = Actions(since, n[4])
      /\ reader.figures[5] = EntityTypes(since, n[5])
  BY <1>2, <1>3 DEF FigureOf
<1>8. /\ SumFunction(reader.figures[4]) = InWindow(n[4])
      /\ SumFunction(reader.figures[5]) = InWindow(n[5])
  BY <1>3, <1>5, <1>7, GroupsAddUp
<1>9. reader.figures[2] > 0 => /\ "transition" \in DOMAIN reader.figures[4]
                               /\ reader.figures[2] <= reader.figures[4]["transition"]
  BY <1>3, <1>5, <1>7, TransitionsGrouped
<1>10. UniqueActors(since, n[3]) <= InWindow(n[3]) /\ UniqueActors(since, n[3]) \in Nat
  BY <1>3, <1>5, FewerActors
<1>11. \A m : Cardinality({i \in 1..m : audits[i].at >= reader.since}) = InWindow(m)
  BY <1>3 DEF Since
<1> HIDE DEF InWindow
<1>12. /\ InWindow(from) <= InWindow(n[1]) /\ InWindow(n[1]) <= InWindow(n[4])
       /\ InWindow(n[3]) <= InWindow(n[4]) /\ InWindow(n[4]) <= InWindow(n[5])
       /\ InWindow(n[5]) <= InWindow(last)
       /\ InWindow(n[3]) \in Nat /\ InWindow(n[4]) \in Nat
  BY <1>5, <1>6
<1>13. UniqueActors(since, n[3]) <= InWindow(n[4])
  BY <1>10, <1>12
<1> QED
  BY <1>3, <1>7, <1>8, <1>9, <1>11, <1>12, <1>13 DEF SummaryOrdered

\* The audits the log held when the overview was asked for.
Audited(from, type, action) ==
    Cardinality({i \in 1..from : audits[i].kind.type = type /\ audits[i].kind.action = action})

\* They are no more than the changes, and do not change.
LEMMA AuditedChanges ==
  ASSUME TypeOK, [Next]_vars, NEW type, NEW action, NEW from \in 0..Len(audits)
  PROVE  /\ Audited(from, type, action) \in Nat
         /\ Audited(from, type, action) <= Changes(type, action)
         /\ Audited(from, type, action)' = Audited(from, type, action)
<1> DEFINE rows == {i \in 1..from : audits[i].kind.type = type /\ audits[i].kind.action = action}
<1>1. /\ DOMAIN audits = 1..Len(audits) /\ Len(audits) \in Nat
      /\ \A i \in DOMAIN audits : audits'[i] = audits[i]
  BY LogGrows
<1>2. 1..from \subseteq DOMAIN audits
  BY <1>1
<1>3. rows \subseteq Logged(type, action)
  BY <1>2 DEF Logged
<1>4. /\ IsFiniteSet(Logged(type, action)) /\ Cardinality(Logged(type, action)) \in Nat
      /\ Cardinality(Unlogged(type, action)) \in Nat
  BY Counted
<1>5. {i \in 1..from : audits'[i].kind.type = type /\ audits'[i].kind.action = action} = rows
  BY <1>1, <1>2
<1> HIDE DEF rows
<1>6. Cardinality(rows) \in Nat /\ Cardinality(rows) <= Cardinality(Logged(type, action))
  BY <1>3, <1>4, Smaller
<1>7. Cardinality(rows) <= Changes(type, action)
  BY <1>4, <1>6 DEF Changes
<1> QED
  BY <1>5, <1>6, <1>7 DEF Audited, rows

\* What OverviewKeepsUp says of one figure.
FigureKeepsUp(from, type, figure) ==
    /\ Seeded + Audited(from, type, "create") <= Total(figure) + tables[type].deleted
    /\ Total(figure) + Audited(from, type, "delete") <= Total(tables[type]) + tables[type].deleted

\* A figure that keeps up does so later, as the table loses no row.
LEMMA FigureStaysUp ==
  ASSUME TypeOK, TypeOK', [Next]_vars, NEW type \in Types, NEW from \in 0..Len(audits),
         NEW figure \in [{"first", "later"} -> Nat], FigureKeepsUp(from, type, figure)
  PROVE  FigureKeepsUp(from, type, figure)'
<1>1. /\ Audited(from, type, "create") \in Nat /\ Audited(from, type, "delete") \in Nat
      /\ Audited(from, type, "create")' = Audited(from, type, "create")
      /\ Audited(from, type, "delete")' = Audited(from, type, "delete")
  BY AuditedChanges
<1>2. /\ tables[type].deleted <= tables'[type].deleted
      /\ Total(tables[type]) + tables[type].deleted
               <= Total(tables'[type]) + tables'[type].deleted
  BY TablesKept
<1>3. /\ Total(tables[type]) \in Nat /\ tables[type].deleted \in Nat
      /\ Total(tables'[type]) \in Nat /\ tables'[type].deleted \in Nat
  <2>1. tables'[type] \in [{"first", "later", "deleted"} -> 0..MaxTable] /\ MaxTable \in Nat
    BY Clamps DEF TypeOK
  <2>2. Total(tables'[type]) \in Nat /\ tables'[type].deleted \in Nat
    BY <2>1 DEF Total
  <2> QED
    BY <2>2, Totals
<1>4. Total(figure) \in Nat
  BY DEF Total
<1>5. /\ Seeded + Audited(from, type, "create") <= Total(figure) + tables[type].deleted
      /\ Total(figure) + Audited(from, type, "delete") <= Total(tables[type]) + tables[type].deleted
  BY DEF FigureKeepsUp
<1>6. ASSUME NEW a \in Nat, NEW b \in Nat, NEW c \in Nat, NEW d \in Nat,
             Seeded + a <= b + c, c <= d
      PROVE  Seeded + a <= b + d
  BY <1>6, SeededRows
<1>7. Seeded + Audited(from, type, "create")' <= Total(figure) + tables'[type].deleted
  <2>1. Seeded + Audited(from, type, "create") <= Total(figure) + tables'[type].deleted
    BY <1>1, <1>2, <1>3, <1>4, <1>5, <1>6
  <2> QED
    BY <1>1, <2>1
<1>8. Total(figure) + Audited(from, type, "delete")' <= Total(tables'[type]) + tables'[type].deleted
  <2>1. Total(figure) + Audited(from, type, "delete") <= Total(tables'[type]) + tables'[type].deleted
    BY <1>1, <1>2, <1>3, <1>4, <1>5
  <2> QED
    BY <1>1, <2>1
<1> QED
  BY <1>7, <1>8 DEF FigureKeepsUp

\* What is counted of a table keeps up with the log.
LEMMA TableKeepsUp ==
  ASSUME TypeOK, RowsExplained, [Next]_vars, NEW type \in Types, NEW from \in 0..Len(audits)
  PROVE  /\ CountByStatus(tables[type]) \in [{"first", "later"} -> Nat]
         /\ FigureKeepsUp(from, type, CountByStatus(tables[type]))
<1>1. \A action : /\ Audited(from, type, action) \in Nat
                  /\ Audited(from, type, action) <= Changes(type, action)
  BY AuditedChanges
<1>2. \A action : Changes(type, action) \in Nat
  BY Counted DEF Changes
<1>3. Total(tables[type]) \in Nat /\ tables[type].deleted \in Nat
  BY Totals
<1>4. Total(CountByStatus(tables[type])) = Total(tables[type])
  BY DEF Total, CountByStatus
<1>5. CountByStatus(tables[type]) \in [{"first", "later"} -> Nat]
  BY Typed, Clamps DEF CountByStatus, Table
<1>6. /\ Seeded + Changes(type, "create") <= Total(tables[type]) + tables[type].deleted
      /\ Changes(type, "delete") <= tables[type].deleted
  BY DEF RowsExplained
<1>7. /\ Audited(from, type, "create") \in Nat /\ Audited(from, type, "delete") \in Nat
      /\ Audited(from, type, "create") <= Changes(type, "create")
      /\ Audited(from, type, "delete") <= Changes(type, "delete")
      /\ Changes(type, "create") \in Nat /\ Changes(type, "delete") \in Nat
  BY <1>1, <1>2
<1> QED
  BY <1>3, <1>4, <1>5, <1>6, <1>7, SeededRows DEF FigureKeepsUp

\* OverviewKeepsUp is this of every figure.
LEMMA OverviewFigures ==
  ASSUME Answered("overview")
  PROVE  OverviewKeepsUp <=> \A k \in DOMAIN reader.figures :
            FigureKeepsUp(reader.from, OverviewOrder[k], reader.figures[k])
BY DEF OverviewKeepsUp, FigureKeepsUp, Audited

\* Every step keeps the figures of the overview up with the log.
LEMMA OverviewKept ==
  ASSUME TypeOK, TypeOK', RowsExplained, ReaderInv, [Next]_vars
  PROVE  OverviewInv'
<1> SUFFICES ASSUME Answered("overview")'
             PROVE  OverviewInv'
  BY DEF OverviewInv
<1>1. /\ Len(audits) \in Nat /\ Len(audits') \in Nat /\ Len(audits) <= Len(audits')
  <2>1. audits' \in Seq(AuditLog)
    BY DEF TypeOK, AuditLog
  <2> QED
    BY <2>1, LogGrows, LenProperties
<1>2. ASSUME Answered("overview"), OverviewInv
      PROVE  \E from \in 0..Len(audits), figures \in Seq([{"first", "later"} -> Nat]) :
                /\ reader = [report |-> "overview", from |-> from, figures |-> figures]
                /\ Len(figures) \in 0..4 /\ DOMAIN figures = 1..Len(figures)
                /\ \A k \in 1..Len(figures) :
                      /\ OverviewOrder[k] \in Types
                      /\ figures[k] \in [{"first", "later"} -> Nat]
                      /\ FigureKeepsUp(from, OverviewOrder[k], figures[k])
  <2>1. PICK from, figures : from = reader.from /\ figures = reader.figures
    OBVIOUS
  <2>2. /\ reader = [report |-> "overview", from |-> from, figures |-> figures]
        /\ from \in 0..Len(audits) /\ figures \in Seq([{"first", "later"} -> Nat])
        /\ Len(figures) <= 4 /\ OverviewKeepsUp
    BY <1>2, <2>1 DEF OverviewInv
  <2>3. /\ DOMAIN figures = 1..Len(figures) /\ Len(figures) \in 0..4
        /\ \A k \in 1..Len(figures) : figures[k] \in [{"first", "later"} -> Nat]
    <3>1. PICK S : S = [{"first", "later"} -> Nat]
      OBVIOUS
    <3>2. figures \in Seq(S)
      BY <2>2, <3>1
    <3>3. DOMAIN figures = 1..Len(figures) /\ Len(figures) \in Nat
      BY <3>2, LenProperties
    <3>4. \A k \in 1..Len(figures) : figures[k] \in S
      BY <3>2, ElementOfSeq
    <3>5. PICK len : len = Len(figures)
      OBVIOUS
    <3>6. Len(figures) <= 4
      BY <2>2, Zenon
    <3>7. len \in 0..4
      BY <3>3, <3>5, <3>6
    <3> QED
      BY <3>1, <3>3, <3>4, <3>5, <3>7
  <2>4. \A k \in 1..Len(figures) : FigureKeepsUp(from, OverviewOrder[k], figures[k])
    BY <1>2, <2>1, <2>2, <2>3, OverviewFigures
  <2>5. \A k \in 1..4 : OverviewOrder[k] \in Types
    BY DEF OverviewOrder, Types, ToSet
  <2>6. \A k \in 1..Len(figures) : OverviewOrder[k] \in Types
    <3>1. PICK len : len = Len(figures)
      OBVIOUS
    <3>2. len \in 0..4
      BY <2>3, <3>1
    <3>3. \A k \in 1..len : k \in 1..4
      BY <3>2
    <3> QED
      BY <2>5, <3>1, <3>3
  <2> QED
    BY <2>2, <2>3, <2>4, <2>6
<1>3. ASSUME NEW from \in 0..Len(audits), NEW figures \in Seq([{"first", "later"} -> Nat]),
             reader' = [report |-> "overview", from |-> from, figures |-> figures],
             Len(figures) \in 0..4,
             \A k \in 1..Len(figures) : FigureKeepsUp(from, OverviewOrder[k], figures[k])'
      PROVE  OverviewInv'
  <2>1. DOMAIN figures = 1..Len(figures)
    BY LenProperties
  <2>2. /\ reader' = [report |-> "overview", from |-> reader'.from, figures |-> reader'.figures]
        /\ reader'.from = from /\ reader'.figures = figures
    BY <1>3
  <2>3. from \in 0..Len(audits')
    BY <1>1
  <2>4. OverviewKeepsUp'
    <3>1. OverviewKeepsUp' <=> \A k \in DOMAIN reader'.figures :
             FigureKeepsUp(reader.from, OverviewOrder[k], reader.figures[k])'
      BY DEF OverviewKeepsUp, FigureKeepsUp, Audited
    <3>2. ASSUME NEW k \in 1..Len(figures)
          PROVE  FigureKeepsUp(reader.from, OverviewOrder[k], reader.figures[k])'
      BY <1>3, <2>2, <3>2 DEF FigureKeepsUp, Audited
    <3> QED
      BY <2>1, <2>2, <3>1, <3>2
  <2>5. Len(reader'.figures) <= 4 /\ reader'.figures \in Seq([{"first", "later"} -> Nat])
    <3>1. PICK len : len = Len(figures)
      OBVIOUS
    <3>2. Len(figures) \in 0..4
      BY <1>3, Zenon
    <3>3. len \in 0..4
      BY <3>1, <3>2, Zenon
    <3>4. len <= 4
      BY <3>3
    <3> QED
      BY <2>2, <3>1, <3>4
  <2>6. reader'.from \in 0..Len(audits')
    BY <2>2, <2>3
  <2>7. reader' = [report |-> "overview", from |-> reader'.from, figures |-> reader'.figures]
    BY <2>2
  <2> QED
    BY <2>4, <2>5, <2>6, <2>7 DEF OverviewInv
<1>4. CASE reader' = reader
  <2>1. Answered("overview") /\ OverviewInv
    BY <1>4 DEF Answered, ReaderInv
  <2>2. PICK from \in 0..Len(audits), figures \in Seq([{"first", "later"} -> Nat]) :
           /\ reader = [report |-> "overview", from |-> from, figures |-> figures]
           /\ Len(figures) \in 0..4 /\ DOMAIN figures = 1..Len(figures)
           /\ \A k \in 1..Len(figures) :
                 /\ OverviewOrder[k] \in Types
                 /\ figures[k] \in [{"first", "later"} -> Nat]
                 /\ FigureKeepsUp(from, OverviewOrder[k], figures[k])
    BY <1>2, <2>1
  <2>3. ASSUME NEW k \in 1..Len(figures)
        PROVE  FigureKeepsUp(from, OverviewOrder[k], figures[k])'
    <3>1. PICK type \in Types, figure \in [{"first", "later"} -> Nat] :
             type = OverviewOrder[k] /\ figure = figures[k]
      BY <2>2
    <3>2. FigureKeepsUp(from, type, figure)'
      BY <2>2, <3>1, FigureStaysUp
    <3> QED
      BY <3>1, <3>2
  <2> QED
    BY <1>3, <1>4, <2>2, <2>3
<1>5. CASE Overview
  <2>1. PICK from : from = Len(audits)
    OBVIOUS
  <2>2. PICK figures : figures = <<>>
    OBVIOUS
  <2>3. /\ reader' = [report |-> "overview", from |-> from, figures |-> figures]
        /\ from \in 0..Len(audits) /\ figures \in Seq([{"first", "later"} -> Nat])
        /\ Len(figures) = 0
    BY <1>1, <1>5, <2>1, <2>2 DEF Overview
  <2>4. Len(figures) \in 0..4 /\ \A k \in 1..Len(figures) : FALSE
    <3>1. PICK len : len = Len(figures)
      OBVIOUS
    <3>2. len \in 0..4 /\ \A k \in 1..len : FALSE
      BY <2>3, <3>1
    <3> QED
      BY <3>1, <3>2
  <2>5. from \in 0..Len(audits) /\ figures \in Seq([{"first", "later"} -> Nat])
    BY <2>3
  <2>6. \A k \in 1..Len(figures) : FigureKeepsUp(from, OverviewOrder[k], figures[k])'
    BY <2>4
  <2>7. reader' = [report |-> "overview", from |-> from, figures |-> figures]
    BY <2>3
  <2> QED
    BY <1>3, <2>4, <2>5, <2>6, <2>7
<1>6. CASE StatusCounts
  <2>1. /\ Answered("overview") /\ OverviewInv /\ audits' = audits /\ tables' = tables
        /\ Len(reader.figures) < 4
    BY <1>6 DEF StatusCounts, Answered, ReaderInv, OverviewOrder
  <2>2. PICK from \in 0..Len(audits), figures \in Seq([{"first", "later"} -> Nat]) :
           /\ reader = [report |-> "overview", from |-> from, figures |-> figures]
           /\ Len(figures) \in 0..4 /\ DOMAIN figures = 1..Len(figures)
           /\ \A k \in 1..Len(figures) :
                 /\ OverviewOrder[k] \in Types
                 /\ figures[k] \in [{"first", "later"} -> Nat]
                 /\ FigureKeepsUp(from, OverviewOrder[k], figures[k])
    BY <1>2, <2>1
  <2>3. PICK len, type, figure : /\ len = Len(figures) /\ type = OverviewOrder[len + 1]
                                 /\ figure = CountByStatus(tables[type])
    OBVIOUS
  <2>4. len \in 0..3 /\ type \in Types
    <3>1. len \in 0..4 /\ len < 4
      BY <2>1, <2>2, <2>3
    <3>2. len \in 0..3 /\ len + 1 \in 1..4
      BY <3>1
    <3>3. \A k \in 1..4 : OverviewOrder[k] \in Types
      BY DEF OverviewOrder, Types, ToSet
    <3> QED
      BY <2>3, <3>2, <3>3
  <2>5. /\ figure \in [{"first", "later"} -> Nat]
        /\ FigureKeepsUp(from, type, figure)
    BY <2>3, <2>4, TableKeepsUp
  <2> DEFINE more == Append(figures, figure)
  <2>6. /\ more \in Seq([{"first", "later"} -> Nat]) /\ Len(more) = len + 1
        /\ \A k \in 1..len : more[k] = figures[k]
        /\ more[len + 1] = figure
    BY <2>2, <2>3, <2>5, AppendProperties
  <2>7. reader' = [reader EXCEPT !.figures = more]
    BY <1>6, <2>2, <2>3 DEF StatusCounts
  <2> HIDE DEF more
  <2>8. reader' = [report |-> "overview", from |-> from, figures |-> more]
    BY <2>2, <2>7
  <2>9. PICK appended : appended = more
    OBVIOUS
  <2>10. ASSUME NEW k \in 1..(len + 1)
         PROVE  FigureKeepsUp(from, OverviewOrder[k], appended[k])
    <3>1. CASE k = len + 1
      BY <2>3, <2>5, <2>6, <2>9, <3>1
    <3>2. CASE k # len + 1
      <4>1. k \in 1..len
        BY <2>4, <3>2
      <4> QED
        BY <2>2, <2>3, <2>6, <2>9, <4>1
    <3> QED
      BY <3>1, <3>2
  <2>11. \A k \in 1..(len + 1) : FigureKeepsUp(from, OverviewOrder[k], appended[k])'
    BY <2>1, <2>10 DEF FigureKeepsUp, Audited
  <2>12. /\ reader' = [report |-> "overview", from |-> from, figures |-> appended]
         /\ appended \in Seq([{"first", "later"} -> Nat]) /\ Len(appended) = len + 1
         /\ Len(appended) \in 0..4
    <3>1. len + 1 \in 0..4
      BY <2>4
    <3> QED
      BY <2>6, <2>8, <2>9, <3>1
  <2> QED
    BY <1>3, <2>11, <2>12
<1> QED
  BY <1>4, <1>5, <1>6, ReportSteps

-----------------------------------------------------------------------------
(* What the answers promise                                                *)

\* All of it together is inductive.
LEMMA ReportStep == ReportInv /\ [Next]_vars => ReportInv'
<1> SUFFICES ASSUME ReportInv, [Next]_vars
             PROVE  ReportInv'
  OBVIOUS
<1>1. LogInv /\ ReaderInv /\ TypeOK /\ StampsInOrder /\ RowsExplained
  BY DEF ReportInv, LogInv
<1>2. LogInv' /\ TypeOK'
  BY <1>1, LogStep DEF LogInv
<1>3. ReaderInv'
  BY <1>1, <1>2, PagesKept, HistoryKept, SummaryKept, OverviewKept DEF ReaderInv
<1> QED
  BY <1>2, <1>3 DEF ReportInv

\* The log explains the tables, and every request has seen of them what its
\* statements so far show, however writers and readers interleave.
THEOREM ReportInvariant == Spec => []ReportInv
<1>1. Init => ReportInv
  BY InitLog, InitReader DEF ReportInv
<1> QED
  BY <1>1, ReportStep, PTL DEF Spec

\* Turning the pages of the audit log shows every row it held at the start, rows
\* of one instant excepted, while rows are appended.
THEOREM PagesComplete == Spec => []PagingSeesAll
<1>1. ReportInv => PagingSeesAll
  <2> SUFFICES ASSUME ReportInv, Answered("pages"), reader.last # None
               PROVE  PagingSeesAll
    BY DEF PagingSeesAll
  <2>1. /\ (reader.page - 1) * reader.size + reader.last >= reader.total
        /\ \A i \in reader.owed : ~Alone(i)
    BY DEF ReportInv, ReaderInv, PagesInv
  <2> QED
    BY <2>1 DEF PagingSeesAll, Alone
<1> QED
  BY <1>1, ReportInvariant, PTL

\* A history shows the changes of an entity in their order, the latest first.
THEOREM HistoryOrdered == Spec => []HistoryInOrder
<1>1. ReportInv => HistoryInOrder
  BY DEF ReportInv, ReaderInv, HistoryInv, HistoryInOrder
<1> QED
  BY <1>1, ReportInvariant, PTL

\* A history leaves out a change only when it is full of later ones, or of ones
\* made at the same time.
THEOREM HistoryComplete == Spec => []HistoryNewest
<1>1. ReportInv => HistoryNewest
  BY DEF ReportInv, ReaderInv, HistoryInv, HistoryNewest
<1> QED
  BY <1>1, ReportInvariant, PTL

\* The figures of a summary are those of a log that grew from one to the next.
THEOREM SummaryConsistent == Spec => []SummaryOrdered
<1>1. ReportInv => SummaryOrdered
  BY SummaryAgrees DEF ReportInv, ReaderInv, LogInv
<1> QED
  BY <1>1, ReportInvariant, PTL

\* The overview counts what the log holds, however long its four statements take.
THEOREM OverviewCurrent == Spec => []OverviewKeepsUp
<1>1. ReportInv => OverviewKeepsUp
  BY DEF ReportInv, ReaderInv, OverviewInv, OverviewKeepsUp
<1> QED
  BY <1>1, ReportInvariant, PTL
==============================================================================
