---------------------------- MODULE AuditReports ----------------------------
(***************************************************************************)
(* What is read from the audit log and the entity tables while requests   *)
(* change them: the pages of ListAudits, the summary of SummarizeAudits,  *)
(* the history of one entity and the overview of the four tables.  None   *)
(* of them reads in a transaction; every statement is a step of its own.  *)
(*                                                                         *)
(* A change and its audit are three steps: the table changes, Audit reads *)
(* the clock, the row is inserted.  The clock does not go back, and two   *)
(* readings may be equal: PostgreSQL keeps microseconds.                   *)
(***************************************************************************)
EXTENDS Integers, Sequences, FiniteSets, SequencesExt

CONSTANTS
    Writers,       \* requests that change entities
    Kinds,         \* the changes: [action, type, item, actor]
    Searches,      \* what a page may be searched for, None included
    Sizes, DefaultSize, MaxSize,         \* page sizes: asked for, 20 and 100
    Limits, DefaultLimit, MaxLimit,      \* of the history: asked for, 20, 100
    Hours, DefaultHours, MaxHours,       \* of the summary: asked for, 24, 24*90
    Seeded,        \* rows every table starts with
    MaxAudits, MaxTable, MaxClock,       \* bounds
    None

VARIABLES
    tables,    \* the entity tables, as numbers of rows
    audits,    \* the audit log, in the order of insertion
    clock,     \* of the server
    writers,   \* a change whose audit is still to come
    reader     \* the request of the reader

vars == <<tables, audits, clock, writers, reader>>

ASSUME ConstantsAssumption ==
    /\ None \notin Nat
    /\ IsFiniteSet(Writers)
    /\ {MaxSize, MaxLimit, MaxHours, MaxAudits, MaxTable, MaxClock} \subseteq Nat
    /\ Seeded \in 0..MaxTable
    /\ DefaultSize \in 1..MaxSize
    /\ DefaultLimit \in 1..MaxLimit
    /\ DefaultHours \in 0..MaxHours
    /\ Sizes \cup Limits \cup Hours \subseteq Int

\* Two statuses stand for the four of a table; a deleted row stays, marked.
Statuses == {"first", "later"}

\* The order in which Overview counts the tables.
OverviewOrder == <<"units", "rules", "samples", "decisions">>

Types == ToSet(OverviewOrder)

ASSUME KindsAssumption ==
    \A kind \in Kinds :
        kind.action \in {"create", "update", "transition", "delete"} /\ kind.type \in Types

\* What the audit log holds of a change; seen is how many rows it held already
\* when the change was made (it is not stored).
AuditLog == [kind : Kinds, at : 0..MaxClock, seen : 0..MaxAudits]

Total(counts) == counts["first"] + counts["later"]

Init ==
    /\ tables = [type \in Types |-> [first |-> Seeded, later |-> 0, deleted |-> 0]]
    /\ audits = <<>>
    /\ clock = 0
    /\ writers = [w \in Writers |-> None]
    /\ reader = None

-----------------------------------------------------------------------------
(* Changes and their audits                                                *)

\* Mutant: the row may have left that status since it was read.
HoldingOnce(rows) == Statuses

\* The statuses in which a table has rows.
Holding(rows) == {status \in Statuses : rows[status] > 0}

\* A service's change of its table; the checks before it are Resources'.
Changed(rows, action) ==
    CASE action = "create" -> {[rows EXCEPT !.first = @ + 1]}
      [] action = "transition" ->
            UNION {{[rows EXCEPT ![from] = @ - 1, ![to] = @ + 1] : to \in Statuses \ {from}} :
                from \in Holding(rows)}
      [] action = "delete" ->
            {[rows EXCEPT ![from] = @ - 1, !.deleted = @ + 1] : from \in Holding(rows)}
      [] action = "update" -> {rows : from \in Holding(rows)}

Change(w) ==
    /\ writers[w] = None
    /\ Len(audits) + Cardinality({v \in Writers : writers[v] # None}) < MaxAudits
    /\ \E kind \in Kinds : \E rows \in Changed(tables[kind.type], kind.action) :
          /\ Total(rows) + rows.deleted <= MaxTable
          /\ tables' = [tables EXCEPT ![kind.type] = rows]
          /\ writers' = [writers EXCEPT ![w] =
                            [kind |-> kind, at |-> None, seen |-> Len(audits)]]
    /\ UNCHANGED <<audits, clock, reader>>

\* Audit reads the clock ...
Stamp(w) ==
    /\ writers[w] # None /\ writers[w].at = None
    /\ writers' = [writers EXCEPT ![w].at = clock]
    /\ UNCHANGED <<tables, audits, clock, reader>>

\* ... and inserts; the request is answered.
AppendAudit(w) ==
    /\ writers[w] # None /\ writers[w].at # None
    /\ audits' = Append(audits, writers[w])
    /\ writers' = [writers EXCEPT ![w] = None]
    /\ UNCHANGED <<tables, clock, reader>>

\* The insert fails, or the server stops before it: the change stays.
AuditLost(w) ==
    /\ writers[w] # None
    /\ writers' = [writers EXCEPT ![w] = None]
    /\ UNCHANGED <<tables, audits, clock, reader>>

Tick ==
    /\ clock < MaxClock
    /\ clock' = clock + 1
    /\ UNCHANGED <<tables, audits, writers, reader>>

-----------------------------------------------------------------------------
(* What a statement returns                                                *)

\* Mutant: the oldest first.
OldestFirst(rows) ==
    {s \in SetToSeqs(rows) : \A a, b \in DOMAIN s :
        a < b => audits[s[a]].at <= audits[s[b]].at}

\* ORDER BY created_at DESC: rows of one instant come in any order.
NewestFirst(rows) ==
    {s \in SetToSeqs(rows) : \A a, b \in DOMAIN s :
        a < b => audits[s[a]].at >= audits[s[b]].at}

\* ListAudits: actor, entity type or action LIKE the search.
Matching(search) ==
    {i \in DOMAIN audits :
        LET kind == audits[i].kind
        IN  search = None \/ search \in {kind.actor, kind.type, kind.action}}

\* Mutant: only sizes below one are replaced.
BindPageUnbounded(size) == IF size < 1 THEN DefaultSize ELSE size

\* The handler's page size, which it also answers with.
BindPage(size) == IF size < 1 \/ size > MaxSize THEN DefaultSize ELSE size

\* The repository's.
NormalizePage(size) ==
    IF size < 1 THEN DefaultSize ELSE IF size > MaxSize THEN MaxSize ELSE size

\* OFFSET and LIMIT
Limited(order, offset, limit) == SubSeq(order, offset + 1, Min({offset + limit, Len(order)}))

\* Mutant: pages count from zero.
PageFromZero(order, page, size) == Limited(order, page * size, size)

PageOf(order, page, size) == Limited(order, (page - 1) * size, size)

OfEntity(type, item) ==
    {i \in DOMAIN audits : audits[i].kind.type = type /\ audits[i].kind.item = item}

NormalizedLimit(limit) ==
    IF limit < 1 THEN DefaultLimit ELSE IF limit > MaxLimit THEN MaxLimit ELSE limit

\* Mutant: the limit is applied before the filter.
LimitedHistory(type, item, limit) ==
    {SelectSeq(Limited(order, 0, limit), LAMBDA i : i \in OfEntity(type, item)) :
        order \in NewestFirst(DOMAIN audits)}

History(type, item, limit) ==
    {Limited(order, 0, limit) : order \in NewestFirst(OfEntity(type, item))}

Window(hours) ==
    IF hours < 1 THEN DefaultHours ELSE IF hours > MaxHours THEN MaxHours ELSE hours

\* The first n rows of the log that are inside a window.
Since(since, n) == {i \in 1..n : audits[i].at >= since}

\* Mutant: the filter on created_at is forgotten.
TransitionsEver(since, n) ==
    Cardinality({i \in 1..n : audits[i].kind.action = "transition"})

Transitions(since, n) ==
    Cardinality({i \in Since(since, n) : audits[i].kind.action = "transition"})

UniqueActors(since, n) == Cardinality({audits[i].kind.actor : i \in Since(since, n)})

\* The groups of GROUP BY action or entity_type, with their numbers of rows.
Grouped(rows, column) ==
    [value \in {audits[i].kind[column] : i \in rows} |->
        Cardinality({i \in rows : audits[i].kind[column] = value})]

Actions(since, n) == Grouped(Since(since, n), "action")

EntityTypes(since, n) == Grouped(Since(since, n), "type")

\* Mutant: COUNT(DISTINCT status), one for every status that has rows.
CountDistinct(rows) ==
    [status \in Statuses |-> IF rows[status] > 0 THEN 1 ELSE 0]

\* Mutant: the rows marked as deleted are counted too.
CountEveryRow(rows) ==
    [first |-> rows.first + rows.deleted, later |-> rows.later]

CountByStatus(rows) == [first |-> rows.first, later |-> rows.later]

-----------------------------------------------------------------------------
(* The reader's requests, one after another; since and from are fixed when *)
(* the request comes in (from is the length of the log, and not known).    *)

\* A client that turns pages until one is not full; owed are the rows it has
\* not been shown of those the log held when it began.
ListAudits ==
    /\ reader = None
    /\ \E search \in Searches, size \in Sizes :
          reader' = [report |-> "pages", search |-> search, size |-> BindPage(size),
                     page |-> 1, owed |-> Matching(search), total |-> None, last |-> None]
    /\ UNCHANGED <<tables, audits, clock, writers>>

CountAudits ==
    /\ reader # None /\ reader.report = "pages"
    /\ reader.last = None /\ reader.total = None
    /\ reader' = [reader EXCEPT !.total = Cardinality(Matching(reader.search))]
    /\ UNCHANGED <<tables, audits, clock, writers>>

FindAudits ==
    /\ reader # None /\ reader.report = "pages"
    /\ reader.last = None /\ reader.total # None
    /\ \E order \in NewestFirst(Matching(reader.search)) :
          LET items == PageOf(order, reader.page, NormalizePage(reader.size))
              owed  == reader.owed \ ToSet(items)
          IN  reader' = IF Len(items) < reader.size
                        THEN [reader EXCEPT !.owed = owed, !.last = Len(items)]
                        ELSE [reader EXCEPT !.owed = owed, !.page = @ + 1, !.total = None]
    /\ UNCHANGED <<tables, audits, clock, writers>>

EntityHistory ==
    /\ reader = None
    /\ \E kind \in Kinds, limit \in Limits :
          reader' = [report |-> "history", type |-> kind.type, item |-> kind.item,
                     limit |-> NormalizedLimit(limit), from |-> Len(audits), items |-> None]
    /\ UNCHANGED <<tables, audits, clock, writers>>

FindHistory ==
    /\ reader # None /\ reader.report = "history" /\ reader.items = None
    /\ \E items \in History(reader.type, reader.item, reader.limit) :
          reader' = [reader EXCEPT !.items = items]
    /\ UNCHANGED <<tables, audits, clock, writers>>

AuditSummary ==
    /\ reader = None
    /\ \E hours \in Hours :
          reader' = [report |-> "summary", since |-> clock - Window(hours),
                     from |-> Len(audits), figures |-> <<>>]
    /\ UNCHANGED <<tables, audits, clock, writers>>

\* The five statements, each over the log as it is by then.
SummarizeAudits ==
    /\ reader # None /\ reader.report = "summary" /\ Len(reader.figures) < 5
    /\ LET n == Len(audits)
           figure == CASE Len(reader.figures) = 0 -> Cardinality(Since(reader.since, n))
                       [] Len(reader.figures) = 1 -> Transitions(reader.since, n)
                       [] Len(reader.figures) = 2 -> UniqueActors(reader.since, n)
                       [] Len(reader.figures) = 3 -> Actions(reader.since, n)
                       [] Len(reader.figures) = 4 -> EntityTypes(reader.since, n)
       IN  reader' = [reader EXCEPT !.figures = Append(@, figure)]
    /\ UNCHANGED <<tables, audits, clock, writers>>

Overview ==
    /\ reader = None
    /\ reader' = [report |-> "overview", from |-> Len(audits), figures |-> <<>>]
    /\ UNCHANGED <<tables, audits, clock, writers>>

\* The next of the four tables.
StatusCounts ==
    /\ reader # None /\ reader.report = "overview"
    /\ Len(reader.figures) < Len(OverviewOrder)
    /\ LET type == OverviewOrder[Len(reader.figures) + 1]
       IN  reader' = [reader EXCEPT !.figures = Append(@, CountByStatus(tables[type]))]
    /\ UNCHANGED <<tables, audits, clock, writers>>

\* The answer is out; or a statement failed, and all that is sent is an error.
ReadEnds ==
    /\ reader # None
    /\ reader' = None
    /\ UNCHANGED <<tables, audits, clock, writers>>

Next ==
    \/ \E w \in Writers : Change(w) \/ Stamp(w) \/ AppendAudit(w) \/ AuditLost(w)
    \/ Tick
    \/ ListAudits \/ CountAudits \/ FindAudits
    \/ EntityHistory \/ FindHistory
    \/ AuditSummary \/ SummarizeAudits
    \/ Overview \/ StatusCounts
    \/ ReadEnds

Spec == Init /\ [][Next]_vars

-----------------------------------------------------------------------------
(* Properties                                                              *)

Pending == [kind : Kinds, at : 0..MaxClock \cup {None}, seen : 0..MaxAudits]

\* The state stays within its types, and the log grows by appending: every row
\* was written by a change that saw fewer rows than precede it or just those.
TypeOK ==
    /\ tables \in [Types -> [{"first", "later", "deleted"} -> 0..MaxTable]]
    /\ audits \in Seq(AuditLog)
    /\ \A i \in DOMAIN audits : audits[i].seen < i
    /\ clock \in 0..MaxClock
    /\ writers \in [Writers -> Pending \cup {None}]

\* Requests that were answered, of a report
Answered(report) == reader # None /\ reader.report = report

\* Turning pages until one is not full shows every row the log held at the
\* start, whatever is appended meanwhile, except rows that share their instant
\* with another (created_at alone does not order them); and by then the rows
\* passed reach the total.  It relies on the size that is answered being the
\* size that is used.
PagingSeesAll ==
    Answered("pages") /\ reader.last # None =>
        /\ \A i \in reader.owed : \E j \in DOMAIN audits \ {i} : audits[j].at = audits[i].at
        /\ (reader.page - 1) * reader.size + reader.last >= reader.total

\* The change of row i had been audited before the change of row j was made, and
\* the clock has moved in between.
Follows(j, i) == i <= audits[j].seen /\ audits[i].at # audits[j].at

\* A history shows changes in their order, the latest first, when one had been
\* audited before the other was made.
HistoryInOrder ==
    Answered("history") /\ reader.items # None =>
        \A a, b \in DOMAIN reader.items :
            Follows(reader.items[b], reader.items[a]) => b < a

\* It leaves out what the log held of the entity only when it is full, and only
\* for changes that did not end before the left out one was made.
HistoryNewest ==
    Answered("history") /\ reader.items # None =>
        \A i \in 1..reader.from :
            /\ audits[i].kind.type = reader.type /\ audits[i].kind.item = reader.item
            /\ i \notin ToSet(reader.items)
            => /\ Len(reader.items) = reader.limit
               /\ \A j \in ToSet(reader.items) : ~Follows(i, j)

\* The five figures of a summary are read while the log grows, so they need not
\* agree; but each lies between the log at the request and the log at the
\* answer, and a later one covers what an earlier one counted: no more in total
\* than by action, no more transitions than the group of that name, no more
\* actors than rows, no more by action than by entity type.
SummaryOrdered ==
    Answered("summary") /\ Len(reader.figures) = 5 =>
        LET InWindow(n) == Cardinality({i \in 1..n : audits[i].at >= reader.since})
            total == reader.figures[1]
            actions == reader.figures[4]
        IN  /\ InWindow(reader.from) <= total
            /\ total <= SumFunction(actions)
            /\ reader.figures[2] > 0 => "transition" \in DOMAIN actions
                                        /\ reader.figures[2] <= actions["transition"]
            /\ reader.figures[3] <= SumFunction(actions)
            /\ SumFunction(actions) <= SumFunction(reader.figures[5])
            /\ SumFunction(reader.figures[5]) <= InWindow(Len(audits))

\* The overview keeps up with the log: every row that was seeded, or whose creation
\* was audited when the overview was asked for, is counted or deleted by now; and a
\* row whose deletion was audited then is not counted any more.
OverviewKeepsUp ==
    Answered("overview") =>
        \A k \in DOMAIN reader.figures :
            LET type == OverviewOrder[k]
                Audited(action) == Cardinality({i \in 1..reader.from :
                    audits[i].kind.type = type /\ audits[i].kind.action = action})
                counted == Total(reader.figures[k])
            IN  /\ Seeded + Audited("create") <= counted + tables[type].deleted
                /\ counted + Audited("delete") <= Total(tables[type]) + tables[type].deleted
=============================================================================
