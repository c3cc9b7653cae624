# Carbon capture compliance operations: TLA+ models and proofs

This directory specifies and verifies the carbon capture compliance platform:
a Go backend (Gin, GORM, PostgreSQL, Redis) and an Angular frontend.  The
backend is in `src/backend`, the frontend in `src/frontend`; paths below are
relative to `src/backend/internal` unless they start with `src/`.

## 1. Inventory

| Component | State | Operations | Hard parts | What makes it correct |
|---|---|---|---|---|
| Compliance decisions (`{handler,service,repository}/compliance_decision.go`) | tables `compliance_decisions` (soft delete, `version`) and `decision_revisions` (append only, unique on decision and version) | create, update, transition, delete, get, list | read, check and write are separate statements of concurrent goroutines; commits whose reply is lost; audit and response query after the commit; crashes | the revisions explain the row; histories follow the graph and the reviewer rule; no lost update; answers tell the truth |
| Capture units, permit rules, emission samples (three copies of one service on `repository/base.go`) | a table each (soft delete, `version`) | the same, without revisions, locks and reviewers | the same, with only the version predicate to rely on | every committed step is a legal move from the version that was read |
| Status graphs (`constants/status.go`) | none | `CanTransition` | | |
| Audit log (`service/security.go`, `repository/security.go`) | table `audit_logs`, append only | `Audit`, lists, summary, entity history | appended after the commit in a statement of its own; queries of several statements | an audit row tells of a real change; a page, history or summary read while the log grows leaves out and counts nothing it should not |
| Roles (`middleware/auth.go`) | none (JWT) | `Authenticate`, `RequireRoles`, `RequireMinimumRole` | | only permitted roles reach a write |
| Rate limiter (`middleware/ratelimit.go`) | Redis key per minute, client and route; a map per server | `Middleware`, `increment`, `incrementLocal`, `cleanupLocal`, `Status` | lost Redis replies, expiry, late pipelines, minute boundaries, map growth | an allowance per counter, justified refusals, bounded map |
| Startup (`database/database.go`, `src/backend/cmd/server/main.go`, `src/docker-compose.yml`) | existence of tables and seeds | `Open`, `migrate`, `Seed*`, restart | several processes, broken boots, outages | seeds inserted once, all processes end up serving |
| System endpoints (`handler/system.go`) | none | health, overview, session, runtime, audit reports | the overview and the summary are several statements without a snapshot | the figures of a report lie between the state at its request and at its answer |
| Configuration, request context, response helpers | none | parsing, headers, logging | | |
| Frontend store and page (`src/frontend/src/stores/factory.ts`, `components/entity-page.component.ts`) | list, `loading`, `error`, `pending` | load, create, transition, dialogs | overlapping calls whose answers come in any order, other clients, lost answers | a transition is made from the status its dialog showed, and once; no spinner without a call; buttons agree with the backend's rules |
| Frontend session (`hooks/use-auth.ts`, `api/client.ts`, `router/index.ts`) | session signal, local storage, login promise | authenticate, logout, guards | logout racing a login, several tabs on one storage, redirects between guards | one login at a time; after a logout no earlier session comes back; every navigation settles once the backend stays up |

The frontend calls the backend over HTTP; each backend request runs in a
goroutine, passes the limiter and the role guards, and talks to the tables
statement by statement.  The tables and Redis are all that requests share; a
process keeps nothing else but the limiter's map.  The tables survive a crash.

The hazards this code is exposed to are listed in `PROJECT.json`, each at its
line, with the properties that cover it or the reason why none does.

## 2. Modules

| Module | What it is |
|---|---|
| `StatusGraphs` | the four graphs as sets of edges, the role ranks and guards |
| `ComplianceDecision` | requests on decisions, at the grain of one database statement or transaction |
| `DecisionLedger` | abstract: per decision an append-only ledger that starts with a draft, amends drafts, advances along the graph and is closed by a removal |
| `ComplianceDecisionInv` | the inductive invariants, as named parts |
| `Resources` | requests on units, rules and samples |
| `AuditReports` | the reports read from the audit log and the tables while both change |
| `RateLimiter` | the limiter, Redis and several servers |
| `Startup` | several processes booting, serving, failing and restarting |
| `EntityStore` | a frontend page with its store, against the backend and other clients |
| `Session` | the frontend's sessions, login promise and guards, in several tabs |
| `*Proofs` | the TLAPS proofs, see section 4 |
| `MC*` | small instances for TLC |

### ComplianceDecision

Variables are the three tables (`decisions`, `revisions`, `audits`) and the
locals of every request: `pc` (where it stands), `op`, `subject` (the id),
`role`, `read` (the row its first `Get` returned), `current` (the row to store)
and its answer (`shown`, `reply`).  A step is one statement or transaction with
the Go code up to the next, which touches nothing shared:

    idle --Get, checks--> write --transaction--> audit --> reload --> history --> done

* Arrival: `Create`, `Update`, `Transition`, `Delete` are the service methods
  up to their first write; `Refuse`, `BusinessRule` and `Missing` the requests
  that stop before it; `Read` a GET.
* Transaction: `CreateWithRevision`, `UpdateWithRevision`, `SoftDelete` are the
  repository methods when they commit, `VersionConflict` and `DeleteNotFound`
  when no row matched, `TransactionFails` when they roll back.  `Committed` lets
  the reply to COMMIT get lost, so that the client sees 500 for a stored write.
* Afterwards: `AppendAudit` and `AuditFails` (Create and Update drop the error,
  Transition and Delete return it), `Reload` and `PreloadRevisions` (the two
  statements of `Get`), `QueryFails`.
* `Crash` ends every request in flight and keeps the tables.

All business fields are one content value: the code writes them together and
compares none of them.  Locals of a request that wrote are kept after it ends,
since the properties compare what it read with what it stored.
`expectedVersion` is any version up to the current one plus `Foresight`; a
client that, like the frontend, sends back versions it was shown has
`Foresight = 0`.  The unique violation of a revision key is part of
`TransactionFails`; for clients without foresight it cannot happen.

### Resources

One module stands for the three copies of the service: `CaptureUnits`,
`PermitRules` and `EmissionSamples` give `Arrive` their table, graph and initial
status.  `stored` is a history variable: what the database really did.  Create
answers with the item it inserted; the other writers read the row once more.

### RateLimiter

Time is the minute the code truncates to.  `Arrive` formats the Redis key with
the minute of arrival; `Exec` and `ExecFails` are the pipeline with and without
a reply, where an error may or may not follow the effect; `IncrementLocal` is
the fallback under the mutex, with the minute read inside.  The delay from
formatting to EXEC is at most into the next minute (go-redis' timeouts are
seconds); the key lives two minutes from its last INCR, which is what makes that
delay harmless.  Redis losing its data and servers losing their map (both
forget a count, for at most a minute) are not modelled.

### Startup

A table is the number of its live rows and how often its seeds went in.  The
unique index on `code` still holds the codes of soft-deleted rows, so seeds fit
in once.  Creating and deleting rows by serving processes goes on meanwhile.

### AuditReports

`Change`, `Stamp` and `AppendAudit` are the three steps of a write as the
reports see it: the table changes, `Audit` reads the clock, the row is inserted;
`AuditLost` is a change whose audit row never comes.  The checks before a change
are those of `Resources`; an update moves no row.  The clock does not go back, and two rows may carry the
same instant.

There is one reader at a time, since readers do not affect each other.  Every SQL statement
it sends is a step: `CountAudits` and `FindAudits` for each page of `ListAudits`,
`FindHistory` for `EntityHistory`, five times `SummarizeAudits` for the summary,
four times `StatusCounts` for the overview.  Rows of one instant may come in any
order, so `NewestFirst` is the set of all orders.  The page turned until it is not
full is a client of the API; the frontend's own audit page asks for the first 30
rows only.  `BindPage`, `NormalizePage`, `NormalizedLimit` and `Window` are the
clamps of sizes, limits and hours.

Two things the reports do not promise: the transitions of a summary may exceed
its total, because they are counted by a later statement, so `SummaryOrdered`
compares each figure with a later one only; and a row that shares its instant
with another may be left out when pages are turned (`PagingSeesAll` excepts
them).

### EntityStore

One page of `entity-page.component.ts` on one store of `stores/factory.ts`.  A
member of `calls` is an async method in flight: a load, or a write and the load
that follows it.  `Query`, `Visit`, `CreateDemo` and `ConfirmTransition` start
one; `Transitioned`, `Created`, `NotStored`, `Listed` and `NotListed` are what
the backend does with its request; `Reloads`, `Refused` and `Ends` are the
continuations after each `await`.  Dialogs (`OpenTransition` and the others) keep
the item as it was shown.  `OtherTransitions`, `OtherUpdates` and `OtherDeletes`
are the other clients.  The backend answers a POST in one step: for clients that
send back versions they were shown, `LegalMoves`, `LegalHistory` and
`NoLostUpdate` say that the requests of `Resources` and `ComplianceDecision` do
what an atomic check and write would.  `applied` and `acked` are history
variables.

`Statuses` is the page's own list of statuses and `Graph` the backend's: that
what the page offers is an edge is `OffersAccepted`, not an assumption.

### Session

`tabs` holds the signals of `use-auth.ts` and the router of every tab, `storage`
whether local storage has a session, `up` whether the backend answers.  `LogIn`
is `authenticate` with its shared promise, `Guarded` is `requireRole`, `Settled`
the `finally` of `authenticate`.  `Load`, `Close`, `Navigate` and `Logout` are the
user, `LoginSucceeds` and `LoginFails` the end of a login with the callbacks
that run before the next event: the guard that waited goes on or redirects to
`/units`.  A navigation made while another waits replaces it.  The frontend has
one account, an admin, so a session passes every guard.

## 3. Runs

| Run | Instance | Shows |
|---|---|---|
| `decision` | 3 requests, a seeded draft and a free key, 2 contents, operator and admin | the eight invariants of `ComplianceDecision` |
| `ledger` | 3 requests, one decision in review | `LedgerSpec`: rows and revisions implement `DecisionLedger`; `SafetyInv` and `AnswerInv`, the inductive invariants |
| `delete_race` | 2 requests, a draft | violation of `OnlyDraftsDeleted` |
| `audit_gap` | 2 requests, a draft | violation of `EveryTransitionAudited` |
| `foresight` | 2 requests, a draft, `Foresight = 1` | violation of `LockedAfterReview` |
| `resources` | 3 requests, one unit and one rule seeded, an empty table of samples | `LegalMoves`, `NoLostUpdate`, `AuditTruthful` |
| `limiter` | 3 requests, 2 servers, 3 keys, limit 2, cleanup at 2, 3 minutes | `AtMostLimit`, `RefusalJustified`, `MemoryBounded` |
| `startup` | 2 processes, 5 tables, at most 2 rows, 2 attempts, 2 failures | `ServingMeansSeeded`, `SeededAtMostOnce`, `EventuallyServing` |
| `entity_store` | one row, 2 calls in flight, versions up to 3, six pairs of page and role | `IntentHonored`, `AppliedOnce`, `SpinnerSettles`, `OffersAccepted` |
| `own_writes` | the same on decisions, as a reviewer | violation of `OwnWritesShown` |
| `session` | 2 tabs, 3 routes | `OneLogin`, `FreshAfterLogout`, `ShellReturns`, `NavigationSettles` |
| `reports` | 2 writers, 3 kinds of change on 2 tables, at most 3 audit rows and 2 instants | `PagingSeesAll`, `HistoryInOrder`, `HistoryNewest`, `SummaryOrdered`, `OverviewKeepsUp` |

Bounds.  Three requests are one more than a race needs: two write the same
version while a third deletes, reads or writes the version after it.  One id is
enough for races on a row, a second one for creation.  Operator and admin are
the two sides of the reviewer rule and of the delete guard; viewers are refused
and reviewers differ from admins only in deleting.  In `limiter`, three requests
are one above the limit, three keys one above the cleanup size, and three
minutes let a key of the first expire.  In `startup`, two failures allow an
outage during the boot that follows a crash.  Requests are served once, so runs
of the request models stop (`CHECK_DEADLOCK FALSE`); the others never do and are
checked for deadlock.

In `entity_store`, two calls are enough for answers to overtake one another, a
second confirmation and a load during a write; three versions let another client
move the row between a dialog and its answer.  Rows do not interact, so one is
enough.  The pairs of page and role offer transitions on all four graphs, with
both sides of each button's condition.  In `session`, two tabs share a storage, and of three routes
one is `/units`, one waits and one is navigated to meanwhile; `MaxLogins` is one
more than `OneLogin` allows, so that it can fail.  In `reports`, a page of two
rows does not hold a log of three, the sizes, limits and hours asked for are
below and above what is allowed, and two instants separate what is inside the
summary's window from what is not and let rows be stamped in another order than
they are inserted.  The defaults and maxima (20, 100, 24 and 2160 in the code) are
scaled down to 1, 2, 0 and 1; only their order matters.  The tables begin with
one row, which is deleted, and one more is created.  Requests, calls in
flight and writers are told apart by nothing, so runs use symmetry on them where
no liveness is checked.

Fairness is assumed in `Session` and `Startup`.  In `Session` a login in flight
ends (weak fairness of `LoginEnds` for each tab): `fetch` settles.  The backend
need not come back; `NavigationSettles` speaks of the behaviours in which it
stays up from some time on.  In `Startup` a process goes on booting (weak fairness
of `Boot`), Docker starts again what ended (`restart: unless-stopped`), and
PostgreSQL and Redis come back (the same policy).  Outages, crashes and expired
startup contexts are bounded in number, so "eventually" means once they cease.

### What the violations say

* **Deletion races a submission.** `Delete` checks the status of a row it read
  and then deletes by id.  A transition that commits in between is lost with the
  decision, which by then was in review (`service/compliance_decision.go:132`).
  `DecisionLedger` therefore allows removal in any state.
* **Changes without audit.** The audit row is a separate statement after the
  commit.  If it fails, or the process dies first, the change stays unaudited,
  and the client's retry is refused because the version has moved on.
* **Foresight.** `expectedVersion` is compared with the row at the time of the
  UPDATE, never with the row that was read and checked.  A client that names
  the next version passes with stale columns once another request has produced
  that version: content changes in review, and transitions outside the graph,
  become possible.  The frontend sends only versions it was shown; the API
  accepts any.  The same holds of the three resources.

* **A tab's own write may vanish from its list.** Each load replaces the list
  when its answer arrives (`src/frontend/src/stores/factory.ts:7`).  A load
  sent before a transition and answered after the load that follows it brings
  the row back as it was before, without an error (`OwnWritesShown`).  A
  transition offered on that row is refused with 409, never misapplied
  (`IntentHonored`).

Also worth knowing: once every row of a seeded table is deleted, each further
boot counts zero live rows, inserts the seeds again, violates the unique index
and exits.  This is why `EventuallyServing` has a premise.  And with Redis
failing now and then, a client has one allowance there and one at every server.

## 4. Proofs

Every theorem holds for every set of requests, rows, contents, servers, tabs or
calls, from the named assumptions on the constants alone.  These say what the
code's types say; `NoneAssumption` (`Resources`, `RateLimiter`) adds that the
mark for "nothing there" is none of the values it stands beside, and
`KindsAssumption` (`AuditReports`) that an audited change is one of the four
actions the services log, on one of the four tables.

| Module | Theorems |
|---|---|
| `ComplianceDecisionProofs` | `TypeCorrect`, `HistoryIsComplete` for every `Foresight`; `HistoryIsLegal`, `UpdatesAreNotLost` for `Foresight = 0` |
| `ComplianceDecisionPromisesProofs` | `LedgerImplemented`: `Spec => LedgerSpec` for `Foresight = 0`; `AnswersAreTruthful`, `ResponsesAreExplained` for every `Foresight`; `ConflictsAreJustified`, `AuditsAreTruthful` for `Foresight = 0` |
| `ResourcesProofs` | `ResourceTypes` for every `Foresight`; `UpdatesNotLost`, `AuditsTrue`, `MovesLegal` for `Foresight = 0` |
| `RateLimiterProofs` | `LimiterTypes`, `LimitHolds`, `RefusalsJustified`, `LimiterMemory` |
| `StartupProofs` | `StartupTypes`, `SeededOnce`, `ServersSeeded` |
| `AuditReportsProofs` | `ReportTypes`, `PagesComplete`, `HistoryOrdered`, `HistoryComplete`, `SummaryConsistent`, `OverviewCurrent` |
| `EntityStoreProofs` | `TypeCorrect`, `IntentIsHonored`, `AppliedAtMostOnce`, `SpinnerStops`, `ButtonsMatchRules` |
| `SessionProofs` | `SessionTypes`, `LoginShared`, `SessionFresh`, `ShellWaits` |

Hardly any of these properties is inductive; each module proves a strengthening.

**Decisions, tables.**  `HistoryInv` adds the shape of a handler before its
write (`HandlerShape`), that what it is about to store is the row it read with
one legal change (`ChangePlanned`), that authors of revisions are past their
write (`AuthorsPastWrite`), and splits completeness into parts a step can be
followed through (`RevisionsInRange`, `NoVersionMissing`, `RevisionsKeyed`).
It holds for every `Foresight`: the version predicate and the transaction alone
keep rows and revisions together.  `SafetyInv` adds `ReadIsStale`: a pending
writer expects at most the version it read, that version is at most the stored
one, and while they are equal so are the rows.  Then either the UPDATE matches
and the row replaced is the row read, so the check made on it still holds, or it
does not match.  With foresight `ReadIsStale` fails, and the run `foresight`
shows what follows.

**Decisions, answers.**  `AnswerInv` says of each request what it knows to be
stored where it stands (`Stored`), that its revision is the one its locals
describe (`OwnRevision`), and what its answer says (`Told`).  Two facts carry it
past the other requests' steps: the tables only grow (`TablesGrow`: a row keeps
its place, its version does not fall, a deleted one stays deleted) and a step of
one request leaves the others where they are (`StepOfOne`).  `EvidenceInv` adds
conflicts and audit rows; a conflict is honest because of `ReadIsStale` and
`NoVersionMissing`, an audit row true because of `NoLostUpdate`.  A deletion stores
no revision; `DeletionsRead` keeps the revision of the version it has read.

**Decisions, refinement.**  The ledger of a decision is read off its revisions;
`LedgerShaped` says that with `HistoryInv` it is a sequence of the row's length
whose entries are the revisions'.  A create, update or transition then appends
one entry (`LedgerExtended`), which `ReadIsStale` and `ChangePlanned` make an
`Amend` or an `Advance`; everything else leaves the ledgers alone
(`LedgerKept`).  `PlansLive`, that no writer is about to store a deleted row,
is needed so that only `SoftDelete` removes.

**Resources.**  `BasisInv`: the row a request read is an earlier form of the
stored one and is the stored one while the version is the same, it passed the
checks of its operation, and what it logs was stored by it.  So the status a
deletion audits is stale only if the row was changed between its two statements.

**Rate limiter.**  `TicketInv`: the counts of one counter are distinct and not
above it, and a counter that expired or was replaced belongs to a past minute;
so at most `Limit` of them are within the limit.  `HitInv`: a counter is not
above the number of increments made on it, which justifies a refusal.
`MemoryInv` follows one cleanup to the next.

**Startup.**  `SeedInv`: a process has passed only tables that are seeded, and
rows exist only in seeded tables.

**Reports.**  `LogInv` says what the log tells of the tables.  `StampsInOrder`: a
change is not stamped earlier than any row that was in the log when it was made,
though rows are inserted in another order than they are stamped.
`RowsExplained`: the seeded rows and the creations that are or will be audited are
no more than the rows of a table, the deletions no more than its marked rows (changes whose audit
is lost make it no equality).  `ReaderInv` adds what a request has seen so far:

* `PagesInv`: for a row that is owed and shares its instant with no other, there
  are more rows not older than it than the pages turned so far have passed.
  Appended rows only add to them, and the place of such a row in any order by
  time is just their number (`PlaceOfRow`); so it comes on this page or a later
  one, and a page that is not full shows all that is left.
* `HistoryInv`: a row that follows another is stamped later (`FollowsLater`), and
  the first rows of an order by time leave out only what is not later.
* `SummaryInv`: the five figures are those of five prefixes of the log, each no
  shorter than the one before (`FiguresOfGrowingLog`).  That the numbers of the
  groups of a column add up to the number of rows (`SumOfGroups`) is proved by a
  smallest counterexample, as the library's induction is out of reach: the set
  of sets of groups for which it fails has no minimal element, so it is empty.
* `OverviewInv`: what was counted keeps up with the log because tables lose no
  row and no mark (`TablesKept`).

**Frontend.**  `StoreInv`: whatever a list, a dialog or a call carries is not
newer than the table and, at the same version, is its row; so the version that
is sent stands for the status that was shown.  `SessionInv`: in each tab the
promise, the hidden shell and exactly one login in flight go together.

Model-checked only: `NavigationSettles` and `EventuallyServing`, since liveness
under fairness is beyond the prover; and the four runs that expect a violation.

## 5. Not modelled

* Configuration, JWT and bcrypt, logging, headers and request ids: parsing and
  formatting.  A request carries a valid principal or is refused.
* Health, session and runtime endpoints: they report single values.
* Which rows a search of an entity's list finds, and its paging: the lists read
  only, and the frontend asks for one page.
* Expiry of a token: nothing in the frontend looks at it, and the backend
  refuses the request like any other without a principal.
* Redis losing its data and servers losing their map, see section 2.
* Frontend display components, and when Angular renders what the signals hold.
* The dialog of another item that `confirmTransition` closes when its answer
  arrives (`entity-page.component.ts:104`) is part of `Ends`, but no property
  forbids it: nothing wrong is sent, and no document promises that it stays.

## 6. Plan

Done: every component with state of its own is modelled and checked, and every
safety property the runs check is proved.  What is left:

1. An abstract specification of the rows of `Resources`, as `DecisionLedger` is
   one of decisions, and the proof that they implement it; `EntityStore` would
   then rest on it instead of on the three properties it names.
2. Several entities on one page and pages of more rows than fit, if the frontend
   starts to turn pages.
