----------------------------- MODULE EntityStore -----------------------------
(***************************************************************************)
(* One tab of the frontend on the page of one entity                      *)
(* (src/frontend/src/components/entity-page.component.ts) with its store  *)
(* (stores/factory.ts), against the backend and its other clients.        *)
(*                                                                         *)
(* A call is an async method of the store in flight: a load, or a write   *)
(* and the load that follows it.  The browser sends the requests of        *)
(* overlapping calls independently, so their answers arrive in any order.  *)
(*                                                                         *)
(*    load                                   -> get -> list   -> (ends)    *)
(*    create, transition   post -> accepted  -> get -> nolist -> (ends)    *)
(*                              -> refused                    -> (ends)    *)
(*                                                                         *)
(* The backend answers a POST in one step: a client that sends back        *)
(* versions it was shown gets from Resources and ComplianceDecision what   *)
(* an atomic check and write would give it (LegalMoves, LegalHistory and   *)
(* NoLostUpdate there).  A list holds the first page of 20 rows; tables    *)
(* here are smaller than that.                                             *)
(***************************************************************************)
EXTENDS Naturals, Sequences, SequencesExt, StatusGraphs

CONSTANTS
    Ids,         \* primary keys of the entity's table
    Slots,       \* bounds the calls in flight at one time
    Sessions,    \* the pairs of a page and a role considered
    MaxVersion,  \* bounds the versions of a row
    None,        \* no row, no call, no dialog
    Gone         \* a row that was deleted

\* ENTITY_CONFIGS: the statuses of a page's items, in the order it advances them.
Statuses ==
    [units     |-> <<"standby", "running", "limited", "stopped">>,
     rules     |-> <<"draft", "active", "superseded", "retired">>,
     samples   |-> <<"collected", "testing", "verified", "invalid">>,
     decisions |-> <<"draft", "review", "accepted", "escalated">>]

Graph ==
    [units     |-> CaptureUnitTransitions,
     rules     |-> PermitRuleTransitions,
     samples   |-> EmissionSampleTransitions,
     decisions |-> ComplianceDecisionTransitions]

VARIABLES
    path,        \* config.path: which page this is
    role,        \* the role of the session
    table,       \* the entity's table: id -> row, None or Gone
    calls,       \* slot -> the call in flight in it, or None
    items,       \* the list in the store: id -> the row shown, or None
    loading,     \* the store's flag: the page shows a spinner
    error,       \* the store shows an error message
    pending,     \* the open transition dialog, or None
    showCreate,  \* the creation dialog is open
    applied,     \* the transitions of this tab the backend made
    acked        \* id -> the newest version a transition was acknowledged with

page == <<items, loading, error, pending, showCreate>>
vars == <<path, role, table, calls, page, applied, acked>>

-----------------------------------------------------------------------------
(* Rows, dialogs and calls                                                 *)

AllStatuses == UnitStates \cup RuleStates \cup SampleStates \cup DecisionStates

Row == [status : AllStatuses, version : Nat \ {0}]

\* What a transition dialog shows and a confirmation sends.
Offer == [item : Ids, version : Nat \ {0}, from : AllStatuses, to : AllStatuses]

Call == [kind  : {"load", "create", "transition"},
         stage : {"post", "accepted", "refused", "get", "list", "nolist"},
         mine  : BOOLEAN,                    \* a write: its page is still open
         sent  : Offer \cup {None},          \* a transition: until it is answered
         data  : [Ids -> Row \cup {None}]]   \* the answer to the GET

ASSUME ConstantsAssumption ==
    /\ Sessions \subseteq (DOMAIN Statuses) \X Roles
    /\ MaxVersion \in Nat
    /\ Gone # None
    /\ None \notin Row \cup Offer \cup Call \cup AllStatuses
    /\ Gone \notin Row

\* Table, list, dialog and calls stay within their types, a transition carries
\* its dialog until it is answered, and rows stay within the statuses the page
\* knows: it could not tell what follows any other.
TypeOK ==
    /\ <<path, role>> \in Sessions
    /\ table \in [Ids -> Row \cup {None, Gone}]
    /\ \A i \in Ids : table[i] \in Row => table[i].status \in ToSet(Statuses[path])
    /\ calls \in [Slots -> Call \cup {None}]
    /\ \A s \in Slots :
          calls[s] # None /\ calls[s].kind = "transition"
             /\ calls[s].stage \in {"post", "accepted"} => calls[s].sent # None
    /\ items \in [Ids -> Row \cup {None}]
    /\ loading \in BOOLEAN /\ error \in BOOLEAN
    /\ pending \in Offer \cup {None}
    /\ showCreate \in BOOLEAN
    /\ applied \subseteq [sent : Offer, found : AllStatuses, version : Nat]
    /\ acked \in [Ids -> Nat]

Live(i) == table[i] \notin {None, Gone}

EmptyList == [i \in Ids |-> None]

NewCall(kind, stage, sent) ==
    [kind |-> kind, stage |-> stage, mine |-> TRUE, sent |-> sent,
     data |-> EmptyList]

InFlight == {s \in Slots : calls[s] # None}

Advanced(s, stage) == [calls EXCEPT ![s].stage = stage]

\* The page opens: its ngOnInit loads the list.
Init ==
    /\ \E session \in Sessions : path = session[1] /\ role = session[2]
    /\ table \in [Ids -> {None} \cup
          {[status |-> st, version |-> 1] : st \in ToSet(Statuses[path])}]
    /\ \E s \in Slots :
          calls = [x \in Slots |->
             IF x = s THEN NewCall("load", "get", None) ELSE None]
    /\ items = EmptyList
    /\ loading = TRUE
    /\ error = FALSE
    /\ pending = None
    /\ showCreate = FALSE
    /\ applied = {}
    /\ acked = [i \in Ids |-> 0]

-----------------------------------------------------------------------------
(* What the page offers                                                    *)

NextStatus(status) ==
    LET later == {k \in 2..Len(Statuses[path]) : Statuses[path][k - 1] = status}
    IN  IF later = {} THEN None ELSE Statuses[path][CHOOSE k \in later : TRUE]

CanWrite == RequireMinimumRole("operator", role)

CanReview == RequireMinimumRole("reviewer", role)

\* Mutant: every button asks for an operator.
OffersWithoutReview(status) == NextStatus(status) # None /\ CanWrite

Offers(status) ==
    /\ NextStatus(status) # None
    /\ CanWrite
    /\ path = "decisions" /\ NextStatus(status) \in {"accepted", "escalated"}
          => CanReview

-----------------------------------------------------------------------------
(* What the user does                                                      *)

\* Every method of the store begins by patching its state.
Begin(s, call, message) ==
    /\ calls[s] = None
    /\ calls' = [calls EXCEPT ![s] = call]
    /\ loading' = TRUE
    /\ error' = message

Query(s) ==
    /\ Begin(s, NewCall("load", "get", None), FALSE)
    /\ UNCHANGED <<path, role, table, items, pending, showCreate, applied, acked>>

\* The page is left and opened again: a new component on the same store.
Visit(s) ==
    /\ calls[s] = None
    /\ calls' = [x \in Slots |->
          IF x = s THEN NewCall("load", "get", None)
          ELSE IF x \in InFlight /\ calls[x].kind # "load"
               THEN [calls[x] EXCEPT !.mine = FALSE] ELSE calls[x]]
    /\ loading' = TRUE
    /\ error' = FALSE
    /\ pending' = None
    /\ showCreate' = FALSE
    /\ UNCHANGED <<path, role, table, items, applied, acked>>

OpenCreate ==
    /\ CanWrite
    /\ showCreate' = TRUE
    /\ UNCHANGED <<path, role, table, calls, items, loading, error, pending,
                   applied, acked>>

CloseCreate ==
    /\ showCreate' = FALSE
    /\ UNCHANGED <<path, role, table, calls, items, loading, error, pending,
                   applied, acked>>

CreateDemo(s) ==
    /\ showCreate /\ CanWrite
    /\ Begin(s, NewCall("create", "post", None), error)
    /\ UNCHANGED <<path, role, table, items, pending, showCreate, applied, acked>>

\* The dialog keeps the item as it was shown when its button was clicked.
OpenTransition(i) ==
    /\ items[i] # None /\ items[i].version < MaxVersion
    /\ Offers(items[i].status)
    /\ pending' = [item |-> i, version |-> items[i].version,
                   from |-> items[i].status, to |-> NextStatus(items[i].status)]
    /\ UNCHANGED <<path, role, table, calls, items, loading, error, showCreate,
                   applied, acked>>

CloseTransition ==
    /\ pending' = None
    /\ UNCHANGED <<path, role, table, calls, items, loading, error, showCreate,
                   applied, acked>>

\* Mutant: the version of the row in the list now, not of the one shown then.
SentNewest ==
    IF items[pending.item] = None THEN pending
    ELSE [pending EXCEPT !.version = items[pending.item].version]

Sent == pending

\* The dialog stays open until the answer: it can be confirmed again.
ConfirmTransition(s) ==
    /\ pending # None /\ Offers(pending.from)
    /\ Begin(s, NewCall("transition", "post", Sent), error)
    /\ UNCHANGED <<path, role, table, items, pending, showCreate, applied, acked>>

-----------------------------------------------------------------------------
(* The backend                                                             *)

\* Mutant: the version the client sends is not compared.
AcceptsAnyVersion(i, version, to) ==
    /\ Live(i)
    /\ CanWrite
    /\ CanTransition(Graph[path], table[i].status, to)
    /\ path = "decisions" /\ to \in {"accepted", "escalated"} => CanReview

\* The checks of the Transition services.
Accepts(i, version, to) ==
    /\ Live(i) /\ table[i].version = version
    /\ CanWrite
    /\ CanTransition(Graph[path], table[i].status, to)
    /\ path = "decisions" /\ to \in {"accepted", "escalated"} => CanReview

\* The write is stored; the answer may still be an error (the audit row
\* failed, the reply was lost).
Transitioned(s) ==
    LET sent == calls[s].sent
        row  == table[sent.item]
        new  == [status |-> sent.to, version |-> row.version + 1]
    IN  /\ calls[s] # None /\ calls[s].stage = "post" /\ calls[s].kind = "transition"
        /\ Accepts(sent.item, sent.version, sent.to)
        /\ table' = [table EXCEPT ![sent.item] = new]
        /\ applied' = applied \cup
              {[sent |-> sent, found |-> row.status, version |-> new.version]}
        /\ \E stage \in {"accepted", "refused"} : calls' = Advanced(s, stage)
        /\ UNCHANGED <<path, role, page, acked>>

\* Mutant: every table's rows start as rules do.
FirstStatusOfRules == "draft"

FirstStatus == Head(Statuses[path])

Created(s) ==
    /\ calls[s] # None /\ calls[s].stage = "post" /\ calls[s].kind = "create"
    /\ \E i \in Ids :
          /\ table[i] = None
          /\ table' = [table EXCEPT ![i] = [status |-> FirstStatus, version |-> 1]]
    /\ \E stage \in {"accepted", "refused"} : calls' = Advanced(s, stage)
    /\ UNCHANGED <<path, role, page, applied, acked>>

\* 4xx, 5xx, or no answer at all, and nothing was stored.
NotStored(s) ==
    /\ calls[s] # None /\ calls[s].stage = "post"
    /\ calls' = Advanced(s, "refused")
    /\ UNCHANGED <<path, role, table, page, applied, acked>>

\* Which rows match the text that is searched for does not matter here; the
\* load that follows a write searches for nothing.
Listed(s) ==
    /\ calls[s] # None /\ calls[s].stage = "get"
    /\ \E found \in SUBSET {i \in Ids : Live(i)} :
          /\ calls[s].kind # "load" => \A i \in Ids : Live(i) => i \in found
          /\ calls' = [calls EXCEPT ![s].stage = "list",
                          ![s].data = [i \in Ids |->
                             IF i \in found THEN table[i] ELSE None]]
    /\ UNCHANGED <<path, role, table, page, applied, acked>>

NotListed(s) ==
    /\ calls[s] # None /\ calls[s].stage = "get"
    /\ calls' = Advanced(s, "nolist")
    /\ UNCHANGED <<path, role, table, page, applied, acked>>

\* Another client moves a row; the services let it follow the graph.
OtherTransitions ==
    \E i \in Ids : \E to \in ToSet(Statuses[path]) :
        /\ Live(i) /\ table[i].version < MaxVersion
        /\ CanTransition(Graph[path], table[i].status, to)
        /\ table' = [table EXCEPT ![i] =
                        [status |-> to, version |-> table[i].version + 1]]
        /\ UNCHANGED <<path, role, calls, page, applied, acked>>

\* Another client edits a row; of decisions, only drafts.
OtherUpdates ==
    \E i \in Ids :
        /\ Live(i) /\ table[i].version < MaxVersion
        /\ path = "decisions" => table[i].status = "draft"
        /\ table' = [table EXCEPT ![i].version = table[i].version + 1]
        /\ UNCHANGED <<path, role, calls, page, applied, acked>>

\* Another client deletes a row, of decisions in any status (OnlyDraftsDeleted
\* is not kept).
OtherDeletes ==
    \E i \in Ids :
        /\ Live(i)
        /\ table' = [table EXCEPT ![i] = Gone]
        /\ UNCHANGED <<path, role, calls, page, applied, acked>>

-----------------------------------------------------------------------------
(* Answers arrive                                                          *)

\* await request(...) returned: the same call goes on to load the list.
Reloads(s) ==
    /\ calls[s] # None /\ calls[s].stage = "accepted"
    /\ calls' = [calls EXCEPT ![s].stage = "get", ![s].sent = None]
    /\ loading' = TRUE
    /\ error' = FALSE
    /\ acked' = IF calls[s].kind = "transition"
                THEN [acked EXCEPT ![calls[s].sent.item] = calls[s].sent.version + 1]
                ELSE acked
    /\ UNCHANGED <<path, role, table, items, pending, showCreate, applied>>

\* Mutant: the catch of the writers shows the error and leaves the flag.
LoadingLeft == loading

LoadingAfterError == FALSE

\* The catch of createRecord and transition; the page's catch does nothing.
Refused(s) ==
    /\ calls[s] # None /\ calls[s].stage = "refused"
    /\ calls' = [calls EXCEPT ![s] = None]
    /\ loading' = LoadingAfterError
    /\ error' = TRUE
    /\ UNCHANGED <<path, role, table, items, pending, showCreate, applied, acked>>

\* load swallows its error, so a write resolves either way and its page then
\* closes its dialog, whichever item the dialog is now about.
Ends(s) ==
    LET call == calls[s]
    IN  /\ call # None /\ call.stage \in {"list", "nolist"}
        /\ calls' = [calls EXCEPT ![s] = None]
        /\ items' = IF call.stage = "list" THEN call.data ELSE items
        /\ loading' = FALSE
        /\ error' = (call.stage = "nolist")
        /\ pending' = IF call.kind = "transition" /\ call.mine THEN None ELSE pending
        /\ showCreate' = (showCreate /\ ~(call.kind = "create" /\ call.mine))
        /\ UNCHANGED <<path, role, table, applied, acked>>

Next ==
    \/ \E s \in Slots :
          \/ Query(s) \/ Visit(s) \/ CreateDemo(s) \/ ConfirmTransition(s)
          \/ Transitioned(s) \/ Created(s) \/ NotStored(s)
          \/ Listed(s) \/ NotListed(s)
          \/ Reloads(s) \/ Refused(s) \/ Ends(s)
    \/ OpenCreate \/ CloseCreate \/ CloseTransition
    \/ \E i \in Ids : OpenTransition(i)
    \/ OtherTransitions \/ OtherUpdates \/ OtherDeletes

Spec == Init /\ [][Next]_vars

-----------------------------------------------------------------------------
(* Properties                                                              *)

\* Whatever other clients did since the dialog was opened and however many
\* lists have arrived: a transition of this page is made from the status its
\* dialog showed to the user (entity-page: pending keeps the item).
IntentHonored == \A a \in applied : a.found = a.sent.from

\* A dialog confirmed twice, or again after an error that hid a stored write,
\* moves the item at most once.
AppliedOnce ==
    \A a, b \in applied :
        a.sent.item = b.sent.item /\ a.sent.version = b.sent.version => a = b

\* When no call is in flight the page shows no spinner, whatever failed and in
\* whatever order answers came (store: patch in try and catch).
SpinnerSettles == InFlight = {} => ~loading

\* A confirmation on its way is refused by the backend's rules only because the
\* row has changed: the page's lists of statuses and its buttons agree with the
\* graphs and the roles of the services.
OffersAccepted ==
    \A s \in InFlight :
        LET sent == calls[s].sent
        IN  (/\ calls[s].stage = "post" /\ calls[s].kind = "transition"
             /\ Live(sent.item) /\ table[sent.item].version = sent.version)
               => Accepts(sent.item, sent.version, sent.to)

\* NOT kept: once nothing is in flight and no error is shown, the list shows
\* each item at least at the version this tab's own transition gave it.  A load
\* that began before it may bring the older list last.
OwnWritesShown ==
    InFlight = {} /\ ~error =>
        \A i \in Ids : items[i] # None => items[i].version >= acked[i]
=============================================================================
