--------------------------- MODULE DecisionLedger ---------------------------
(***************************************************************************)
(* What compliance decisions promise their readers, with no requests, row *)
(* versions, audits or failures in sight: for every decision an append-   *)
(* only ledger of entries that starts with a draft, amends drafts, moves  *)
(* along the status graph without touching the evidence, and is closed by *)
(* a removal.  ComplianceDecision implements it (LedgerSpec there).       *)
(***************************************************************************)
EXTENDS Naturals, Sequences, StatusGraphs

CONSTANTS Ids, Contents, Seeded

VARIABLES
    ledger,    \* id -> the entries of that decision, oldest first
    removed    \* the decisions that were removed

vars == <<ledger, removed>>

Init ==
    /\ ledger = [i \in Ids |->
          IF i \in DOMAIN Seeded
          THEN <<[state |-> Seeded[i].status, evidence |-> Seeded[i].content]>>
          ELSE <<>>]
    /\ removed = {}

Last(i) == ledger[i][Len(ledger[i])]

Append1(i, entry) ==
    /\ ledger' = [ledger EXCEPT ![i] = Append(@, entry)]
    /\ UNCHANGED removed

\* A decision exists and still accepts entries.
Open(i) == ledger[i] # <<>> /\ i \notin removed

Create(i) ==
    /\ ledger[i] = <<>>
    /\ \E c \in Contents : Append1(i, [state |-> "draft", evidence |-> c])

Amend(i) ==
    /\ Open(i) /\ Last(i).state = "draft"
    /\ \E c \in Contents : Append1(i, [state |-> "draft", evidence |-> c])

Advance(i) ==
    /\ Open(i)
    /\ \E target \in DecisionStates :
          /\ CanTransition(ComplianceDecisionTransitions, Last(i).state, target)
          /\ Append1(i, [state |-> target, evidence |-> Last(i).evidence])

\* In any state: that only drafts are removed is not kept (OnlyDraftsDeleted).
Remove(i) ==
    /\ Open(i)
    /\ removed' = removed \cup {i}
    /\ UNCHANGED ledger

Next == \E i \in Ids : Create(i) \/ Amend(i) \/ Advance(i) \/ Remove(i)

Spec == Init /\ [][Next]_vars
=============================================================================
