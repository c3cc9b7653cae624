---------------------------- MODULE StatusGraphs ----------------------------
(***************************************************************************)
(* The four status graphs of backend/internal/constants/status.go and the *)
(* role ranks of backend/internal/middleware/auth.go.  A graph is the set *)
(* of its edges.                                                           *)
(***************************************************************************)
EXTENDS Naturals

-----------------------------------------------------------------------------
(* Status graphs                                                           *)

UnitStates == {"standby", "running", "limited", "stopped"}

CaptureUnitTransitions ==
    {<<"standby", "running">>, <<"standby", "limited">>,
     <<"running", "limited">>, <<"running", "stopped">>, <<"running", "standby">>,
     <<"limited", "stopped">>, <<"limited", "running">>,
     <<"stopped", "limited">>}

RuleStates == {"draft", "active", "superseded", "retired"}

PermitRuleTransitions ==
    {<<"draft", "active">>, <<"draft", "superseded">>,
     <<"active", "superseded">>, <<"active", "retired">>, <<"active", "draft">>,
     <<"superseded", "retired">>, <<"superseded", "active">>,
     <<"retired", "superseded">>}

SampleStates == {"collected", "testing", "verified", "invalid"}

EmissionSampleTransitions ==
    {<<"collected", "testing">>, <<"collected", "verified">>,
     <<"testing", "verified">>, <<"testing", "invalid">>, <<"testing", "collected">>,
     <<"verified", "invalid">>, <<"verified", "testing">>,
     <<"invalid", "verified">>}

DecisionStates == {"draft", "review", "accepted", "escalated"}

ComplianceDecisionTransitions ==
    {<<"draft", "review">>,
     <<"review", "accepted">>, <<"review", "escalated">>, <<"review", "draft">>,
     <<"accepted", "escalated">>, <<"accepted", "review">>,
     <<"escalated", "accepted">>}

\* A status the graph does not know has no edge, so it can go nowhere.
CanTransition(graph, from, to) == <<from, to>> \in graph

-----------------------------------------------------------------------------
(* Roles                                                                   *)

Roles == {"viewer", "operator", "reviewer", "admin"}

RoleRank == [role \in Roles |-> CASE role = "viewer"   -> 1
                                  [] role = "operator" -> 2
                                  [] role = "reviewer" -> 3
                                  [] role = "admin"    -> 4]

RequireMinimumRole(minimum, role) ==
    role \in Roles /\ RoleRank[role] >= RoleRank[minimum]

RequireRoles(allowed, role) == role \in allowed
=============================================================================
