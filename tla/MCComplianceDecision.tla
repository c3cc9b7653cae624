------------------------ MODULE MCComplianceDecision ------------------------
(***************************************************************************)
(* Compliance decisions on a small instance: the rows the seeder leaves   *)
(* and a key for one creation.                                            *)
(***************************************************************************)
EXTENDS ComplianceDecisionInv, TLC

CONSTANTS q1, q2, q3, d1, d2, e1, e2

\* One decision is seeded as a draft, as CD-001 is.
SeededDraft == d1 :> [status |-> "draft", content |-> e1]

\* One decision is seeded in review, as CD-002 is.
SeededReview == d1 :> [status |-> "review", content |-> e1]

RequestSymmetry == Permutations({q1, q2, q3})
=============================================================================
