----------------------------- MODULE MCResources -----------------------------
(* Small instances of Resources. *)
EXTENDS Resources, TLC

CONSTANTS q1, q2, q3, i1, c1, c2

\* A unit and a rule in the statuses with the most edges; the samples' table
\* starts empty, so that a sample is created and then raced for.
SeededBusy ==
    "CaptureUnit"    :> (i1 :> [status |-> "running", content |-> c1]) @@
    "PermitRule"     :> (i1 :> [status |-> "active",  content |-> c1]) @@
    "EmissionSample" :> <<>>

RequestSymmetry == Permutations(Requests)
=============================================================================
