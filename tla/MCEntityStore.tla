---------------------------- MODULE MCEntityStore ----------------------------
(* Small instances of EntityStore. *)
EXTENDS EntityStore, TLC

CONSTANTS i1, s1, s2

\* Every graph by a role that changes rows, and a viewer, who only looks.
SessionsTried ==
    {<<"units", "operator">>, <<"rules", "operator">>, <<"samples", "operator">>,
     <<"decisions", "operator">>, <<"decisions", "reviewer">>, <<"units", "viewer">>}

SessionsDeciding == {<<"decisions", "reviewer">>}

SlotSymmetry == Permutations(Slots)
=============================================================================
