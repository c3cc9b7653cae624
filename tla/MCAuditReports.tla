--------------------------- MODULE MCAuditReports ---------------------------
(* A small instance of AuditReports. *)
EXTENDS AuditReports, TLC

CONSTANTS w1, w2

Kind(action, type, actor) ==
    [action |-> action, type |-> type, item |-> 1, actor |-> actor]

\* The first and the last table of the overview; both have a row 1.  An update is
\* left out: to the reports it is one action more, and it moves no row.
SomeKinds ==
    {Kind("create", "units", "alice"), Kind("delete", "units", "bob"),
     Kind("transition", "decisions", "bob")}

SomeSearches == {None, "bob"}

\* Nothing tells the two writers apart.
WritersSymmetric == Permutations(Writers)
=============================================================================
