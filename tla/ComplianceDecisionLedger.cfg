\* Three concurrent requests on one decision seeded in review: the tables
\* refine the abstract ledger.
SPECIFICATION Spec
CONSTANTS
    q1 = q1
    q2 = q2
    q3 = q3
    d1 = d1
    d2 = d2
    e1 = e1
    e2 = e2
    Requests = {q1, q2, q3}
    Ids = {d1}
    Contents = {e1, e2}
    Callers = {"operator", "admin"}
    Seeded <- SeededReview
    Foresight = 0
    None = None
    Seeder = Seeder
SYMMETRY RequestSymmetry
INVARIANTS
    SafetyInv
    AnswerInv
PROPERTY LedgerSpec
CHECK_DEADLOCK FALSE
