SPECIFICATION Spec
CONSTANTS
    q1 = q1
    q2 = q2
    q3 = q3
    i1 = i1
    c1 = c1
    c2 = c2
    Requests = {q1, q2, q3}
    Ids = {i1}
    Contents = {c1, c2}
    Callers = {"operator", "admin"}
    Seeded <- SeededBusy
    Foresight = 0
    None = None
SYMMETRY RequestSymmetry
INVARIANTS
    TypeOK
    NoLostUpdate
    AuditTruthful
PROPERTY LegalMoves
\* Every request is served once, so the system stops when all are done.
CHECK_DEADLOCK FALSE
