\* Three concurrent requests on one seeded draft and one free key, from clients
\* that send only versions they were shown.
SPECIFICATION Spec
CONSTANTS
    q1 = q1
    q2 = q2
    q3 = q3
    d1 = d1
    d2 = d2
    e1 = e1
    e2 = e2
    Requests = {q1, q2, q3}
    Ids = {d1, d2}
    Contents = {e1, e2}
    Callers = {"operator", "admin"}
    Seeded <- SeededDraft
    Foresight = 0
    None = None
    Seeder = Seeder
SYMMETRY RequestSymmetry
INVARIANTS
    TypeOK
    HistoryComplete
    LegalHistory
    NoLostUpdate
    AuditTruthful
    ConflictJustified
    RepliesTruthful
    ResponseExplained
\* Every request is served once, so the system stops when all are answered.
CHECK_DEADLOCK FALSE
