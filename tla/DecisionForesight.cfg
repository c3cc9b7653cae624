\* A client names a version it has not been shown yet.
SPECIFICATION Spec
CONSTANTS
    q1 = q1
    q2 = q2
    q3 = q3
    d1 = d1
    d2 = d2
    e1 = e1
    e2 = e2
    Requests = {q1, q2}
    Ids = {d1}
    Contents = {e1, e2}
    Callers = {"operator", "admin"}
    Seeded <- SeededDraft
    Foresight = 1
    None = None
    Seeder = Seeder
INVARIANT LockedAfterReview
CHECK_DEADLOCK FALSE
