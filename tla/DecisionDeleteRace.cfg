\* A deletion races a submission for review.
SPECIFICATION Spec
CONSTANTS
    q1 = q1
    q2 = q2
    q3 = q3
    d1 = d1
    d2 = d2
    e1 = e1
    e2 = e2
    Requests = {q1, q2}
    Ids = {d1}
    Contents = {e1, e2}
    Callers = {"operator", "admin"}
    Seeded <- SeededDraft
    Foresight = 0
    None = None
    Seeder = Seeder
INVARIANT OnlyDraftsDeleted
CHECK_DEADLOCK FALSE
