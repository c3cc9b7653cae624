SPECIFICATION Spec
CONSTANTS
    q1 = q1
    q2 = q2
    q3 = q3
    s1 = s1
    s2 = s2
    k1 = k1
    k2 = k2
    k3 = k3
    Requests = {q1, q2, q3}
    Servers = {s1, s2}
    Keys = {k1, k2, k3}
    Limit = 2
    CleanupAt = 2
    LastMinute = 2
    RedisEnabled = TRUE
    None = None
SYMMETRY Symmetry
INVARIANTS
    TypeOK
    AtMostLimit
    RefusalJustified
    MemoryBounded
\* Every request is served once and the clock is bounded.
CHECK_DEADLOCK FALSE
