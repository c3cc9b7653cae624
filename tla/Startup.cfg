SPECIFICATION Spec
CONSTANTS
    s1 = s1
    s2 = s2
    Servers = {s1, s2}
    Attempts = 2
    SeedRows = 1
    MaxLive = 2
    MaxFailures = 2
INVARIANTS
    TypeOK
    ServingMeansSeeded
    SeededAtMostOnce
PROPERTY EventuallyServing
