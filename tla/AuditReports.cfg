SPECIFICATION Spec
CONSTANTS
    w1 = w1
    w2 = w2
    Writers = {w1, w2}
    Kinds <- SomeKinds
    Searches <- SomeSearches
    Sizes = {2, 3}
    DefaultSize = 1
    MaxSize = 2
    Limits = {0, 3}
    DefaultLimit = 1
    MaxLimit = 2
    Hours = {0, 3}
    DefaultHours = 0
    MaxHours = 1
    Seeded = 1
    MaxAudits = 3
    MaxTable = 2
    MaxClock = 1
    None = None
SYMMETRY WritersSymmetric
INVARIANTS
    TypeOK
    PagingSeesAll
    HistoryInOrder
    HistoryNewest
    SummaryOrdered
    OverviewKeepsUp
