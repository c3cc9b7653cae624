SPECIFICATION Spec
CONSTANTS
    i1 = i1
    s1 = s1
    s2 = s2
    Ids = {i1}
    Slots = {s1, s2}
    Sessions <- SessionsDeciding
    MaxVersion = 2
    None = None
    Gone = Gone
SYMMETRY SlotSymmetry
INVARIANT OwnWritesShown
