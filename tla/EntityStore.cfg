SPECIFICATION Spec
CONSTANTS
    i1 = i1
    s1 = s1
    s2 = s2
    Ids = {i1}
    Slots = {s1, s2}
    Sessions <- SessionsTried
    MaxVersion = 3
    None = None
    Gone = Gone
SYMMETRY SlotSymmetry
INVARIANTS
    TypeOK
    IntentHonored
    AppliedOnce
    SpinnerSettles
    OffersAccepted
