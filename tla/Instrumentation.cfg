CONSTANTS
    Runs = {r1, r2, r3}
    Slots = {s1, s2}
    MaxVisits = 2
SYMMETRY Symmetry
SPECIFICATION Spec
INVARIANTS OneOwner OriginalsBack
CHECK_DEADLOCK FALSE
