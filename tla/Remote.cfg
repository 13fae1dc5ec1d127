CONSTANTS
    c1 = c1  c2 = c2  c3 = c3  x1 = x1  x2 = x2
    Calls = {c1, c2, c3}
    Contexts = {x1, x2}
    MaxRequests = 2
    Malformed = Malformed
    None = None
SYMMETRY Symmetry
SPECIFICATION Spec
INVARIANTS LinkedWhenAlone LinkedByOwnHeader
CHECK_DEADLOCK FALSE
