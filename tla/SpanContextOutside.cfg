CONSTANTS
    Contexts = {c1, c2}
    Main = c1
    Fragile = {}
    MaxSpans = 2
SPECIFICATION Spec
INVARIANTS NoneOutside
CHECK_DEADLOCK FALSE
