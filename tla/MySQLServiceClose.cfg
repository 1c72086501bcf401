SPECIFICATION Spec
CONSTANTS
    Connectors = {c1}
    Ops = {o1, o2, o3}
    Threads = {t1}
    None = None
    MaxToken = 1
    MaxMore = 0
    Sequential = FALSE
SYMMETRY Symmetry
CONSTRAINT LibraryGetsHandle
INVARIANT
    ClosedKeepsNoResult
CHECK_DEADLOCK FALSE
