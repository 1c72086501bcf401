SPECIFICATION Spec
CONSTANTS
    Connectors = {c1}
    Ops = {o1, o2, o3, o4, o5}
    Threads = {t1}
    None = None
    MaxToken = 2
    MaxMore = 2
    Sequential = TRUE
SYMMETRY Symmetry
INVARIANTS
    HandleUsable
    DeliveredResultAlive
    CloseRevokesResult
    NextResultInSync
CHECK_DEADLOCK FALSE
