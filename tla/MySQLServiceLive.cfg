SPECIFICATION FairSpec
CONSTANTS
    Connectors = {c1}
    Ops = {o1, o2}
    Threads = {t1}
    None = None
    MaxToken = 1
    MaxMore = 0
    Sequential = FALSE
INVARIANT
    AbortIffCancelled
PROPERTIES
    EveryOperationSettles
    ShutdownTerminates
CHECK_DEADLOCK FALSE
