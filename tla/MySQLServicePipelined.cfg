SPECIFICATION Spec
CONSTANTS
    Connectors = {c1, c2}
    Ops = {o1, o2}
    Threads = {t1, t2}
    None = None
    MaxToken = 0
    MaxMore = 0
    Sequential = FALSE
SYMMETRY Symmetry
INVARIANTS
    TypeOK
    SerialWorker
    AbortIffCancelled
    RunOutlastsOperations
PROPERTY
    ImplementsAsyncOps
CHECK_DEADLOCK FALSE
