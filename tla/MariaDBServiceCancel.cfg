SPECIFICATION Spec
CONSTANTS
    Connectors = {c1}
    Ops = {o1, o2}
    Fds = {f1, f2}
    Flags = {TRUE}
    None = None
    MaxToken = 1
    MaxWaits = 2
    MaxMore = 1
    Waits <- MCWaits
CHECK_DEADLOCK FALSE
SYMMETRY Symmetry
INVARIANTS
    TypeOK
    AbortIffCancelled
    ContinuesOwnCall
    CloseRevokesResult
    LibraryIdleOnStart
    NextResultInSync
    WaitIsRegistered
PROPERTY
    CancelledIsInert
    ImplementsCancellableOps
