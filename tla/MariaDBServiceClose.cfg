SPECIFICATION FairSpec
CONSTANTS
    Connectors = {c1}
    Ops = {o1, o2}
    Fds = {f1}
    Flags = {FALSE}
    None = None
    MaxToken = 1
    MaxWaits = 1
    MaxMore = 0
    Waits <- MCCloseWaits
CHECK_DEADLOCK FALSE
PROPERTIES
    ClosedSettles
    EveryOperationSettles
