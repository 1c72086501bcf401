SPECIFICATION FairSpec
CONSTANTS
    Connectors = {c1}
    Ops = {o1}
    Fds = {f1}
    Flags = {FALSE}
    None = None
    MaxToken = 1
    MaxWaits = 1
    MaxMore = 0
    Waits <- MCTimeoutWaits
CHECK_DEADLOCK FALSE
PROPERTY TimeoutWakes
