SPECIFICATION Spec
CONSTANTS
    Statements = {s1, s2}
    MaxMore = 1
CHECK_DEADLOCK FALSE
INVARIANT DurableIffCommitted
