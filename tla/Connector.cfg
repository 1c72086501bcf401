SPECIFICATION Spec
CONSTANT MaxMore = 2
INVARIANTS
    TypeOK
    IterationComplete
    FirstResultStored
    NoMoreResults
    LibraryNeedsHandle
