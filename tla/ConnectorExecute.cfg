SPECIFICATION Spec
CONSTANT MaxMore = 2
INVARIANT AsyncExecuteTells
