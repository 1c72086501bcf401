SPECIFICATION Spec
CONSTANTS
    Results = {r1, r2, r3}
    Objects = {o1, o2}
    None = None
    Fields = 2
    Contents <- MCContents
    Char = 2
    Short = 4
    Int32 = 8
    Long = 16
CHECK_DEADLOCK FALSE
SYMMETRY Symmetry
INVARIANTS
    TypeOK
    FetchUnderOwner
    NonemptyIsReadable
    CheckedAccess
    AllOrNothing
    ConversionExact
