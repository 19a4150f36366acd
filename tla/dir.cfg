\* links, unlinks and a listing of one directory of two blocks of two
\* entries, with failing block reads and writes
CONSTANTS
    Names <- MCNames
    LongNames <- MCLongNames
    Inos <- MCInos
    Self = 2
    Parent = 1
    SPB = 2
    DirBlocks = 2
    IoFail = TRUE
SPECIFICATION Spec
INVARIANTS
    TypeOK
    NamesUnique
PROPERTIES
    DirRefinement
    ListingEnds
