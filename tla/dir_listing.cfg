\* links, unlinks and a listing of one directory of two blocks of two
\* entries, no device failures: a listing after a remove
CONSTANTS
    Names <- MCNames
    LongNames <- MCLongNames
    Inos <- MCInos
    Self = 2
    Parent = 1
    SPB = 2
    DirBlocks = 2
    IoFail = FALSE
SPECIFICATION Spec
INVARIANT ListingComplete
