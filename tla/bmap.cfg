\* one file, two direct pointers and an indirect block of two, reads and writes that
\* may fail on a device read, truncation to block boundaries below the
\* indirect range, to zero, and up to the largest size
CONSTANTS
    NDIRECT = 2
    DBPERIDB = 2
    NBLOCKS = 6
    Files = {1}
    Vals = {2}
    Offsets <- MCOffsets
    Lens <- MCLens
    ReadOffsets <- MCReadOffsets
    ReadLens <- MCReadLens
    TruncLens <- MCTruncLens
    IoFail = {"read"}
    MaxIo = 3
SPECIFICATION Spec
INVARIANTS
    TypeOK
    BlocksMapped
    NoSharedBlocks
    NoLeakedBlocks
    ReadsReturnContents
PROPERTY
    FileRefinement
