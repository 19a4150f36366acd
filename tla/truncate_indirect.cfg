\* truncation to the first block of the indirect range: the block at the
\* new end is kept, and extending the file again shows its old words
CONSTANTS
    NDIRECT = 2
    DBPERIDB = 2
    NBLOCKS = 6
    Files = {1}
    Vals = {2}
    Offsets <- MCOffsets
    Lens <- MCLens
    ReadOffsets <- MCReadOffsets
    ReadLens <- MCReadLens
    TruncLens <- MCTruncIndirect
    IoFail = {}
    MaxIo = 3
SPECIFICATION Spec
PROPERTY
    FileRefinement
