\* a failed write-back of the indirect block in sfs_dotruncate, after the
\* blocks it no longer names were freed
CONSTANTS
    NDIRECT = 2
    DBPERIDB = 2
    NBLOCKS = 6
    Files = {1}
    Vals = {2}
    Offsets <- MCOffsets
    Lens <- MCLens
    ReadOffsets <- MCReadOffsets
    ReadLens <- MCReadLens
    TruncLens <- MCTruncIndirect
    IoFail = {"write"}
    MaxIo = 3
SPECIFICATION Spec
INVARIANT
    BlocksMapped
