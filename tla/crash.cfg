\* creat, lookup, fsync and close by one thread, which may open a directory
\* through "." and fsync it: is the disk consistent at every step, as a
\* crash would leave it?
CONSTANTS
    Threads = {t1}
    NoThread = NoThread
    Names <- MCNames
    LongNames <- MCLongNames
    Inputs <- MCDotInputs
    NInos = 3
    MaxHeld = 2
    Ops = {"creat", "lookup", "fsync", "close"}
    IoFail = FALSE
    LinkDirs = FALSE
    RenameOpen = FALSE
SPECIFICATION Spec
INVARIANT DiskConsistent
