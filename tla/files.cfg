\* creat, lookup, remove and close by two threads in the root directory
CONSTANTS
    Threads = {t1, t2}
    NoThread = NoThread
    Names <- MCNames
    LongNames <- MCLongNames
    Inputs <- MCInputs
    NInos = 4
    MaxHeld = 2
    Ops = {"creat", "lookup", "remove", "close"}
    IoFail = TRUE
    LinkDirs = FALSE
    RenameOpen = FALSE
SYMMETRY ThreadSymmetry
SPECIFICATION Spec
VIEW VolatileView
INVARIANTS
    TypeOK
    RefcountExact
    LinkCountsMatch
    NoDanglingEntries
    KernelNeverPanics
