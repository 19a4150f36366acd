\* mkdir, creat, lookup and close by two threads, in the root and in the
\* subdirectories they look up, with write failures and over-long names.
\* Every failed mkdir leaves its thread waiting on its own lock (the hang
\* rename_decref reports for rename), so the system really stops: deadlock
\* is not checked, and the run shows that the error paths corrupt nothing
\* before they hang.
CONSTANTS
    Threads = {t1, t2}
    NoThread = NoThread
    Names <- MCNames
    LongNames <- MCLongNames
    Inputs <- MCInputs
    NInos = 3
    MaxHeld = 2
    Ops = {"mkdir", "creat", "lookup", "close"}
    IoFail = TRUE
    LinkDirs = FALSE
    RenameOpen = FALSE
SYMMETRY ThreadSymmetry
SPECIFICATION Spec
VIEW VolatileView
CHECK_DEADLOCK FALSE
INVARIANTS
    TypeOK
    RefcountExact
    LinkCountsMatch
    NoDanglingEntries
    KernelNeverPanics
