\* creat, lookup, link, rename, close and fsync by one thread that renames only
\* files it holds open, so the reference rename drops is never the last one
\* (with a second thread the name can be rebound to another file between
\* the caller's open and rename's lookup, and rename_decref's hang comes
\* back; link with a second thread is link_race's panic when remove or
\* rename runs beside it)
CONSTANTS
    Threads = {t1}
    NoThread = NoThread
    Names <- MCNames
    LongNames <- MCLongNames
    Inputs <- MCInputs
    NInos = 4
    MaxHeld = 3
    Ops = {"creat", "lookup", "link", "rename", "close", "fsync"}
    IoFail = FALSE
    LinkDirs = FALSE
    RenameOpen = TRUE
SPECIFICATION Spec
INVARIANTS
    TypeOK
    RefcountExact
    LinkCountsMatch
    StorageReclaimed
    KernelNeverPanics
