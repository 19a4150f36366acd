\* link and remove by two threads: a lookup between link's entry write
\* and its link-count increment
CONSTANTS
    Threads = {t1, t2}
    NoThread = NoThread
    Names <- MCNames
    LongNames <- MCLongNames
    Inputs <- MCNames
    NInos = 3
    MaxHeld = 1
    Ops = {"creat", "lookup", "link", "remove", "close"}
    IoFail = FALSE
    LinkDirs = FALSE
    RenameOpen = FALSE
SYMMETRY ThreadSymmetry
SPECIFICATION Spec
INVARIANT LookonceSeesLinked
