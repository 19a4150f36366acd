\* rename of a file nobody else holds: VOP_DECREF under the file's lock
CONSTANTS
    Threads = {t1, t2}
    NoThread = NoThread
    Names <- MCNames
    LongNames <- MCLongNames
    Inputs <- MCNames
    NInos = 3
    MaxHeld = 1
    Ops = {"creat", "rename", "close"}
    IoFail = FALSE
    LinkDirs = FALSE
    RenameOpen = FALSE
SYMMETRY ThreadSymmetry
SPECIFICATION Spec
INVARIANT NoSelfWait
