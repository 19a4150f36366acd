\* does every read_block call return?  Two threads, one file, one slot.
CONSTANTS
    t1 = t1
    t2 = t2
    Threads <- MCThreads
    NUM_FILES = 1
    NUM_SLOTS = 1
    MaxFileSize = 1
    MaxCalls = 2
    NoThread = NoThread
SPECIFICATION Spec
PROPERTY
    CallsReturn
CHECK_DEADLOCK FALSE
