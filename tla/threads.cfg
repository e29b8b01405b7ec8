CONSTANT
    nnodes = 3
SPECIFICATION ThreadsSpec
INVARIANTS
    ThreadsTypeOK
    FreedAfterLoop
PROPERTY ShutdownEnds
CHECK_DEADLOCK FALSE
