\* One thread cannot be started: FindFiles does not wait for the others.
CONSTANTS
    NFiles = 2
    Size <- Sizes
    MayChange = {}
    Threads = {t1, t2}
    BlockPackets = 1
    MaxSendFails = 0
    MaxReadFails = 0
    MaxBadConnects = 0
    MaxBadSpawns = 1
SPECIFICATION Spec
INVARIANTS WaitsForAll
CHECK_DEADLOCK FALSE
