\* Two threads, every kind of failure once; Connect may fail for both.
CONSTANTS
    NFiles = 3
    Size <- Sizes
    MayChange = {2}
    Threads = {t1, t2}
    BlockPackets = 2
    MaxSendFails = 1
    MaxReadFails = 1
    MaxBadConnects = 2
    MaxBadSpawns = 1
SPECIFICATION FairSpec
INVARIANTS TypeOK OneOwner FinishedIsQuiet CountsIncrease SentIsWhole LastCountArrives
PROPERTIES FinishedComes
CHECK_DEADLOCK FALSE
