\* Two threads and their sessions; one Connect and one Send may fail.
CONSTANTS
    NFiles = 2
    Size <- EmptyAndTwo
    MayChange = {}
    Threads = {t1, t2}
    BlockPackets = 2
    MaxSendFails = 1
    MaxReadFails = 0
    MaxBadConnects = 1
    MaxBadSpawns = 0
    HeadCells = 1
    NameCells = 1
    MaxRead = 4
    PartCells = 1
SPECIFICATION TransferFairSpec
INVARIANTS SavedAsSent NumbersAgree
PROPERTIES EndToEnd
CHECK_DEADLOCK FALSE
