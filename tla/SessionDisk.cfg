\* Two sessions served by one thread, whose files the disk may refuse.
CONSTANTS
    Conns = {c1, c2}
    Scripts <- TwoDisk
    HeadCells = 1
    NameCells = 1
    MaxRead = 4
    MaxFaults = 1
    MaxResets = 0
    MaxBadAccepts = 0
SPECIFICATION Spec
INVARIANTS SavedCount
PROPERTIES SavedIsFinal ImplementsFileCopy
CHECK_DEADLOCK FALSE
