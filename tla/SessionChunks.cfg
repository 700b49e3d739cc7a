\* One connection, every way to cut its stream into reads; its sender may break
\* its word about one file.
CONSTANTS
    Conns = {c1}
    Scripts <- OneAny
    HeadCells = 2
    NameCells = 1
    MaxRead = 8
    MaxFaults = 0
    MaxResets = 1
    MaxBadAccepts = 0
SPECIFICATION FairSpec
INVARIANTS TypeOK Residue
PROPERTIES AllSaved
CHECK_DEADLOCK FALSE
