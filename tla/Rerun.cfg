\* Two copies and two connections, either of which may outlive the first copy.
CONSTANTS
    Conns = {c1, c2}
    FoundIn <- More
    MaxFiles = 1
    MaxBadAccepts = 1
    UINT_MAX = 3
SPECIFICATION FairSpec
INVARIANTS ControlAgrees RowsOnceSinceCleared NeverTooFew CleanRerun EndOfDialog
PROPERTIES HandlersReturn
CHECK_DEADLOCK FALSE
