\* Three clients for one thread with two slots: one may find no place.
CONSTANTS
    Clients = {c1, c2, c3}
    MaxThread = 1
    MaxClients = 2
    MaxData <- TwoOneNone
    None = None
SPECIFICATION FairSpec
INVARIANTS SlotOnce
PROPERTIES EventsServed
CHECK_DEADLOCK FALSE
