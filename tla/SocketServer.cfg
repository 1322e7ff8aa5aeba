\* Traffic, priorities, reuse of the slot, a listening socket, a bound descriptor
CONSTANTS
    a = a
    b = b
    Service = {a, b}
    Nobody = Nobody
    Thread = Thread
    Limits <- AllLimits
SPECIFICATION FairSpec
INVARIANTS WireIntact BufferOwned SendingCounted CloseFlushes
PROPERTIES EndIsFinal Flushed
CHECK_DEADLOCK FALSE
