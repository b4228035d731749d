SPECIFICATION FairHandleSpec
CONSTANTS
    t1 = t1
    t2 = t2
    t3 = t3
    a1 = a1
    a2 = a2
    i1 = i1
    i2 = i2
    i3 = i3
    Thread = {t1, t2, t3}
    Address = {a1, a2}
    Forgotten = {a2}
    Info = {i1, i2, i3}
    NULL = NULL
INVARIANTS
    HandleTypeOK
    HandlesAreLive
    HandlesAreCounted
PROPERTIES
    SafebindSticks
    FailedIsForgotten
