SPECIFICATION FairSpec
CONSTANTS
    c1 = c1
    c2 = c2
    c3 = c3
    t1 = t1
    t2 = t2
    t3 = t3
    t4 = t4
    t5 = t5
    Client = {c1, c2, c3}
    Thread = {t1, t2, t3, t4, t5}
    ClientOf <- FiveThreads
    NoClient = NoClient
INVARIANTS
    TypeOK
    MutualExclusion
    HoldersAreOnRecord
    WaitersAreConsistent
    RevokeFindsHolder
    HolderIsAskedBack
    OneRetryPerHandOver
PROPERTIES
    ReturnedOnlyOnDemand
    ImplementsDistributedLock
    ClientIsServed
    RevokedLockComesBack
