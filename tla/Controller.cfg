SPECIFICATION FairSpec
CONSTANTS
    k1 = k1
    k2 = k2
    k3 = k3
    w1 = w1
    w2 = w2
    Keys = {k1, k2, k3}
    Workers = {w1, w2}
    NoKey = NoKey
INVARIANTS
    TypeOK
    NeverSimultaneous
    DirtyIsKept
    ReturnsDrained
PROPERTIES
    KeepsRequests
    EveryItemServed
    FailedIsRetried
    StopReturns
CHECK_DEADLOCK FALSE
