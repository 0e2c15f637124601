CONSTANTS
    Procs = {p1, p2}
    NoProc = NoProc
    QueueSize = 2
    WalBuffers = 2
    MaxSeg = 3
SPECIFICATION Spec
INVARIANTS
    TypeOK
    EverySegmentAccounted
    SignedAtMostOnce
PROPERTY
    FlushSettles
