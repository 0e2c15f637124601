SPECIFICATION Spec
CONSTANTS
    p1 = p1
    p2 = p2
    p3 = p3
    Procs = {p1, p2, p3}
    Checkpointer = p1
    LW_VAL_EXCLUSIVE = 4
    MaxVal = 1
    MaxStray = 1
INVARIANTS
    TypeOK
    MutualExclusion
    NoLostWakeup
    NoLostUpdate
    WakeupsConserved
PROPERTIES
    ImplementsRWLock
