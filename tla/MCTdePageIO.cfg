CONSTANTS
    b1 = b1
    b2 = b2
    s0 = s0
    s1 = s1
    Oids = {s0, s1}
    InvalidOid = s0
    Keys = {k1, k2}
    ZeroKey = ZeroKey
    MaxCachedKeys = 1
    Pages = {b1, b2}
    SpaceOf <- MCSpaceOf
    MapPages = {b2}
    Procs = {p1, p2}
    Postmaster = Postmaster
    Checksums = TRUE
    MaxVersion = 2
SYMMETRY ProcSymmetry
SPECIFICATION Spec
INVARIANTS
    TypeOK
    ChecksumGuardsPool
    DecryptableOnDisk
    CleanMeansStored
PROPERTY
    NoPlaintextAfterHit
