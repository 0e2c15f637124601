CONSTANTS
    Oids = {s0, s1, s2, s3}
    InvalidOid = s0
    Keys = {k1, k2}
    ZeroKey = ZeroKey
    MaxCachedKeys = 3
SPECIFICATION Spec
INVARIANTS
    OneSlotPerTablespace
PROPERTY
    ImplementsKeyStore
