CONSTANTS
    Postmaster = Postmaster
    Backends = {b1, b2}
    Receivers = {r1}
    KeyPairs = {k1, k2, k3}
    Garbage = Garbage
SPECIFICATION Spec
PROPERTY GenuineSegmentsVerify
