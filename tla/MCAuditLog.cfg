CONSTANTS
    Sessions = {s1, s2}
    MaxId = 3
    MaxKey = 4
    MaxUnflushed = 2
SPECIFICATION Spec
SYMMETRY MCSymmetry
INVARIANTS
    ChainWellFounded
    ForksOnlyWhenConcurrent
    KeysStayComplete
    PairsMixOnlyWhenConcurrent
    VerifiesUntilReplaced
