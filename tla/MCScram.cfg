CONSTANTS
    Conns = {c1}
    Passwords = {pw1, pw2}
    Tried = {pw1}
    NoSecret = NoSecret
    MaxSalt = 2
SPECIFICATION Spec
INVARIANTS
    TypeOK
    VerdictsAgree
    AcceptsOnlyCompatible
    RejectsOnlyWithCause
PROPERTY
    EveryAttemptEnds
