CONSTANTS
    Conns = {c1}
    Passwords = {pw1, pw2}
    Tried = {pw1}
    NoSecret = NoSecret
    MaxSalt = 1
SPECIFICATION Spec
INVARIANT
    PqcPlusWorks
