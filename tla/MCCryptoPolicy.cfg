CONSTANTS
    Null = Null
    Invalid = Invalid
    Sessions = {s1}
    FilePolicies = {"legacy", "fips-pqc-level5", Invalid}
    FileValues <- MCFileValues
    SetValues = {"md5", "scram-sha-384"}
    MaxLevel = 2
    MaxEdits = 1
SPECIFICATION Spec
INVARIANTS
    TypeOK
    SetIsScoped
    PolicyInForce
