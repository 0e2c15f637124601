SPECIFICATION Spec
CONSTANTS
    KeyBytes = {0, 83}
    NoKey = NoKey
    FreedBytes = {127}
    RandomBytes = {0, 142}
    ShareCounts = {1, 2, 3, 255, 256}
    MaxThreshold = 3
    Custodians = {1, 2, 255}
    MaxPresented = 3
INVARIANTS
    TypeOK
    SharesOnPolynomial
    RecoversEscrowedKey
