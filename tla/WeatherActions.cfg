CONSTANTS
    Ids = {a, b, c}
    Nonces = {n1, n2, n3}
    NonceLife = 2
    Capacity = 2
SPECIFICATION Spec
SYMMETRY Symmetry
INVARIANTS TypeOK AtMostOnce DoubtInhibits
PROPERTIES FailureIsFinal FailedActionDrains
CHECK_DEADLOCK FALSE
