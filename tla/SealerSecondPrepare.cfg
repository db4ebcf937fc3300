SPECIFICATION Spec
CONSTANTS
    a = a
    b = b
    Tx = {a, b, c, d}
    NodeNum = 4
    Me = 2
    MaxSeal = 1
    TxLimits = {2}
    MaxBlocks = 2
    MaxView = 0
SYMMETRY TxSymmetry
INVARIANTS
    NoSecondPrepare
