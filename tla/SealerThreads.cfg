SPECIFICATION Spec
CONSTANTS
    a = a
    b = b
    Tx = {a, b}
    NodeNum = 4
    Me = 1
    MaxSeal = 2
    TxLimits = {1, 2}
    MaxBlocks = 2
    MaxView = 2
SYMMETRY TxSymmetry
INVARIANTS
    TypeOK
    AgreedOnce
    OnePrepare
    NoLockCycle
