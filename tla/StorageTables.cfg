SPECIFICATION Spec
CONSTANTS
    k1 = k1
    exec = exec
    rpc = rpc
    Key = {k1}
    Reader = {exec, rpc}
    Executor = exec
    Obj = {1, 2, 3, 4, 5, 6, 7}
    a = a
    b = b
    Value = {a, b}
    Conditions <- AnyValue
    Genesis <- TwoRowsOrNone
    MaxOps = 2
    MaxForwardBlock = 1
    MaxBlocks = 3
    MaxRestart = 1
SYMMETRY Symmetric
CHECK_DEADLOCK FALSE
INVARIANTS
    TypeOK
    SelectsCommittedUnlessTainted
    RowsInIdOrderUnlessTainted
    LossBounded
PROPERTY RollbackRestores
