SPECIFICATION Spec
CONSTANTS
    k1 = k1
    exec = exec
    rpc = rpc
    Key = {k1}
    Reader = {exec, rpc}
    Executor = exec
    Obj = {1, 2, 3, 4, 5, 6, 7}
    a = a
    b = b
    Value = {a, b}
    Conditions <- AnyValue
    Genesis <- OneRow
    MaxOps = 2
    MaxForwardBlock = 1
    MaxBlocks = 3
    MaxRestart = 0
SYMMETRY Symmetric
CHECK_DEADLOCK FALSE
INVARIANT SelectsCommitted
