SPECIFICATION FairSpec
CONSTANTS
    TxNum = 4
    FieldNum = 2
    Thread = {t1, t2}
    Criticals <- MixedCriticals
    MaxThrow = 1
CHECK_DEADLOCK FALSE
INVARIANTS
    TypeOK
    ConflictsInOrder
    AllRunWhenLeft
PROPERTIES
    ImplementsOrder
    ExecutionReturns
