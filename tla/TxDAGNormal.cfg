SPECIFICATION Spec
CONSTANTS
    TxNum = 2
    FieldNum = 2
    Thread = {t1, t2}
    Criticals <- MixedCriticals
    MaxThrow = 0
CHECK_DEADLOCK FALSE
INVARIANTS
    NormalConflictsWithAll
