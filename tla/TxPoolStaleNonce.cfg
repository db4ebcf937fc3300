SPECIFICATION Spec
CONSTANTS
    a = a
    b = b
    c = c
    Tx <- Transactions
    Nonce = {1}
    nonce <- SameNonce
    blockLimit <- Limits
    OtherGroup = {c}
    Self = s
    Sealers = {p}
    Observers = {}
    Limit = 2
    MaxBlockLimit = 3
    MaxSend = 2
    MaxSeal = 1
    MaxBlocks = 6
    MaxPackets = 1
    MaxPacket = 1
    MaxRestart = 1
CHECK_DEADLOCK FALSE
INVARIANTS
    SealedNoncesFresh
