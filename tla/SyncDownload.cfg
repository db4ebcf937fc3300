SPECIFICATION Spec
CONSTANTS
    g = g
    b1 = b1
    b2 = b2
    b3 = b3
    x2 = x2
    NoBlock = NoBlock
    Genesis = g
    NodeNum = 2
    Block <- Blocks
    number <- BlockNumber
    parent <- BlockParent
    Sealed <- SealedBlocks
    weight <- BlockWeight
    MaxPayload = 1
    MaxRequestBlocks = 2
    MaxRequestShards = 1
    MaxQueue = 4
    MaxReqs = 2
    Link <- Both
    Start <- NewNode
    Stray <- Forgery
    Sealers = {0}
    Met = {1}
    Leaving = {}
    MaxLate = 1
    MaxLoss = 0
    MaxExec = 1
INVARIANTS
    TypeOK
    ChainIsSealed
PROPERTIES
    RangesLostOnlyWhenFull
