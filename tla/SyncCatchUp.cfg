SPECIFICATION FairSpec
CONSTANTS
    g = g
    b1 = b1
    b2 = b2
    b3 = b3
    x2 = x2
    NoBlock = NoBlock
    Genesis = g
    NodeNum = 3
    Block <- Blocks
    number <- BlockNumber
    parent <- BlockParent
    Sealed <- SealedBlocks
    weight <- BlockWeight
    MaxPayload = 1
    MaxRequestBlocks = 2
    MaxRequestShards = 1
    MaxQueue = 4
    MaxReqs = 2
    Link <- Star
    Start <- Lagging
    Stray <- NoPackets
    Sealers = {}
    Met = {0, 1, 2}
    Leaving = {2}
    MaxLate = 0
    MaxLoss = 1
    MaxExec = 0
PROPERTIES
    CatchesUp
