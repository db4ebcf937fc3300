SPECIFICATION Spec
CONSTANTS
    g = g
    a1 = a1
    b1 = b1
    c1 = c1
    a2 = a2
    x1 = x1
    NoBlock = NoBlock
    Genesis = g
    NodeNum = 4
    Faulty = {0}
    FaultyMessage <- StrayVotes
    Block <- OrphanBlocks
    number <- OrphanNumber
    parent <- OrphanParent
    EmptyBlock = {}
    FutureLimit = 20
    SigNum = 2
    MaxView = 1
    MaxCrash = 0
    Awake = {1, 2}
    Unstable = {}
    MaxEarly = 3
INVARIANTS
    CommitNeedsSignQuorum
    SignedBlockIsLeaders
    LockExtendsChain
    SignQuorumIsActedOn
