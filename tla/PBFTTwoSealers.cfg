SPECIFICATION Spec
CONSTANTS
    g = g
    a1 = a1
    b1 = b1
    c1 = c1
    a2 = a2
    x1 = x1
    NoBlock = NoBlock
    Genesis = g
    NodeNum = 2
    Faulty = {}
    FaultyMessage <- Silent
    Block <- TwoHeightBlocks
    number <- TwoHeightNumber
    parent <- TwoHeightParent
    EmptyBlock = {a2}
    FutureLimit = 20
    SigNum = 1
    MaxView = 1
    MaxCrash = 1
    Awake = {0, 1}
    Unstable = {0}
    MaxEarly = 20
INVARIANTS
    TypeOK
    CommitVoteLocked
    ViewNeedsRequests
    Agreement
    ChainNeedsCommitQuorum
PROPERTIES
    LockNeverReplaced
    ImplementsAgreement
