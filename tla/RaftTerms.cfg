SPECIFICATION Spec
CONSTANTS
    g = g
    a1 = a1
    b1 = b1
    NoBlock = NoBlock
    Genesis = g
    NodeNum = 3
    Block <- OneBlock
    number <- OneNumber
    parent <- OneParent
    sealer <- OneSealer
    FirstVoteBeats = 1
    Link <- Apart
    MaxTerm <- TakeOver
    MaxRestart = 1
    Unstable = {2}
    MaxFlight = 2
    KeepLate = FALSE
CHECK_DEADLOCK FALSE
INVARIANTS
    TypeOK
    TermAheadOfLastLeader
PROPERTIES
    LeaderYieldsUpward
    LastLeaderTermGrows
