SPECIFICATION Spec
CONSTANTS
    g = g
    a1 = a1
    b1 = b1
    NoBlock = NoBlock
    Genesis = g
    NodeNum = 3
    Block <- OneBlock
    number <- OneNumber
    parent <- OneParent
    sealer <- OneSealer
    FirstVoteBeats = 1
    Link <- Mesh
    MaxTerm <- TakeOver
    MaxRestart = 0
    Unstable = {2}
    MaxFlight = 4
    KeepLate = TRUE
CHECK_DEADLOCK FALSE
INVARIANTS
    ReadyNeedsMajority
