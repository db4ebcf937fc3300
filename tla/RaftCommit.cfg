SPECIFICATION Spec
CONSTANTS
    g = g
    a1 = a1
    b1 = b1
    NoBlock = NoBlock
    Genesis = g
    NodeNum = 2
    Block <- RivalBlocks
    number <- RivalNumber
    parent <- RivalParent
    sealer <- RivalSealer
    FirstVoteBeats = 1
    Link <- Mesh
    MaxTerm <- BackAgain
    MaxRestart = 0
    Unstable = {}
    MaxFlight = 2
    KeepLate = FALSE
CHECK_DEADLOCK FALSE
INVARIANTS
    NoStrandedFollower
PROPERTIES
    StrandedByReport
