CONSTANTS
    va = va
    vb = vb
    vc = vc
    Val = {va, vb, vc}
    PowerOf <- MCPowerOf
    NumBlocks = 1
    InitialHeight = 1
    MaxHeight = 2
    MaxRound = 1
    NoProposer = NoProposer
    Handlers = {c1}
    VoteMessages <- VotesFirst
    Proposals <- PHsFirst
    ReplayedHeaders = {}
    SMRounds <- RoundsFirst
    SMVotes <- AnyVote
    OwnKey = vc
    Readers = {"stateMachine"}
    FetchRooms <- NoRooms
    PHQueueCap = 1
    MaxCrashes = 0
    Matching = {1}
    ResumeAt = 1
    SlowStrategy = TRUE
SPECIFICATION EngineSpec
INVARIANT FinalizedIsCommitted NeverAheadOfMirror LifecycleConsistent
PROPERTY ImplementsMirror
CHECK_DEADLOCK FALSE
