CONSTANTS
    va = va
    vb = vb
    vc = vc
    Val = {va, vb, vc}
    PowerOf <- MCPowerOf
    NumBlocks = 1
    InitialHeight = 1
    MaxHeight = 3
    MaxRound = 1
    NoProposer = NoProposer
    Handlers = {c1}
    VoteMessages <- VotesThird
    Proposals <- PHsThird
    ReplayedHeaders = {}
    SMRounds <- RoundsThird
    SMVotes <- AnyVote
    OwnKey = vc
    Readers = {"stateMachine"}
    FetchRooms <- NoRooms
    PHQueueCap = 1
    MaxCrashes = 1
    Matching = {1}
    ResumeAt = 3
    SlowStrategy = FALSE
SPECIFICATION EngineSpec
INVARIANT NeverAheadOfMirror
CHECK_DEADLOCK FALSE
