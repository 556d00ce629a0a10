CONSTANTS
    va = va
    vb = vb
    vc = vc
    Val = {va, vb, vc}
    PowerOf <- MCPowerOf
    NumBlocks = 1
    InitialHeight = 1
    MaxHeight = 2
    MaxRound = 1
    NoProposer = NoProposer
    Handlers = {c1}
    VoteMessages <- VotesCatchUp
    Proposals <- PHsCatchUp
    ReplayedHeaders <- ReplaysCatchUp
    SMRounds <- RoundsCatchUp
    SMVotes <- AnyVote
    OwnKey = vc
    Readers = {"stateMachine"}
    FetchRooms <- AllRoom
    PHQueueCap = 1
    MaxCrashes = 0
    Matching = {1}
    ResumeAt = 1
    SlowStrategy = FALSE
SPECIFICATION EngineSpec
INVARIANT FinalizedInOrder StateMachineInformed
CHECK_DEADLOCK FALSE
