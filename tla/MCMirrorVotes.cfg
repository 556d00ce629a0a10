CONSTANTS
    va = va
    vb = vb
    vc = vc
    Val = {va, vb, vc}
    PowerOf <- MCPowerOf
    NumBlocks = 1
    InitialHeight = 1
    MaxHeight = 1
    MaxRound = 1
    NoProposer = NoProposer
    Handlers = {c1, c2}
    VoteMessages <- VotesConcurrent
    Proposals <- PHsConcurrent
    ReplayedHeaders = {}
    SMRounds = {}
    SMVotes = {}
    OwnKey = vc
    Readers = {"gossip", "lag"}
    FetchRooms <- NoRooms
    PHQueueCap = 1
    MaxCrashes = 0
SPECIFICATION Spec
INVARIANT TypeOK CommitsExact
PROPERTY VotesNeverLost AdvanceOnlyWhenCertain
