CONSTANTS
    va = va
    vb = vb
    vc = vc
    Val = {va, vb, vc}
    PowerOf <- MCPowerOf
    NumBlocks = 1
    InitialHeight = 1
    MaxHeight = 2
    MaxRound = 1
    NoProposer = NoProposer
    Handlers = {c1}
    VoteMessages <- VotesTwoHeights
    Proposals <- PHsTwoHeights
    ReplayedHeaders <- Replays
    SMRounds = {}
    SMVotes = {}
    OwnKey = vc
    Readers = {"gossip"}
    FetchRooms <- NoRooms
    PHQueueCap = 1
    MaxCrashes = 1
SPECIFICATION Spec
INVARIANT CommitJustified ViewsAligned CrashSafe HeadersComplete
PROPERTY StoredProgress
