CONSTANTS
    va = va
    vb = vb
    vc = vc
    Val = {va, vb, vc}
    PowerOf <- MCPowerOf
    NumBlocks = 1
    InitialHeight = 1
    MaxHeight = 2
    MaxRound = 1
    NoProposer = NoProposer
    Handlers = {c1, c2}
    VoteMessages <- VotesMissingHeader
    Proposals <- PHsMissingHeader
    ReplayedHeaders = {}
    SMRounds <- SMRoundsTwo
    SMVotes <- SMPrecommit
    OwnKey = vc
    Readers = {"gossip", "stateMachine"}
    FetchRooms <- AllRoom
    PHQueueCap = 1
    MaxCrashes = 0
SPECIFICATION LiveSpec
PROPERTY HandlersReturn MajorityCommits GossipCatchesUp StateMachineCatchesUp
