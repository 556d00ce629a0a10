CONSTANTS
    va = va
    vb = vb
    Val = {va, vb}
    PowerOf <- MCPowerOf
    NumBlocks = 1
    InitialHeight = 1
    MaxHeight = 2
    MaxRound = 2
    NoProposer = NoProposer
    NumNodes = 3
    MapperOf <- MCMapperOf
    OutCap <- MCOutCap
    ChainCap = 2
    Scenarios <- MCScenarios
    SignerOf <- MCSignerOf
SPECIFICATION Spec
PROPERTY PlacesConverge PrecommitsConverge BroadcastsComplete
CHECK_DEADLOCK FALSE
