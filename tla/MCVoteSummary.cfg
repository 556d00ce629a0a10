SPECIFICATION Spec
CONSTANTS
    v1 = v1
    v2 = v2
    v3 = v3
    v4 = v4
    Val <- MCVal
    PowerOf <- MCPowerOf
    NumBlocks = 2
INVARIANT WinnerIndependentOfOrder PowersIndependentOfOrder OneMajorityUnlessEquivocation
CHECK_DEADLOCK FALSE
