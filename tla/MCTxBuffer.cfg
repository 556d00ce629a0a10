CONSTANTS
    t1 = t1
    t2 = t2
    t3 = t3
    Clients = {c1, c2}
    Tx = {t1, t2, t3}
    State <- MCState
    Genesis = {}
    NoState = NoState
    Valid <- MCValid
    Apply <- MCApply
    Blocks <- MCBlocks
    MaxTxs = 3
    MaxRebases = 2
SPECIFICATION Spec
INVARIANT BufferConsistent
PROPERTY ImplementsPool NoSilentDrop CallsReturn
CHECK_DEADLOCK FALSE
