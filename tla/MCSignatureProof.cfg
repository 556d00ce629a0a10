CONSTANTS
    NKeys = 5
    Sparse <- MCSparse
    Others <- MCOthers
SPECIFICATION Spec
INVARIANT SignersCounted SparseRoundTrip
PROPERTY ImplementsSignerSet
\* Undecodable bytes for a signature that the BLS proof holds end the process.
CHECK_DEADLOCK FALSE
