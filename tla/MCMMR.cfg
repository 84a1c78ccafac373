CONSTANTS
    v1 = v1
    v2 = v2
    Values <- MCValues
    MaxLeaves = 8
    NullCid = NullCid
    None = None
SYMMETRY MCSymmetry
INIT Init
NEXT Next
INVARIANT TypeOK
INVARIANT MergesInBounds
INVARIANT PeaksAreEigentrees
INVARIANT GetLeafCorrect
INVARIANT PushReturnsBaggedRoot
