CONSTANTS
    v1 = v1
    v2 = v2
    Values <- MCValues
    MaxLeaves = 8
    NullCid = NullCid
    None = None
INIT Init
NEXT Next
PROPERTY ImplementsAccumulator
