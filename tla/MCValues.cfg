SPECIFICATION Spec
CONSTANTS
    Starts <- McStarts
    Names <- McNames
    Scalars <- McScalars
    NewTypes <- McNewTypes
    SubValueTypes <- McSubValueTypes
    Dims <- McDims
    TupleSizes <- McTupleSizes
    MaxTypes = 8
    MaxValues = 2
    MaxItems = 2
    MaxCalls = 6
    MaxTypeCalls = 1
INVARIANTS ValuesInv RoundTrip BoundTyped
CHECK_DEADLOCK FALSE
