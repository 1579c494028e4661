\* Three Sends, one redirect each, a buffer of six parts, one fault.
SPECIFICATION FairSpec
CONSTANTS
    Answer <- MCAnswer
    FollowRedirects = 1
    BufLen = 6
    ChunkLen = 2
    MaxResponse = 7
    MaxRequests = 3
    MaxFaults = 1
CHECK_DEADLOCK FALSE
INVARIANTS
    ClientInv
    
    TruncationReported
    WholeIsNoError
    ClearTextAfterFailure

    
