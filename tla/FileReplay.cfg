\* Chunks of two payloads, a buffer of two, a date that changes once.
SPECIFICATION FairSpec
CONSTANTS
    Writers = {w1, w2}
    QueueLimit = 2
    SizeLimit = 1
    MaxSize = 2
    BufCap = 2
    MaxRecords = 3
    MaxStem = 1
    MaxRuns = 1
    Stamp = {1, 2}
    Torn = Torn
    DataCap = 1
    MaxPasses = 2
    MaxEmitted = 3
    MaxUnopened = 1
CHECK_DEADLOCK FALSE
INVARIANTS
    RecordingInv
    CloseInv
    ChunkBounded
    ReplayExact
    MergedByTime
PROPERTIES
    ReplayEnds
