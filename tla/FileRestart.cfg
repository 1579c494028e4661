\* Chunks of two payloads, a buffer of two, two runs.
SPECIFICATION Spec
CONSTANTS
    Writers = {w1, w2}
    QueueLimit = 2
    SizeLimit = 0
    MaxSize = 3
    BufCap = 2
    MaxRecords = 3
    MaxStem = 1
    MaxRuns = 2
    Stamp = {1, 2}
    Torn = Torn
    DataCap = 1
    MaxPasses = 2
    MaxEmitted = 4
    MaxUnopened = 1
CHECK_DEADLOCK FALSE
PROPERTIES
    EarlierRunsKept
