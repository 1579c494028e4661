\* Dynamic pool of one worker that grows to three while its size is being looked at,
\* fed by two copy goroutines, or by a middleware whose buffers hold a line each.
SPECIFICATION LoopFairSpec
CONSTANTS
    Writer = {w1, w2}
    QueueLen = 1
    WorkersMin = 0
    WorkersMax = 1
    InitialDynamic = 3
    TrackResponses = TRUE
    Middleware = {TRUE, FALSE}
    InputCap = 1
    PipeCap = 1
    DataCap = 1
INVARIANTS
    CountInv
    LoopInv
PROPERTIES
    JamIsFinal
    LoopLive
CHECK_DEADLOCK FALSE
