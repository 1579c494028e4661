\* An input, two outputs of which one is read and fails once closed, with and without a
\* middleware; errors, timer, signal; fair goroutines.
SPECIFICATION FairSpec
CONSTANTS
    NIn = 1
    NOut = 2
    Readable = {3}
    Recloseable = {2}
    StopErrors = {3}
    IOErrors = TRUE
    Middleware = {TRUE, FALSE}
    ExitAfter = TRUE
    MaxReads = 1
CHECK_DEADLOCK FALSE
INVARIANTS
    EmitterInv
    OneCloserNoPanic
PROPERTIES
    StopEndsProcess
