\* Assembly on SYN and FIN, two messages, fair goroutines and timers.
SPECIFICATION FairSpec
CONSTANTS
    Addr = {a, b}
    MaxSize = 2
    MaxLen = 2
    MaxMsgs = 2
    ChanCap = 1
    Hints = FALSE
    Resets = TRUE
CHECK_DEADLOCK FALSE
PROPERTIES
    HandlerReturns
