\* No RST: only the expiry timer and the final packet race.
SPECIFICATION FairSpec
CONSTANTS
    Addr = {a, b}
    MaxSize = 2
    MaxLen = 1
    MaxMsgs = 2
    ChanCap = 1
    Hints = TRUE
    Resets = FALSE
CHECK_DEADLOCK FALSE
PROPERTIES
    ExpireHonoured
