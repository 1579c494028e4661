\* Two endpoints, three messages, channel of one: assembly with and without RST.
SPECIFICATION Spec
CONSTANTS
    Addr = {a, b}
    MaxSize = 2
    MaxLen = 2
    MaxMsgs = 3
    ChanCap = 1
    Hints = TRUE
    Resets = TRUE
SYMMETRY Symmetry
CHECK_DEADLOCK FALSE
INVARIANTS
    MapAccessExclusive
    TimedOutIffIncomplete
    OnceAndInOrder
    PoolInv
PROPERTIES
    WedgeIsFinal
    ImplementsStream
