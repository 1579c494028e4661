\* Two workers, channels of one, connections that hold one line, one break.
SPECIFICATION FairSpec
CONSTANTS
    k1 = k1
    k2 = k2
    Key = {k1, k2}
    Hash <- MCHash
    MaxWrites = 3
    MaxBreaks = 1
    Workers = 2
    WireCap = 1
    Sep = Sep
    BufCap = 1
    DataCap = 1
CHECK_DEADLOCK FALSE
INVARIANTS
    TransportInv
PROPERTIES
    StuckIsFinal
    FullBufferDrains
    ImplementsTransport
