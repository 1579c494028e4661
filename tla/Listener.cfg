\* Two handles of every engine, packets, errors of activation, cancelled at any time.
SPECIFICATION FairSpec
CONSTANTS
    Handle = {h1, h2}
    Engines = {"pcap", "file", "raw"}
    ChanCap = 1
    MaxPkts = 2
CHECK_DEADLOCK FALSE
INVARIANTS
    NoSendOnClosed
    NoHandleLeak
    ListenerInv
PROPERTIES
    ListenReturns
