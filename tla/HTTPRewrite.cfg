\* Thirteen messages, 480 configurations, four outputs, a read buffer that is full,
\* has one byte to spare, or more than is ever needed.
SPECIFICATION Spec
CONSTANTS
    Lower <- MCLower
    Hash <- MCHash
    Message <- MCMessage
    Config <- MCConfig
    Room = {0, 1, 99}
    Output <- MCOutput
CHECK_DEADLOCK FALSE
INVARIANTS
    FramingExact
    RewriteExact
    HostExact
