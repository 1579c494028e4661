\* One source with two connections, three writers that may fail, with and without
\* --split-output; filtered and undecodable payloads, missed responses, time.
SPECIFICATION Spec
CONSTANTS
    Source = {s1}
    NWriters = 3
    Id = {d1, d2}
    SplitOutput = {TRUE, FALSE}
    Modifier = TRUE
    Prettify = TRUE
    WriteErrors = TRUE
    Losses = TRUE
    MaxAsked = 1
    MaxPayloads = 8
    TTL = 1
    Period = 2
SYMMETRY Symmetry
CHECK_DEADLOCK FALSE
INVARIANTS
    CopyInv
    ResponseSharesFate
