SPECIFICATION Spec
CONSTANTS
    u1 = u1
    u2 = u2
    x = x
    y = y
    raw = raw
    Uri <- MCUri
    Line <- MCLine
    Nil = Nil
    Jass <- MCJass
    Quotable <- MCQuotable
    Escapable <- MCEscapable
    Message <- AllMessages
    Streams <- BothStreams
    PipeSize = 2
    MaxStarts = 2
    MaxSends = 2
    MaxCrashes = 1
INVARIANTS
    TypeOK
    InOrder
    ThreadMatchesFlag
    HandlesBalance
    DocsAgree
PROPERTIES
    CallsReturn
CHECK_DEADLOCK FALSE
