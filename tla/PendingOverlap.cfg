SPECIFICATION Spec
CONSTANTS
    m1 = m1
    m2 = m2
    f1 = f1
    f2 = f2
    e1 = e1
    e2 = e2
    g1 = g1
    g2 = g2
    v1 = v1
    v2 = v2
    Map <- MCMap
    OpenMap = m1
    File <- OneFile
    Edit <- MCEdit
    Global <- OneGlobal
    Value <- MCValue
    NoValue = NoValue
    Missing = Missing
    Torn = Torn
    Nil = Nil
    Layouts = {"wtg", "badLml"}
    Declared <- OneGlobal
    Ops <- OverlapOps
    Leftover <- OtherMap
    Overlap = TRUE
    Careful = FALSE
    MaxOps = 3
    MaxSaves = 2
    MaxLosses = 0
    MaxCrashes = 1
INVARIANTS
    EntryHasCache
PROPERTIES
    SaveEnds
CHECK_DEADLOCK FALSE
