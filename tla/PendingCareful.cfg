SPECIFICATION Spec
CONSTANTS
    m1 = m1
    m2 = m2
    f1 = f1
    f2 = f2
    e1 = e1
    e2 = e2
    g1 = g1
    g2 = g2
    v1 = v1
    v2 = v2
    Map <- MCMap
    OpenMap = m1
    File <- MCFile
    Edit <- MCEdit
    Global <- MCGlobal
    Value <- MCValue
    NoValue = NoValue
    Missing = Missing
    Torn = Torn
    Nil = Nil
    Layouts = {"lml", "wtg", "script"}
    Declared <- MCGlobal
    Ops <- AllOps
    Leftover <- OtherMap
    Overlap = FALSE
    Careful = TRUE
    MaxOps = 3
    MaxSaves = 2
    MaxLosses = 1
    MaxCrashes = 0
INVARIANTS
    TypeOK
    NoSilentLoss
PROPERTIES
    SaveIsComplete
    ClearedAfterSave
CHECK_DEADLOCK FALSE
