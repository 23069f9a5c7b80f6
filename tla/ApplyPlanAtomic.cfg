SPECIFICATION Spec
CONSTANTS
    t1 = t1
    t2 = t2
    a = a
    b = b
    long = long
    noText = noText
    empty = empty
    null = null
    comment = comment
    nil = nil
    Text <- MCText
    Stored <- MCStored
    NoText = noText
    EmptyMark = empty
    NullMark = null
    CommentString = comment
    Nil = nil
    Trigger <- MCTrigger
    Plans <- UndoablePlans
    OptionSets <- DefaultOnly
    InitTrigs <- CleanTrees
    CaptureOrders <- OneOrder
    MaxCalls = 2
    MaxGrants = 2
    MaxUiSteps = 0
PROPERTIES
    AtomicSpec
CHECK_DEADLOCK FALSE
