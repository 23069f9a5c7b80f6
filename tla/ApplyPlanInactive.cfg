SPECIFICATION Spec
CONSTANTS
    t1 = t1
    t2 = t2
    a = a
    b = b
    long = long
    noText = noText
    empty = empty
    null = null
    comment = comment
    nil = nil
    Text <- MCText
    Stored <- MCStored
    NoText = noText
    EmptyMark = empty
    NullMark = null
    CommentString = comment
    Nil = nil
    Trigger <- MCTrigger
    Plans <- AddThenFail
    OptionSets <- DefaultOnly
    InitTrigs <- RoughTrees
    CaptureOrders <- OneOrder
    MaxCalls = 1
    MaxGrants = 1
    MaxUiSteps = 0
INVARIANTS
    RollbackRemovesAdded
CHECK_DEADLOCK FALSE
