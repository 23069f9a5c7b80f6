SPECIFICATION Spec
CONSTANTS
    c1 = c1
    p1 = p1
    p2 = p2
    Client <- OneClient
    Ui = Ui
    Plan <- MCPlan
    Cap = 1
    Nil = Nil
    MaxCalls = 3
    MaxGrants = 1
    MaxSaves = 1
INVARIANTS
    TypeOK
    SaveExclusive
    ReviewOrder
    ApprovalsSpent
PROPERTIES
    UiReturns
    WorkerReturns
CHECK_DEADLOCK FALSE
