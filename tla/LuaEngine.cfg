SPECIFICATION Spec
CONSTANTS
    h1 = h1
    u1 = u1
    u2 = u2
    u3 = u3
    f1 = f1
    f2 = f2
    t1 = t1
    t2 = t2
    n1 = n1
    None = None
    Original = Original
    Handle <- MCHandle
    Userdata <- MCUserdata
    Func <- MCFunc
    Thread <- MCThread
    Name <- MCName
    MaxActs = 3
    MaxSleeps = 2
    MaxDepth = 2
    MaxCollections = 2
SYMMETRY Symmetry
INVARIANTS
    TypeOK
    HandlesSound
    ResumesOwn
    HookSound
CHECK_DEADLOCK FALSE
