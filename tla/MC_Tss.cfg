CONSTANTS
    t1 = t1
    t2 = t2
    d1 = d1
    v1 = v1
    NULL = NULL
    None = None
    Threads <- MCThreads
    Slots <- MCSlots
    Dtors <- MCDtors
    Vals <- MCVals
    MaxOps <- MCMaxOps
SPECIFICATION Spec
INVARIANT NoNullDestructorCall
CHECK_DEADLOCK FALSE
