CONSTANTS
    Main = Main
    Det = Det
    None = None
    w1 = w1
    w2 = w2
    Workers <- MCWorkers
    Order <- MCOrder
    Faults <- MCFaults
SPECIFICATION Spec
INVARIANTS  FreeWhenUnused
PROPERTIES AllReclaimed
\* The program ends with the detach thread waiting on cnd_detach for ever.
CHECK_DEADLOCK FALSE
