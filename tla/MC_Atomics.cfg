CONSTANTS
    t1 = t1
    t2 = t2
    Threads <- MCThreads
    Calls <- MCCalls
    MaxCalls <- MCMaxCalls
    Width <- MCWidth
    Kinds <- MCKinds
    NoResult = NoResult
    NoCall = NoCall

SPECIFICATION Spec

INVARIANTS
    TypeOK
    SpinWordBound

PROPERTIES
    ImplementsAtomicInt
    AllCallsReturn

CHECK_DEADLOCK FALSE
