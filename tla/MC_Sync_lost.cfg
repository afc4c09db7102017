CONSTANTS
    t1 = t1
    t2 = t2
    t3 = t3
    NoOwner = NoOwner
    Threads <- MCThreads3
    Role <- MCRole3
    Builds <- MCWin32
    MaxInterrupts <- MCMaxInterrupts
    Rounds <- MCRounds1
SPECIFICATION Spec
CHECK_DEADLOCK FALSE
\* all threads finish their cycles and stop
PROPERTY AllComplete
