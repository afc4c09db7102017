CONSTANTS
    t1 = t1
    t2 = t2
    t3 = t3
    NoOwner = NoOwner
    Threads <- MCThreads2
    Role <- MCRole2
    Builds <- MCBuilds
    MaxInterrupts <- MCMaxInterrupts
    Rounds <- MCRounds
SPECIFICATION Spec
\* every thread's program ends and the threads stop
CHECK_DEADLOCK FALSE
INVARIANT TypeOK KernelTokens QueueOwed
PROPERTY ImplementsLock AllComplete
