\* Safety of the lock and the upgrade liveness on which avstor_delete relies.
\* Threads may stop between calls, so a final state where all have stopped
\* is a legitimate end, not a deadlock.
CONSTANTS
    r1 = r1
    w1 = w1
    d1 = d1
    d2 = d2
    Readers <- MCReaders
    Writers <- MCWriters
    Deleters <- MCDeleters
SPECIFICATION Spec
INVARIANT TypeOK
INVARIANT Exclusion
INVARIANT LockAccounting
PROPERTY UpgradeCompletes
CHECK_DEADLOCK FALSE
