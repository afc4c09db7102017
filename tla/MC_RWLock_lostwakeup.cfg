\* One reader and one writer: the writer blocks on cv behind the reader,
\* and the reader's rwl_release (2 -> 0) does not wake it.
CONSTANTS
    r1 = r1
    w1 = w1
    d1 = d1
    d2 = d2
    Readers <- MCReaders
    Writers <- MCWriters
    Deleters <- NoThreads
SPECIFICATION Spec
PROPERTY WriterProgress
CHECK_DEADLOCK FALSE
