\* A disk so slow that no read completes while a process can run: the penalty
\* exceeds the lines and the processes together.
CONSTANTS
    Pids = {1, 2}
    Vpns = {1, 2}
    MemSize = 2
    WordBits = 1
    DiskPenalty = 8
    MaxLines = 5
    NoPage = NoPage
    Garbage = Garbage
    NoProc = NoProc
    Traces <- MCTraces
SPECIFICATION FairSpec
INVARIANTS
    ReadsCurrentLine
    EveryPageComesIn
    ColdMissesOnly
PROPERTIES
    LinesPassedAreRead
    Completes
