\* As MCSimulator: a disk read completes while another process runs.
CONSTANTS
    Pids = {1, 2}
    Vpns = {1, 2}
    MemSize = 2
    WordBits = 1
    DiskPenalty = 2
    MaxLines = 5
    NoPage = NoPage
    Garbage = Garbage
    NoProc = NoProc
    Traces <- MCTraces
SPECIFICATION Spec
INVARIANTS
    ReadsOwnLine
