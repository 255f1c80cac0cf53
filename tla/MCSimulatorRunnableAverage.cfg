\* As MCSimulator: two processes are runnable at once, as in the initial state.
CONSTANTS
    Pids = {1, 2}
    Vpns = {1, 2}
    MemSize = 2
    WordBits = 1
    DiskPenalty = 3
    MaxLines = 5
    NoPage = NoPage
    Garbage = Garbage
    NoProc = NoProc
    Traces <- MCTraces
SPECIFICATION FairSpec
PROPERTIES
    TrpCountsRunnable
