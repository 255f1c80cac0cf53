\* Two processes of two pages each and two frames: pages are evicted, a process
\* is resumed while another runs, and both may be blocked at once.
CONSTANTS
    Pids = {1, 2}
    Vpns = {1, 2}
    MemSize = 2
    WordBits = 1
    DiskPenalty = 3
    MaxLines = 6
    NoPage = NoPage
    Garbage = Garbage
    NoProc = NoProc
    Traces <- MCTraces
SPECIFICATION FairSpec
INVARIANTS
    SimulatorTypeOK
    QueuesMatchStatus
    RunnableSorted
    DiskServesHead
    TimeAccounts
    StatsAccount
    HitsMatchProgress
    EndsClean
PROPERTIES
    PagingSpec
    Terminates
    BlockedResumes
