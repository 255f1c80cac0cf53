\* Three frames and a free list of one two-bit word: the third page cannot be
\* loaded, and the program exits.
CONSTANTS
    Pids = {1, 2}
    Vpns = {1, 2}
    MemSize = 3
    WordBits = 2
    DiskPenalty = 2
    MaxLines = 5
    NoPage = NoPage
    Garbage = Garbage
    NoProc = NoProc
    Traces <- MCTraces
SPECIFICATION Spec
INVARIANTS
    ExitsWithListFull
