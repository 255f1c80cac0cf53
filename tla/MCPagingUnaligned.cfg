\* Two processes of three pages each and three frames: memory fills, pages are
\* evicted and reloaded, and a process quits while the other one is blocked.
\* The free list has one word of two bits.
CONSTANTS
    Pids = {p1, p2}
    Vpns = {a, b, c}
    MemSize = 3
    WordBits = 2
    NoPage = NoPage
    Garbage = Garbage
SPECIFICATION PagingSpec
SYMMETRY Symmetry
\* All processes finished: the simulation is over.
CHECK_DEADLOCK FALSE
INVARIANTS
    FreePageFound
