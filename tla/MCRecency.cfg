\* Two processes of three pages each and four frames: memory fills, pages are
\* evicted and reloaded, and a process quits while the other one is blocked,
\* leaving room and an old place of the hand.  The free list has two words.
CONSTANTS
    Pids = {p1, p2}
    Vpns = {a, b, c}
    MemSize = 4
    WordBits = 2
    NoPage = NoPage
    Garbage = Garbage
SPECIFICATION RecencySpec
SYMMETRY Symmetry
\* All processes finished: the simulation is over.
CHECK_DEADLOCK FALSE
INVARIANTS
    PagingTypeOK
    FrameTable
    BitmapAgrees
    QueueTracksMemory
    ClockBitsKnown
    BlockedPageAbsent
    NoDanglingPage
    FreePageFound
    ClockComesRound
    SweepIsLoop
PROPERTIES
    EvictOnlyWhenFull
    EvictsOldest
