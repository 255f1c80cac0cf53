\* Pids 1, 2 and 5 over ints of two bits: 1 and 5 have the same key.  Five lines
\* let a process have three intervals, and two processes meet in a key side by
\* side and apart.
CONSTANTS
    FilePids = {0, 1, 2, 5}
    MaxLines = 5
    IntRange = 4
    NoNode = NoNode
    Unreadable = Unreadable
    NoVpn = NoVpn
    Files <- MCFiles
SPECIFICATION Spec
INVARIANTS
    TraceParserTypeOK
    LinesAreShared
    KnowsFirstAndLast
    HandsOver
PROPERTIES
    ImplementsFirstPass
    PassEnds
