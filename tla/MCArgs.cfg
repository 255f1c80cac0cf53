\* Up to three options: both sizes and a name in any order, or one of them twice.
CONSTANTS
    MaxWords = 3
    FileName = FileName
    NotANumber = NotANumber
    NoName = NoName
    IntRange = 256
    LongRange = 4096
    MegaByte = 16
    DefaultPage = 4
    WordBits = 2
    CommandLines <- MCCommandLines
SPECIFICATION Spec
\* The program has exited, or the simulation begins.
CHECK_DEADLOCK FALSE
INVARIANTS
    AssertionsHold
    RunsAsAsked
    WordsCoverMemory
