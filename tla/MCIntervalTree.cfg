\* Up to four intervals over five lines, in any order: every shape of a tree of
\* four nodes, nested, overlapping, adjacent and separate intervals.
CONSTANTS
    MaxLine = 5
    MaxNodes = 4
    NoNode = NoNode
SPECIFICATION Spec
\* The tree has as many nodes as the bound allows.
CHECK_DEADLOCK FALSE
INVARIANTS
    MaxIsHighest
    FindsExactly
