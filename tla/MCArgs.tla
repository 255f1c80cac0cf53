------------------------------- MODULE MCArgs -------------------------------
(***************************************************************************)
(* Args for TLC: every command line of at most MaxWords options over sizes *)
(* on both sides of each limit.  An int has 8 bits, a long 12, a megabyte  *)
(* 16 bytes.                                                               *)
(***************************************************************************)
EXTENDS Args

CONSTANTS MaxWords, FileName

\* Negative, zero, fitting, the first product that overflows to a negative number
\* (8), to zero (16) and to a positive one (17, 33), an int that wraps to zero or
\* to 1 (256, 257), and a number too long for strtol.
MemoryTexts == {-1, 0, 1, 3, 7, 8, 16, 17, 33, 256, 257, 5000, NotANumber}

\* Odd, powers of two and other even numbers, more than a megabyte, wrapping.
PageTexts == {-2, 0, 1, 2, 3, 6, 8, 16, 18, 64, 258, 5000, NotANumber}

MCOptions ==
    [opt : {"m"}, val : MemoryTexts] \cup [opt : {"p"}, val : PageTexts]
    \cup [opt : {"name"}, val : {FileName}]
    \cup [opt : {"h", "?", "end"}, val : {NotANumber}]

MCCommandLines == UNION {[1 .. n -> MCOptions] : n \in 0 .. MaxWords}
=============================================================================
