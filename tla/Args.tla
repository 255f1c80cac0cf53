-------------------------------- MODULE Args --------------------------------
(***************************************************************************)
(* The start of the program, after src/main.c: parseArgs reads the command *)
(* line word by word as getopt hands it over, checks the two sizes and the *)
(* file name, and main opens the trace with the number of pages that       *)
(* Memory_init gets.                                                       *)
(*                                                                         *)
(* A command line is a sequence of options [opt, val]: "m" and "p" with    *)
(* the text of a size, "name" with a file (the format of getopt starts     *)
(* with '-', so a name may stand anywhere and counts as an option), "end"  *)
(* for a word "--", "h", and "?" for an option getopt does not know or     *)
(* that lacks its value.  The text of a size is the number it spells, of   *)
(* any length, or NotANumber.                                              *)
(***************************************************************************)
EXTENDS Integers, Sequences, FiniteSets, FiniteSetsExt

CONSTANTS
    CommandLines,   \* the command lines
    NotANumber,     \* a text that does not start with a number
    NoName,         \* the NULL file name
    IntRange,       \* the values of an int (2^32)
    LongRange,      \* the values of a long (2^64)
    MegaByte,       \* bytes in a megabyte (0x100000)
    DefaultPage,    \* the default page size (4096)
    WordBits        \* bits in one word of the free list (32)

ASSUME ArgsAssumption ==
    /\ IntRange \in Nat \ {0} /\ IntRange % 2 = 0
    /\ LongRange \in Nat \ {0} /\ LongRange % IntRange = 0
    /\ MegaByte \in 1 .. IntRange \div 2 - 1
    /\ DefaultPage \in 1 .. MegaByte
    /\ WordBits \in Nat \ {0}
    /\ \A line \in CommandLines :
          /\ Len(line) \in Nat /\ DOMAIN line = 1 .. Len(line)
          /\ \A k \in DOMAIN line :
                line[k].opt \in {"m", "p"} => line[k].val \in Int \cup {NotANumber}

VARIABLES
    argv,       \* the command line
    optind,     \* the next word to be read
    memsize,    \* in megabytes while the options are read, then in bytes
    pagesize,
    filename,
    pc          \* "options", "main" once parseArgs has returned, "running", "exit"

vars == <<argv, optind, memsize, pagesize, filename, pc>>

Values(range) == -(range \div 2) .. range \div 2 - 1

\* The value of an int that holds n: its low bits, as two's complement.
ToInt(n) == ((n + IntRange \div 2) % IntRange) - (IntRange \div 2)

Init ==
    /\ argv \in CommandLines
    /\ optind = 1
    /\ memsize = 0
    /\ pagesize = 0
    /\ filename = NoName
    /\ pc = "options"

-----------------------------------------------------------------------------
\* strtol sets errno for a number too long for it, and for nothing else: a text
\* that is no number is 0.
SetsErrno(text) == text # NotANumber /\ text \notin Values(LongRange)
Parsed(text) == IF text = NotANumber THEN 0 ELSE ToInt(text)

AtEnd == optind \in DOMAIN argv => argv[optind].opt = "end"
Option(opt) == pc = "options" /\ ~ AtEnd /\ argv[optind].opt = opt
Exits == pc' = "exit" /\ UNCHANGED <<argv, optind, memsize, pagesize, filename>>

ReadsMemorySize ==
    /\ Option("m")
    /\ ~ SetsErrno(argv[optind].val)
    /\ memsize' = Parsed(argv[optind].val)
    /\ optind' = optind + 1
    /\ UNCHANGED <<argv, pagesize, filename, pc>>

\* A slip for the mutation checks: the line copied from the option above.
PageSizeGoesToMemory ==
    /\ Option("p")
    /\ ~ SetsErrno(argv[optind].val)
    /\ memsize' = Parsed(argv[optind].val)
    /\ optind' = optind + 1
    /\ UNCHANGED <<argv, pagesize, filename, pc>>

ReadsPageSize ==
    /\ Option("p")
    /\ ~ SetsErrno(argv[optind].val)
    /\ pagesize' = Parsed(argv[optind].val)
    /\ optind' = optind + 1
    /\ UNCHANGED <<argv, memsize, filename, pc>>

ReadsName ==
    /\ Option("name")
    /\ filename' = argv[optind].val
    /\ optind' = optind + 1
    /\ UNCHANGED <<argv, memsize, pagesize, pc>>

\* The help message, an option getopt refuses, or a number that is too long.
StopsAtOption ==
    /\ \/ Option("h") \/ Option("?")
       \/ (Option("m") \/ Option("p")) /\ SetsErrno(argv[optind].val)
    /\ Exits

-----------------------------------------------------------------------------
\* What the two sizes become once all options have been read; 0 is taken for a
\* size that was not given.  The product wraps, as it does in the build.
PageBytes == IF pagesize = 0 THEN DefaultPage ELSE pagesize

MemoryBytes == ToInt((IF memsize = 0 THEN 1 ELSE memsize) * MegaByte)

PageSizeIsOdd == pagesize # 0 /\ pagesize % 2 # 0

\* A slip for the mutation checks: the sizes are not compared.
RefusesWithoutFit == PageSizeIsOdd \/ pagesize < 0 \/ memsize < 0 \/ filename = NoName

Refuses ==
    \/ PageSizeIsOdd
    \/ pagesize < 0
    \/ memsize < 0
    \/ PageBytes > MemoryBytes
    \/ filename = NoName

RefusesSizes == pc = "options" /\ AtEnd /\ Refuses /\ Exits

Accepts ==
    /\ pc = "options"
    /\ AtEnd
    /\ ~ Refuses
    /\ pc' = "main"
    /\ memsize' = MemoryBytes
    /\ pagesize' = PageBytes
    /\ UNCHANGED <<argv, optind, filename>>

\* A slip for the mutation checks: a page for what the division leaves.
OnePageMore == (memsize \div pagesize) + 1

numberOfPhysicalPages == memsize \div pagesize

\* The file may be there or not.
FailsToOpen == pc = "main" /\ Exits

StartsRunning ==
    /\ pc = "main"
    /\ pc' = "running"
    /\ UNCHANGED <<argv, optind, memsize, pagesize, filename>>

Next ==
    \/ ReadsMemorySize \/ ReadsPageSize \/ ReadsName \/ StopsAtOption
    \/ RefusesSizes \/ Accepts
    \/ FailsToOpen \/ StartsRunning

Spec == Init /\ [][Next]_vars

-----------------------------------------------------------------------------
Started == pc \in {"main", "running"}

\* The options main is ever shown: those before a "--".
OptionsRead ==
    {k \in DOMAIN argv : \A j \in 1 .. k : argv[j].opt # "end"}

\* The last value given for an option, or the default.
Asked(opt, default) ==
    LET given == {k \in OptionsRead : argv[k].opt = opt}
    IN  IF given = {} THEN default ELSE argv[Max(given)].val

\* A size that can be run with: a number of bytes other than 0 that an int holds.
FitsInt(bytes) == bytes \in Values(IntRange) \ {0}

\* What main relies on when parseArgs returns (main.c:160-165), and Memory_init
\* with it: there is at least one page.  The shipped build leaves the assertions
\* out, so the checks of parseArgs must imply them, whatever overflowed.
AssertionsHold ==
    Started =>
        /\ memsize > 0
        /\ pagesize > 0
        /\ filename # NoName
        /\ numberOfPhysicalPages > 0

\* The simulation runs with what the command line asks for in whatever order, the
\* last value of each option counting, as long as that is a number and the size in
\* bytes fits an int and is not 0; and never after an option that is refused
\* (main.c:38-105).  A
\* text that is no number is read as 0, whatever its message says (main.c:43-46).
RunsAsAsked ==
    Started =>
        LET megabytes == Asked("m", 1)
            page == Asked("p", DefaultPage)
        IN  /\ megabytes # NotANumber /\ FitsInt(megabytes * MegaByte) =>
                  memsize = megabytes * MegaByte
            /\ page # NotANumber /\ FitsInt(page) => pagesize = page
            /\ filename = Asked("name", NoName)
            /\ \A k \in OptionsRead : argv[k].opt \notin {"h", "?"}

Powers == {2 ^ n : n \in 0 .. 30}

\* With the page sizes the help message allows, up to a megabyte for each word of
\* the free list, the list covers memory: the number of pages is a multiple of its
\* word, what PagingProofs!AlignedFreePageFound asks for.  It stays so when the
\* memory size overflows, and for the default sizes.
WordsCoverMemory ==
    Started /\ pagesize \in Powers /\ pagesize * WordBits <= MegaByte =>
        numberOfPhysicalPages % WordBits = 0

\* "page size must be a power of two" (main.c:109, and the help, main.c:84).
PageSizeIsPowerOfTwo == Started => pagesize \in Powers
=============================================================================
