----------------------------- MODULE ArgsProofs -----------------------------
(***************************************************************************)
(* The checks of parseArgs imply the assertions of main for every width of *)
(* the integers, every command line and whatever the sizes overflow to;    *)
(* and what the simulation gets is what was asked for.                     *)
(***************************************************************************)
EXTENDS Args, OrderProofs

\* The strengthening: the sizes are numbers, whatever has been read, and the two
\* that parseArgs returns have passed its checks.
SizesChecked ==
    /\ argv \in CommandLines
    /\ memsize \in Int
    /\ pagesize \in Int
    /\ Started => pagesize > 0 /\ pagesize <= memsize /\ filename # NoName

\* An int holds a number: the cast of main.c:43 and the product of main.c:130.
LEMMA ToIntType == ASSUME NEW n \in Int PROVE ToInt(n) \in Int
PROOF
<1> DEFINE R == IntRange
           h == R \div 2
<1>1. R \in Nat /\ R > 0
  BY ArgsAssumption
<1>2. h \in Int
  BY <1>1
<1> HIDE DEF h, R
<1>3. (n + h) % R \in Int
  BY <1>1, <1>2
<1> QED
  BY <1>2, <1>3 DEF ToInt, h, R

\* What strtol and the cast leave of the text of a size.
LEMMA ParsedType == ASSUME NEW text \in Int \cup {NotANumber} PROVE Parsed(text) \in Int
PROOF
BY ToIntType DEF Parsed

\* Neither size loses its type in the conversion, and a page has a byte.
LEMMA BytesType ==
    ASSUME memsize \in Int, pagesize \in Int
    PROVE  MemoryBytes \in Int /\ PageBytes \in Int
PROOF
<1>1. MegaByte \in Int /\ DefaultPage \in Int
  BY ArgsAssumption
<1> DEFINE product == (IF memsize = 0 THEN 1 ELSE memsize) * MegaByte
<1>2. product \in Int
  BY <1>1
<1> HIDE DEF product
<1>3. ToInt(product) \in Int
  BY <1>2, ToIntType
<1> QED
  BY <1>1, <1>3 DEF MemoryBytes, PageBytes, product

LEMMA CheckedStep == SizesChecked /\ [Next]_vars => SizesChecked'
PROOF
<1> SUFFICES ASSUME SizesChecked, [Next]_vars PROVE SizesChecked'
  OBVIOUS
<1>1. argv \in CommandLines /\ memsize \in Int /\ pagesize \in Int
  BY DEF SizesChecked
<1>2. ASSUME NEW opt \in {"m", "p"}, Option(opt)
      PROVE  Parsed(argv[optind].val) \in Int /\ ~ Started
  <2>1. optind \in DOMAIN argv /\ argv[optind].opt = opt /\ pc = "options"
    BY <1>2 DEF Option, AtEnd
  <2>2. argv[optind].val \in Int \cup {NotANumber}
    BY <1>1, <2>1, ArgsAssumption
  <2> QED
    BY <2>1, <2>2, ParsedType DEF Started
<1>3. CASE ReadsMemorySize
  BY <1>1, <1>2, <1>3 DEF ReadsMemorySize, SizesChecked, Started
<1>4. CASE ReadsPageSize
  BY <1>1, <1>2, <1>4 DEF ReadsPageSize, SizesChecked, Started
<1>5. CASE ReadsName
  BY <1>1, <1>5 DEF ReadsName, Option, SizesChecked, Started
<1>6. CASE Exits
  BY <1>1, <1>6 DEF Exits, SizesChecked, Started
<1>7. CASE Accepts
  <2>1. /\ memsize' = MemoryBytes /\ pagesize' = PageBytes
        /\ argv' = argv /\ filename' = filename
        /\ ~ (pagesize < 0) /\ ~ (PageBytes > MemoryBytes) /\ filename # NoName
    BY <1>7 DEF Accepts, Refuses
  <2>2. MemoryBytes \in Int /\ PageBytes \in Int
    BY <1>1, BytesType
  <2>3. PageBytes > 0
    BY <1>1, <2>1, ArgsAssumption DEF PageBytes
  <2>4. PageBytes <= MemoryBytes
    BY <2>1, <2>2
  <2> QED
    BY <1>1, <2>1, <2>2, <2>3, <2>4 DEF SizesChecked
<1>8. CASE StartsRunning
  BY <1>8 DEF StartsRunning, SizesChecked, Started
<1>9. CASE UNCHANGED vars
  BY <1>9 DEF vars, SizesChecked, Started
<1>10. StopsAtOption \/ RefusesSizes \/ FailsToOpen => Exits
  BY DEF StopsAtOption, RefusesSizes, FailsToOpen
<1> QED
  BY <1>3, <1>4, <1>5, <1>6, <1>7, <1>8, <1>9, <1>10 DEF Next

\* main.c:160-165 hold in every build, also where the assertions are left out.
THEOREM AssertionsAlwaysHold == Spec => []AssertionsHold
PROOF
<1>1. Init => SizesChecked
  BY DEF Init, SizesChecked, Started
<1>2. SizesChecked => AssertionsHold
  <2> SUFFICES ASSUME SizesChecked, Started PROVE AssertionsHold
    BY DEF AssertionsHold
  <2>1. /\ memsize \in Int /\ pagesize \in Int
        /\ pagesize > 0 /\ pagesize <= memsize /\ filename # NoName
    BY DEF SizesChecked
  <2>2. memsize \div pagesize > 0
    BY <2>1
  <2> QED
    BY <2>1, <2>2 DEF AssertionsHold, numberOfPhysicalPages
<1> QED
  BY <1>1, <1>2, CheckedStep, PTL DEF Spec

-----------------------------------------------------------------------------
\* An int holds the numbers of its width as they are.
LEMMA ToIntKeeps == ASSUME NEW n \in Values(IntRange) PROVE ToInt(n) = n
PROOF
<1> DEFINE R == IntRange
           h == R \div 2
<1>1. R \in Nat /\ R > 0 /\ R % 2 = 0
  BY ArgsAssumption
<1>2. h \in Int /\ R = 2 * h
  BY <1>1
<1>3. n \in -h .. h - 1
  BY DEF Values
<1> HIDE DEF h, R
<1>4. (n + h) % R = n + h
  BY <1>1, <1>2, <1>3
<1> QED
  BY <1>2, <1>3, <1>4 DEF ToInt, h, R

\* A number of megabytes whose bytes fit an int fits an int.
LEMMA FactorFits ==
    ASSUME NEW n \in Int, n * MegaByte \in Values(IntRange)
    PROVE  n \in Values(IntRange)
PROOF
<1> DEFINE h == IntRange \div 2
           b == n * MegaByte
<1>1. h \in Int /\ MegaByte \in Int /\ MegaByte >= 1
  BY ArgsAssumption
<1>2. b \in Int
  BY <1>1
<1>3. n > 0 => n <= b
  BY <1>1
<1>4. n < 0 => b <= n
  BY <1>1
<1>5. -h <= b /\ b <= h - 1
  BY <1>1, <1>2 DEF Values
<1> HIDE DEF h, b
<1>6. -h <= n /\ n <= h - 1
  <2>1. 0 <= h - 1 /\ -h <= 0
    BY ArgsAssumption DEF h
  <2> QED
    BY <1>1, <1>2, <1>3, <1>4, <1>5, <2>1
<1> QED
  BY <1>1, <1>6 DEF Values, h

\* Word k is the last read so far that gives the option opt.
LastGiven(opt, k) ==
    /\ k \in 1 .. optind - 1
    /\ argv[k].opt = opt
    /\ \A j \in k + 1 .. optind - 1 : argv[j].opt # opt

NeverGiven(opt) == \A j \in 1 .. optind - 1 : argv[j].opt # opt

\* The strengthening: while options are read, the variables hold what the last of
\* each that has been read left in them, and no option refused has been.
OptionsFollowed ==
    /\ argv \in CommandLines
    /\ optind \in 1 .. Len(argv) + 1
    /\ \A j \in 1 .. optind - 1 : argv[j].opt \in {"m", "p", "name"}
    /\ pc = "options" =>
          /\ NeverGiven("m") => memsize = 0
          /\ NeverGiven("p") => pagesize = 0
          /\ NeverGiven("name") => filename = NoName
          /\ \A k : LastGiven("m", k) => memsize = Parsed(argv[k].val)
          /\ \A k : LastGiven("p", k) => pagesize = Parsed(argv[k].val)
          /\ \A k : LastGiven("name", k) => filename = argv[k].val
    /\ RunsAsAsked

LEMMA CommandLine ==
    ASSUME argv \in CommandLines
    PROVE  Len(argv) \in Nat /\ DOMAIN argv = 1 .. Len(argv)
BY ArgsAssumption

\* When an option has been read it is the last of its kind, and the last of the
\* other kinds are those they were.
LEMMA OneMoreRead ==
    ASSUME OptionsFollowed, NEW opt, Option(opt), argv' = argv, optind' = optind + 1
    PROVE  /\ optind' \in 1 .. Len(argv) + 1
           /\ argv[optind].opt = opt
           /\ \A j \in 1 .. optind' - 1 : j \in 1 .. optind - 1 \/ j = optind
           /\ ~ NeverGiven(opt)'
           /\ \A k : LastGiven(opt, k)' => k = optind
           /\ \A other : other # opt =>
                 /\ NeverGiven(other)' => NeverGiven(other)
                 /\ \A k : LastGiven(other, k)' => LastGiven(other, k)
PROOF
<1>1. /\ optind \in 1 .. Len(argv) + 1 /\ Len(argv) \in Nat
      /\ DOMAIN argv = 1 .. Len(argv)
  BY CommandLine DEF OptionsFollowed
<1>2. optind \in 1 .. Len(argv) /\ argv[optind].opt = opt
  BY <1>1 DEF Option, AtEnd
<1>3. \A j \in 1 .. optind' - 1 : j \in 1 .. optind - 1 \/ j = optind
  BY <1>1
<1>4. optind \in 1 .. optind' - 1 /\ 1 .. optind - 1 \subseteq 1 .. optind' - 1
  BY <1>1
<1>5. ~ NeverGiven(opt)'
  BY <1>2, <1>4 DEF NeverGiven
<1>6. ASSUME NEW k, LastGiven(opt, k)' PROVE k = optind
  <2>1. k \in 1 .. optind' - 1 /\ \A j \in k + 1 .. optind' - 1 : argv[j].opt # opt
    BY <1>6 DEF LastGiven
  <2>2. k < optind => optind \in k + 1 .. optind' - 1
    BY <1>1, <2>1
  <2> QED
    BY <1>1, <1>2, <1>3, <2>1, <2>2
<1>7. ASSUME NEW other, other # opt
      PROVE  /\ NeverGiven(other)' => NeverGiven(other)
             /\ \A k : LastGiven(other, k)' => LastGiven(other, k)
  <2>1. NeverGiven(other)' => NeverGiven(other)
    BY <1>4 DEF NeverGiven
  <2>2. ASSUME NEW k, LastGiven(other, k)' PROVE LastGiven(other, k)
    <3>1. /\ k \in 1 .. optind' - 1 /\ argv[k].opt = other
          /\ \A j \in k + 1 .. optind' - 1 : argv[j].opt # other
      BY <2>2 DEF LastGiven
    <3>2. k # optind
      BY <1>2, <1>7, <3>1
    <3>3. k \in 1 .. optind - 1
      BY <1>3, <3>1, <3>2
    <3>4. \A j \in k + 1 .. optind - 1 : j \in k + 1 .. optind' - 1
      BY <1>1
    <3> QED
      BY <3>1, <3>3, <3>4 DEF LastGiven
  <2> QED
    BY <2>1, <2>2
<1> QED
  BY <1>1, <1>2, <1>3, <1>5, <1>6, <1>7

\* What has been asked for once all options have been read.
LEMMA AskedIsLast ==
    ASSUME OptionsFollowed, AtEnd, NEW opt \in {"m", "p", "name"}, NEW default
    PROVE  /\ OptionsRead = 1 .. optind - 1
           /\ NeverGiven(opt) => Asked(opt, default) = default
           /\ ~ NeverGiven(opt) =>
                 \E k : LastGiven(opt, k) /\ Asked(opt, default) = argv[k].val
PROOF
<1>1. /\ optind \in 1 .. Len(argv) + 1 /\ Len(argv) \in Nat
      /\ DOMAIN argv = 1 .. Len(argv)
      /\ \A j \in 1 .. optind - 1 : argv[j].opt # "end"
  BY CommandLine DEF OptionsFollowed
<1>2. OptionsRead = 1 .. optind - 1
  <2>1. ASSUME NEW k \in 1 .. optind - 1 PROVE k \in OptionsRead
    <3>1. k \in DOMAIN argv /\ \A j \in 1 .. k : j \in 1 .. optind - 1
      BY <1>1
    <3> QED
      BY <1>1, <3>1 DEF OptionsRead
  <2>2. ASSUME NEW k \in OptionsRead PROVE k \in 1 .. optind - 1
    <3>1. k \in 1 .. Len(argv) /\ \A j \in 1 .. k : argv[j].opt # "end"
      BY <1>1 DEF OptionsRead
    <3>2. CASE k >= optind
      <4>1. optind \in 1 .. k /\ optind \in DOMAIN argv
        BY <1>1, <3>1, <3>2
      <4> QED
        BY <3>1, <4>1 DEF AtEnd
    <3>3. CASE k < optind
      BY <1>1, <3>1, <3>3
    <3> QED
      BY <1>1, <3>1, <3>2, <3>3
  <2> QED
    BY <2>1, <2>2
<1> DEFINE given == {k \in OptionsRead : argv[k].opt = opt}
<1>3. NeverGiven(opt) => given = {}
  BY <1>2 DEF NeverGiven
<1>4. ASSUME ~ NeverGiven(opt)
      PROVE  given # {} /\ LastGiven(opt, Max(given))
  <2>1. given # {} /\ given \subseteq 1 .. optind - 1
    BY <1>2, <1>4 DEF NeverGiven
  <2>2. optind - 1 \in Int /\ given \in SUBSET Int /\ \A y \in given : y <= optind - 1
    BY <1>1, <2>1
  <2> DEFINE last == Max(given)
  <2>3. last \in given /\ \A y \in given : y <= last
    <3> HIDE DEF given
    <3> QED
      BY <2>1, <2>2, MaxUpTo
  <2> HIDE DEF last
  <2>4. last \in 1 .. optind - 1 /\ argv[last].opt = opt
    BY <2>1, <2>3
  <2>5. ASSUME NEW j \in last + 1 .. optind - 1 PROVE argv[j].opt # opt
    <3>1. j \in 1 .. optind - 1 /\ ~ (j <= last)
      BY <1>1, <2>4
    <3> QED
      BY <1>2, <2>3, <3>1
  <2>6. LastGiven(opt, last)
    BY <2>4, <2>5 DEF LastGiven
  <2> QED
    BY <2>1, <2>6 DEF last
<1>5. Asked(opt, default) =
          IF given = {} THEN default ELSE argv[Max(given)].val
  BY DEF Asked
<1> HIDE DEF given
<1> QED
  BY <1>2, <1>3, <1>4, <1>5

\* What the options say, once read, is what parseArgs makes of the sizes
\* (main.c:108-137).
LEMMA SizesAsAsked ==
    ASSUME OptionsFollowed, AtEnd, pc = "options"
    PROVE  /\ Asked("m", 1) # NotANumber /\ FitsInt(Asked("m", 1) * MegaByte)
                 => MemoryBytes = Asked("m", 1) * MegaByte
           /\ Asked("p", DefaultPage) # NotANumber /\ FitsInt(Asked("p", DefaultPage))
                 => PageBytes = Asked("p", DefaultPage)
           /\ filename = Asked("name", NoName)
           /\ \A k \in OptionsRead : argv[k].opt \notin {"h", "?"}
PROOF
<1> DEFINE megabytes == Asked("m", 1)
           page == Asked("p", DefaultPage)
<1>0. /\ DOMAIN argv = 1 .. Len(argv)
      /\ \A k : LastGiven("m", k) \/ LastGiven("p", k) \/ LastGiven("name", k)
                   => k \in DOMAIN argv
  <2>1. optind \in 1 .. Len(argv) + 1 /\ Len(argv) \in Nat /\ DOMAIN argv = 1 .. Len(argv)
    BY CommandLine DEF OptionsFollowed
  <2>2. \A k \in 1 .. optind - 1 : k \in DOMAIN argv
    BY <2>1
  <2> QED
    BY <2>1, <2>2 DEF LastGiven
<1>1. ASSUME megabytes # NotANumber, FitsInt(megabytes * MegaByte)
      PROVE  MemoryBytes = megabytes * MegaByte
  <2>1. megabytes * MegaByte \in Values(IntRange) /\ megabytes * MegaByte # 0
    BY <1>1 DEF FitsInt
  <2> SUFFICES (IF memsize = 0 THEN 1 ELSE memsize) = megabytes
    BY <2>1, ToIntKeeps DEF MemoryBytes
  <2>2. CASE NeverGiven("m")
    BY <2>2, AskedIsLast DEF OptionsFollowed
  <2>3. CASE ~ NeverGiven("m")
    <3>1. PICK k : LastGiven("m", k) /\ megabytes = argv[k].val
      BY <2>3, AskedIsLast
    <3>2. memsize = Parsed(argv[k].val)
      BY <3>1 DEF OptionsFollowed
    <3>3. megabytes \in Int
      BY <1>0, <1>1, <3>1, ArgsAssumption DEF LastGiven, OptionsFollowed
    <3> HIDE DEF megabytes
    <3>4. megabytes # 0
      BY <2>1, <3>3, ArgsAssumption
    <3>5. megabytes \in Values(IntRange)
      BY <2>1, <3>3, FactorFits
    <3>6. Parsed(argv[k].val) = megabytes
      BY <1>1, <3>1, <3>5, ToIntKeeps DEF Parsed
    <3> QED
      BY <3>2, <3>4, <3>6
  <2> QED
    BY <2>2, <2>3
<1>2. ASSUME page # NotANumber, FitsInt(page)
      PROVE  PageBytes = page
  <2>1. CASE NeverGiven("p")
    BY <2>1, AskedIsLast DEF OptionsFollowed, PageBytes
  <2>2. CASE ~ NeverGiven("p")
    <3>1. PICK k : LastGiven("p", k) /\ page = argv[k].val
      BY <2>2, AskedIsLast
    <3>2. pagesize = Parsed(argv[k].val)
      BY <3>1 DEF OptionsFollowed
    <3> HIDE DEF page
    <3>3. page \in Values(IntRange) /\ page # 0
      BY <1>2 DEF FitsInt
    <3>4. Parsed(argv[k].val) = page
      BY <1>2, <3>1, <3>3, ToIntKeeps DEF Parsed
    <3> QED
      BY <3>2, <3>3, <3>4 DEF PageBytes
  <2> QED
    BY <2>1, <2>2
<1>3. filename = Asked("name", NoName)
  <2>1. CASE NeverGiven("name")
    BY <2>1, AskedIsLast DEF OptionsFollowed
  <2>2. CASE ~ NeverGiven("name")
    <3>1. PICK k : LastGiven("name", k) /\ Asked("name", NoName) = argv[k].val
      BY <2>2, AskedIsLast
    <3> QED
      BY <3>1 DEF OptionsFollowed
  <2> QED
    BY <2>1, <2>2
<1>4. \A k \in OptionsRead : argv[k].opt \notin {"h", "?"}
  <2>1. OptionsRead = 1 .. optind - 1
    BY AskedIsLast
  <2> QED
    BY <2>1 DEF OptionsFollowed
<1> QED
  BY <1>1, <1>2, <1>3, <1>4

LEMMA FollowedStep == OptionsFollowed /\ [Next]_vars => OptionsFollowed'
PROOF
<1> SUFFICES ASSUME OptionsFollowed, [Next]_vars PROVE OptionsFollowed'
  OBVIOUS
<1>1. CASE ReadsMemorySize
  <2>1. /\ Option("m") /\ pc = "options" /\ pc' = "options"
        /\ argv' = argv /\ optind' = optind + 1
        /\ memsize' = Parsed(argv[optind].val)
        /\ pagesize' = pagesize /\ filename' = filename
    BY <1>1 DEF ReadsMemorySize, Option
  <2>2. RunsAsAsked'
    BY <2>1 DEF RunsAsAsked, Started
  <2>3. optind' \in 1 .. Len(argv)' + 1 /\ argv' \in CommandLines
    BY <2>1, OneMoreRead DEF OptionsFollowed
  <2>4. \A j \in 1 .. optind' - 1 : argv[j].opt \in {"m", "p", "name"}
    BY <2>1, OneMoreRead DEF OptionsFollowed
  <2>5. /\ ~ NeverGiven("m")'
        /\ NeverGiven("p")' => pagesize = 0
        /\ NeverGiven("name")' => filename = NoName
        /\ \A k : LastGiven("m", k)' => memsize' = Parsed(argv[k].val)
        /\ \A k : LastGiven("p", k)' => pagesize = Parsed(argv[k].val)
        /\ \A k : LastGiven("name", k)' => filename = argv[k].val
    BY <2>1, OneMoreRead DEF OptionsFollowed
  <2> QED
    BY <2>1, <2>2, <2>3, <2>4, <2>5 DEF OptionsFollowed
<1>2. CASE ReadsPageSize
  <2>1. /\ Option("p") /\ pc = "options" /\ pc' = "options"
        /\ argv' = argv /\ optind' = optind + 1
        /\ pagesize' = Parsed(argv[optind].val)
        /\ memsize' = memsize /\ filename' = filename
    BY <1>2 DEF ReadsPageSize, Option
  <2>2. RunsAsAsked'
    BY <2>1 DEF RunsAsAsked, Started
  <2>3. optind' \in 1 .. Len(argv)' + 1 /\ argv' \in CommandLines
    BY <2>1, OneMoreRead DEF OptionsFollowed
  <2>4. \A j \in 1 .. optind' - 1 : argv[j].opt \in {"m", "p", "name"}
    BY <2>1, OneMoreRead DEF OptionsFollowed
  <2>5. /\ ~ NeverGiven("p")'
        /\ NeverGiven("m")' => memsize = 0
        /\ NeverGiven("name")' => filename = NoName
        /\ \A k : LastGiven("m", k)' => memsize = Parsed(argv[k].val)
        /\ \A k : LastGiven("p", k)' => pagesize' = Parsed(argv[k].val)
        /\ \A k : LastGiven("name", k)' => filename = argv[k].val
    BY <2>1, OneMoreRead DEF OptionsFollowed
  <2> QED
    BY <2>1, <2>2, <2>3, <2>4, <2>5 DEF OptionsFollowed
<1>3. CASE ReadsName
  <2>1. /\ Option("name") /\ pc = "options" /\ pc' = "options"
        /\ argv' = argv /\ optind' = optind + 1
        /\ filename' = argv[optind].val
        /\ memsize' = memsize /\ pagesize' = pagesize
    BY <1>3 DEF ReadsName, Option
  <2>2. RunsAsAsked'
    BY <2>1 DEF RunsAsAsked, Started
  <2>3. optind' \in 1 .. Len(argv)' + 1 /\ argv' \in CommandLines
    BY <2>1, OneMoreRead DEF OptionsFollowed
  <2>4. \A j \in 1 .. optind' - 1 : argv[j].opt \in {"m", "p", "name"}
    BY <2>1, OneMoreRead DEF OptionsFollowed
  <2>5. /\ ~ NeverGiven("name")'
        /\ NeverGiven("m")' => memsize = 0
        /\ NeverGiven("p")' => pagesize = 0
        /\ \A k : LastGiven("m", k)' => memsize = Parsed(argv[k].val)
        /\ \A k : LastGiven("p", k)' => pagesize = Parsed(argv[k].val)
        /\ \A k : LastGiven("name", k)' => filename' = argv[k].val
    BY <2>1, OneMoreRead DEF OptionsFollowed
  <2> QED
    BY <2>1, <2>2, <2>3, <2>4, <2>5 DEF OptionsFollowed
<1>4. CASE Exits
  BY <1>4 DEF Exits, OptionsFollowed, RunsAsAsked, Started
<1>5. CASE Accepts
  <2>1. /\ pc = "options" /\ AtEnd /\ pc' = "main"
        /\ memsize' = MemoryBytes /\ pagesize' = PageBytes
        /\ argv' = argv /\ optind' = optind /\ filename' = filename
    BY <1>5 DEF Accepts
  <2>2. OptionsRead' = OptionsRead /\ \A opt, default : Asked(opt, default)' = Asked(opt, default)
    BY <2>1 DEF OptionsRead, Asked
  <2>3. RunsAsAsked'
    BY <2>1, <2>2, SizesAsAsked DEF RunsAsAsked, FitsInt, Values
  <2> QED
    BY <2>1, <2>3 DEF OptionsFollowed
<1>6. CASE StartsRunning
  <2>1. /\ Started /\ pc' = "running"
        /\ UNCHANGED <<argv, optind, memsize, pagesize, filename>>
    BY <1>6 DEF StartsRunning, Started
  <2>2. OptionsRead' = OptionsRead /\ \A opt, default : Asked(opt, default)' = Asked(opt, default)
    BY <2>1 DEF OptionsRead, Asked
  <2>3. RunsAsAsked'
    BY <2>1, <2>2 DEF RunsAsAsked, OptionsFollowed
  <2> QED
    BY <2>1, <2>3 DEF OptionsFollowed
<1>7. CASE UNCHANGED vars
  BY <1>7 DEF vars, OptionsFollowed, RunsAsAsked, Started, NeverGiven, LastGiven, OptionsRead, Asked
<1>8. StopsAtOption \/ RefusesSizes \/ FailsToOpen => Exits
  BY DEF StopsAtOption, RefusesSizes, FailsToOpen
<1> QED
  BY <1>1, <1>2, <1>3, <1>4, <1>5, <1>6, <1>7, <1>8 DEF Next

\* The simulation gets what the command line asks for, in whatever order and
\* however often, whenever the sizes in bytes fit an int (main.c:38-137).
THEOREM RunIsAsAsked == Spec => []RunsAsAsked
PROOF
<1>1. Init => OptionsFollowed
  <2> SUFFICES ASSUME Init PROVE OptionsFollowed
    OBVIOUS
  <2>1. optind = 1 /\ argv \in CommandLines /\ pc = "options" /\ 1 .. optind - 1 = {}
    BY DEF Init
  <2>2. Len(argv) \in Nat
    BY <2>1, CommandLine
  <2>3. \A opt, k : ~ LastGiven(opt, k)
    BY <2>1 DEF LastGiven
  <2>4. memsize = 0 /\ pagesize = 0 /\ filename = NoName
    BY DEF Init
  <2>5. RunsAsAsked
    BY <2>1 DEF RunsAsAsked, Started
  <2> QED
    BY <2>1, <2>2, <2>3, <2>4, <2>5 DEF OptionsFollowed
<1>2. OptionsFollowed => RunsAsAsked
  BY DEF OptionsFollowed
<1> QED
  BY <1>1, <1>2, FollowedStep, PTL DEF Spec

-----------------------------------------------------------------------------
\* What powers of two give: a megabyte is a whole number of words' worth of pages
\* of each size the help message allows, and an int wraps at whole megabytes.  It
\* holds of the code's 0x100000 bytes, words of 32 bits and ints of 32 bits.
WholeWords ==
    /\ IntRange % MegaByte = 0
    /\ \A page \in Powers : page * WordBits <= MegaByte => MegaByte % (page * WordBits) = 0

\* A number is a multiple of its divisors.
LEMMA MultipleOf ==
    ASSUME NEW d \in Nat \ {0}, NEW n \in Int, n % d = 0
    PROVE  n = d * (n \div d) /\ n \div d \in Int
OBVIOUS

LEMMA QuotientOf ==
    ASSUME NEW d \in Nat \ {0}, NEW x \in Int
    PROVE  (d * x) \div d = x /\ (d * x) % d = 0
PROOF
<1> DEFINE n == d * x
           q == n \div d
<1>1. n \in Int /\ q \in Int /\ n % d \in 0 .. d - 1 /\ n = d * q + (n % d)
  OBVIOUS
<1>2. d * (x - q) = n % d
  BY <1>1
<1>3. x - q \in Int
  BY <1>1
<1>4. x - q < 1
  <2>1. x - q >= 1 => d * (x - q) >= d
    BY <1>3
  <2> QED
    BY <1>1, <1>2, <1>3, <2>1
<1>5. x - q > -1
  <2>1. x - q <= -1 => d * (x - q) <= -d
    BY <1>3
  <2> QED
    BY <1>1, <1>2, <1>3, <2>1
<1>6. q = x
  BY <1>1, <1>3, <1>4, <1>5
<1> QED
  BY <1>1, <1>2, <1>6

\* Whatever the product of main.c:130 wraps to, it is a whole number of megabytes.
LEMMA WholeMegabytes ==
    ASSUME WholeWords, NEW k \in Int
    PROVE  \E j \in Int : ToInt(k * MegaByte) = MegaByte * j
PROOF
<1> DEFINE R == IntRange
           M == MegaByte
           h == R \div 2
           c == R \div M
           n == k * M
           t == (n + h) \div R
<1>1. R \in Nat \ {0} /\ M \in Nat \ {0} /\ h \in Int
  BY ArgsAssumption
<1>2. R = M * c /\ c \in Int
  BY <1>1, MultipleOf DEF WholeWords
<1>3. n \in Int /\ n + h \in Int /\ n = M * k
  BY <1>1
<1>4. ToInt(n) = ((n + h) % R) - h
  BY DEF ToInt
<1> HIDE DEF R, M, h, c, n
<1>5. t \in Int /\ (n + h) % R = (n + h) - R * t
  BY <1>1, <1>3
<1> HIDE DEF t
<1>6. R * t = M * (c * t) /\ c * t \in Int
  BY <1>1, <1>2, <1>5
<1>7. ToInt(n) = n - R * t
  BY <1>1, <1>3, <1>4, <1>5
<1>8. ToInt(n) = M * (k - c * t)
  BY <1>1, <1>3, <1>6, <1>7
<1>9. k - c * t \in Int
  BY <1>6
<1> QED
  BY <1>8, <1>9 DEF n, M

\* The strengthening of WordsCoverMemory, beside SizesChecked: memory is a whole
\* number of megabytes, whatever overflowed.
MemoryInMegabytes == Started => \E j \in Int : memsize = MegaByte * j

LEMMA MegabytesStep ==
    ASSUME WholeWords
    PROVE  SizesChecked /\ MemoryInMegabytes /\ [Next]_vars => MemoryInMegabytes'
PROOF
<1> SUFFICES ASSUME SizesChecked, MemoryInMegabytes, [Next]_vars PROVE MemoryInMegabytes'
  OBVIOUS
<1>1. CASE Accepts
  <2> DEFINE k == IF memsize = 0 THEN 1 ELSE memsize
  <2>1. k \in Int
    BY DEF SizesChecked
  <2>2. memsize' = ToInt(k * MegaByte)
    BY <1>1 DEF Accepts, MemoryBytes
  <2> HIDE DEF k
  <2>3. \E j \in Int : memsize' = MegaByte * j
    BY <2>1, <2>2, WholeMegabytes
  <2> QED
    BY <2>3 DEF MemoryInMegabytes
<1>2. CASE ReadsMemorySize \/ ReadsPageSize \/ ReadsName
  BY <1>2 DEF ReadsMemorySize, ReadsPageSize, ReadsName, Option, MemoryInMegabytes, Started
<1>3. CASE StopsAtOption \/ RefusesSizes \/ FailsToOpen
  BY <1>3 DEF StopsAtOption, RefusesSizes, FailsToOpen, Exits, MemoryInMegabytes, Started
<1>4. CASE StartsRunning
  BY <1>4 DEF StartsRunning, MemoryInMegabytes, Started
<1>5. CASE UNCHANGED vars
  BY <1>5 DEF vars, MemoryInMegabytes, Started
<1> QED
  BY <1>1, <1>2, <1>3, <1>4, <1>5 DEF Next

\* A whole number of megabytes has a whole number of words' worth of pages.
LEMMA MegabytesInWords ==
    ASSUME WholeWords, SizesChecked, MemoryInMegabytes
    PROVE  WordsCoverMemory
PROOF
<1> SUFFICES ASSUME Started, pagesize \in Powers, pagesize * WordBits <= MegaByte
             PROVE  (memsize \div pagesize) % WordBits = 0
  BY DEF WordsCoverMemory, numberOfPhysicalPages
<1> DEFINE p == pagesize
           w == WordBits
           b == MegaByte \div (p * w)
<1>1. p \in Nat \ {0} /\ w \in Nat \ {0} /\ MegaByte \in Int
  BY ArgsAssumption DEF SizesChecked
<1>2. p * w \in Nat \ {0}
  BY <1>1
<1>3. MegaByte = (p * w) * b /\ b \in Int
  BY <1>1, <1>2, MultipleOf DEF WholeWords
<1>4. PICK j \in Int : memsize = MegaByte * j
  BY DEF MemoryInMegabytes
<1> HIDE DEF p, w, b
<1>5. b * j \in Int /\ w * (b * j) \in Int
  BY <1>1, <1>3
<1>6. memsize = p * (w * (b * j))
  BY <1>1, <1>3, <1>4
<1>7. memsize \div p = w * (b * j)
  BY <1>1, <1>5, <1>6, QuotientOf
<1> QED
  BY <1>1, <1>5, <1>7, QuotientOf DEF p, w

\* With sizes that are powers of two, as they are in the code, the free list covers
\* the whole of every memory with pages of up to 32768 bytes (memory.c:66).
THEOREM WordsAlwaysCover ==
    ASSUME WholeWords
    PROVE  Spec => []WordsCoverMemory
PROOF
<1>1. Init => SizesChecked /\ MemoryInMegabytes
  BY DEF Init, SizesChecked, MemoryInMegabytes, Started
<1>2. SizesChecked /\ MemoryInMegabytes /\ [Next]_vars => SizesChecked' /\ MemoryInMegabytes'
  BY CheckedStep, MegabytesStep
<1>3. SizesChecked /\ MemoryInMegabytes => WordsCoverMemory
  BY MegabytesInWords
<1> QED
  BY <1>1, <1>2, <1>3, PTL DEF Spec
=============================================================================
