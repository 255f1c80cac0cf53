----------------------------- MODULE TraceParser -----------------------------
(***************************************************************************)
(* The first pass over the trace file, after first_pass in                 *)
(* src/trace_parser.c: one action is one turn of its loop, with the        *)
(* search of the map from pids to processes, Process_init and it_insert.   *)
(*                                                                         *)
(* A file is a sequence of lines, a line being what one fscanf consumes:   *)
(* <<pid, vpn>>, <<pid, NoVpn>> where no number follows the pid (the next  *)
(* line's does: the format runs over the newline), or Unreadable where     *)
(* there is no number at all.  pids are unsigned long, but the map         *)
(* compares them as ints: it cannot tell pids apart that agree modulo      *)
(* IntRange.                                                               *)
(***************************************************************************)
EXTENDS TraceFile, IntervalTree

CONSTANTS
    Files,          \* the trace files
    IntRange,       \* the values of an int (2^32 in the code)
    Unreadable,     \* a line that does not start with a number
    NoVpn           \* the page number that is missing after a pid

ASSUME TraceParserAssumption ==
    /\ IntRange \in Nat \ {0}
    /\ Files \subseteq Seq({Unreadable} \cup (Nat \X (Nat \cup {NoVpn})))

VARIABLES
    file,               \* the lines of the file
    fpos,               \* the position of the file
    pid,                \* the pid of the line before, 0 before the first
    curr_pid,           \* the pid last read; a read that fails leaves it
    curr_line_number,
    start_line_number,  \* where the current interval starts, as a line
    start_fpos,         \* and as a position
    procs,              \* the processes, by their key in the map
    runnable,           \* the RUNNABLE queue: the keys of its processes
    pc                  \* "reading", "done" or "invalid format"

vars == <<file, fpos, pid, curr_pid, curr_line_number, start_line_number,
          start_fpos, procs, runnable, pc>>

\* What make_PidMap, which takes an int, keeps of a pid.
PidKey(p) == p % IntRange

\* What the stack holds in the place of curr_pid is not defined: 0 or not.
Init ==
    /\ file \in Files
    /\ fpos = StartOf(1)
    /\ pid = 0
    /\ curr_pid \in {0, 1}
    /\ curr_line_number = 1
    /\ start_line_number = 1
    /\ start_fpos = StartOf(1)
    /\ procs = << >>
    /\ runnable = << >>
    /\ pc = "reading"

-----------------------------------------------------------------------------
\* Slips in the functions below, for the mutation checks.
RunIsOverByPid(read) == pid # 0 /\ read # pid
AppendKeepsLast(p, node) == [p EXCEPT !.lineIntervals = it_insert(@, node)]
LastLineRead == curr_line_number

-----------------------------------------------------------------------------
\* The number of items fscanf reads at the current line, and the pid it leaves
\* behind.  The loop asks only whether there was one: a pid alone is a line too.
AtEnd == curr_line_number > Len(file)
fscanf_result ==
    IF AtEnd THEN -1
    ELSE IF file[curr_line_number] = Unreadable THEN 0
    ELSE IF file[curr_line_number][2] = NoVpn THEN 1
    ELSE 2
Matches == fscanf_result > 0
PidRead == IF Matches THEN file[curr_line_number][1] ELSE curr_pid

\* The interval that ends before the current line.
LastLine == curr_line_number - 1
IntervalEnded == it_initnode(start_line_number, LastLine, start_fpos)

Process_init(first, last, node) ==
    [firstline     |-> first,
     currentline   |-> first,
     lastline      |-> last,
     currentPos    |-> node.fpos_start,
     lineIntervals |-> SingleNode(node)]

AppendInterval(p, node) ==
    [p EXCEPT !.lastline = IF @ < LastLine THEN LastLine ELSE @,
              !.lineIntervals = it_insert(@, node)]

RunIsOver(read) == pid # 0 /\ (read # pid \/ ~ Matches)

Reading == pc = "reading"
\* A slip in the next definition, for the mutation checks.
ZeroAlsoAtEnd == PidRead = 0
PidIsZero == PidRead = 0 /\ fscanf_result >= 0

\* "Invalid trace file format": the program exits.
RejectsLine ==
    /\ Reading
    /\ PidIsZero
    /\ pc' = "invalid format"
    /\ curr_pid' = PidRead
    /\ fpos' = IF Matches THEN EndOf(curr_line_number) ELSE fpos
    /\ UNCHANGED <<file, pid, curr_line_number, start_line_number, start_fpos,
                   procs, runnable>>

\* The end of a turn: the loop goes on after every line it could read.
NextLine ==
    /\ Reading
    /\ ~ PidIsZero
    /\ pid' = PidRead
    /\ curr_pid' = PidRead
    /\ fpos' = IF Matches THEN EndOf(curr_line_number) ELSE fpos
    /\ curr_line_number' = curr_line_number + 1
    /\ pc' = IF Matches THEN "reading" ELSE "done"
    /\ UNCHANGED file

StaysInInterval ==
    /\ NextLine
    /\ ~ RunIsOver(PidRead)
    /\ UNCHANGED <<start_line_number, start_fpos, procs, runnable>>

\* A slip in the next definition, for the mutation checks.
StartsAfterRead ==
    /\ NextLine
    /\ RunIsOver(PidRead)
    /\ start_line_number' = curr_line_number
    /\ start_fpos' = fpos'

\* The next interval starts at the current line, where the file was before the read.
EndsInterval ==
    /\ NextLine
    /\ RunIsOver(PidRead)
    /\ start_line_number' = curr_line_number
    /\ start_fpos' = fpos

AddsProcess ==
    LET key == PidKey(pid)
    IN  /\ EndsInterval
        /\ key \notin DOMAIN procs
        /\ procs' = [k \in DOMAIN procs \cup {key} |->
                        IF k = key
                        THEN Process_init(start_line_number, LastLine, IntervalEnded)
                        ELSE procs[k]]
        /\ runnable' = Append(runnable, key)

AddsInterval ==
    LET key == PidKey(pid)
    IN  /\ EndsInterval
        /\ key \in DOMAIN procs
        /\ procs' = [procs EXCEPT ![key] = AppendInterval(@, IntervalEnded)]
        /\ UNCHANGED runnable

\* The simulation begins, or the program has exited.
PassOver == pc # "reading" /\ UNCHANGED vars

Next == RejectsLine \/ StaysInInterval \/ AddsProcess \/ AddsInterval \/ PassOver

\* A single thread that waits for nothing outside itself keeps taking steps.
Spec == Init /\ [][Next]_vars /\ WF_vars(Next)

-----------------------------------------------------------------------------
\* The lines fscanf reads: a line it cannot read ends the pass, as if the file
\* ended there.
LinesRead ==
    SubSeq(file, 1, Min({k \in DOMAIN file : file[k] = Unreadable} \cup {Len(file) + 1}) - 1)

Keys == {PidKey(LinesRead[k][1]) : k \in DOMAIN LinesRead}

\* The lines of a process in the intervals that have ended.
LinesKnown(key) ==
    {k \in 1 .. start_line_number - 1 : PidKey(LinesRead[k][1]) = key}

\* Every variable holds a value of its kind.
TraceParserTypeOK ==
    /\ fpos \in Nat /\ pid \in Nat /\ curr_pid \in Nat
    /\ curr_line_number \in 1 .. Len(file) + 2
    /\ start_line_number \in 1 .. curr_line_number
    /\ start_fpos \in Nat
    /\ DOMAIN procs \subseteq Keys
    /\ runnable \in Seq(Keys)
    /\ pc \in {"reading", "done", "invalid format"}
    /\ \A key \in DOMAIN procs : \A path \in DOMAIN procs[key].lineIntervals :
          LET node == procs[key].lineIntervals[path]
          IN  node \in NodeType /\ node.low <= node.high

\* Every line seen so far is found in the tree of one process, that of its pid,
\* by the search of intervaltree.c: no line is lost or given to two processes when
\* pids come and go, whatever ended the interval (trace_parser.c:105-147).
LinesAreShared ==
    \A k \in 1 .. start_line_number - 1 : \A key \in DOMAIN procs :
        it_find_bool(procs[key].lineIntervals, k) <=> PidKey(LinesRead[k][1]) = key

\* A process starts at its first line and is known to end at its last so far,
\* although its intervals arrive one by one (trace_parser.c:123-140).
KnowsFirstAndLast ==
    \A key \in DOMAIN procs :
        /\ procs[key].firstline = Min(LinesKnown(key))
        /\ procs[key].lastline = Max(LinesKnown(key))
        /\ procs[key].currentPos = FposStart(procs[key].firstline)

\* What the simulator makes of a tree: the nodes met from the root by following
\* right pointers (Process_jumpToNextInterval).
RightSpine(t) ==
    LET depth == Cardinality({path \in DOMAIN t : "L" \notin Range(path)})
        node(n) == t[[i \in 1 .. n - 1 |-> "R"]]
    IN  [n \in 1 .. depth |-> [low        |-> node(n).low,
                               high       |-> node(n).high,
                               fpos_start |-> node(n).fpos_start]]

Pass == INSTANCE FirstPass WITH
    Owner     <- PidKey,
    trace     <- LinesRead,
    cut       <- LinesRead # file,
    intervals <- [key \in DOMAIN procs |-> RightSpine(procs[key].lineIntervals)],
    failed    <- pc = "invalid format"

\* At every step the pass knows just what TraceFile defines for the lines before
\* the open interval, whatever the lines are: each process's intervals on the
\* right spine of its tree, none anywhere else, and RUNNABLE in the order of first
\* lines; and it gives up at a line with pid 0, or possibly when the first line
\* cannot be read, and at no other (trace_parser.c:63-155).
ImplementsFirstPass == Pass!Spec

\* The pass does not stop before the last line that can be read, unless with an
\* error: the interval that ends with the file is known as well
\* (trace_parser.c:105, 152).
PassEnds == Pass!Ends

\* When every pid is within an int the simulator starts from what Simulator's Init
\* says: the intervals of TraceFile on the right spines, RUNNABLE, and each
\* process on the first line of its first interval and at its position
\* (trace_parser.c:133-147, process.c:177-200).
HandsOver ==
    pc = "done" /\ (\A k \in DOMAIN LinesRead : PidKey(LinesRead[k][1]) = LinesRead[k][1]) =>
        /\ DOMAIN procs = PidsOf(LinesRead)
        /\ runnable = FirstRunnable(LinesRead)
        /\ \A p \in DOMAIN procs :
              LET intervals == LineIntervals(LinesRead, p)
              IN  /\ RightSpine(procs[p].lineIntervals) = intervals
                  /\ procs[p].currentline = intervals[1].low
                  /\ procs[p].currentPos = intervals[1].fpos_start
=============================================================================
