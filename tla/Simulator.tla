------------------------------ MODULE Simulator ------------------------------
(***************************************************************************)
(* The simulation, after src/simulator.c with the scheduling half of       *)
(* src/process.c and the counters of src/stat.c.  One step of the main     *)
(* action is one turn of the loop in Simulator_runSimulation, with all the *)
(* calls that turn makes; Process_quit's loop over the page table takes a  *)
(* step for each page.  The program is one thread.                         *)
(***************************************************************************)
EXTENDS Paging, TraceFile

CONSTANTS
    Traces,         \* the trace files
    DiskPenalty,    \* DISK_PENALTY, in ticks (2000000 in the code)
    NoProc          \* the NULL Process pointer

ASSUME SimulatorAssumption ==
    /\ Traces \subseteq Seq(VPages)
    /\ DiskPenalty \in Nat \ {0}
    /\ NoProc \notin Pids

VARIABLES
    trace,          \* the lines of the trace file
    lineIntervals,  \* Process.lineIntervals, by pid
    queue,          \* pq: the processes of each status, in order
    proc,           \* the fields of Process that say where in the file it is, and waitTime
    curr,           \* p, the process the main loop holds
    fpos,           \* the position of the trace file
    time,           \* simulated time, in ticks
    stats,          \* ProgStats
    pc              \* "loop", "done", or the error exit taken

fileVars == <<trace, lineIntervals>>
vars == <<pagingVars, fileVars, queue, proc, curr, fpos, time, stats, pc>>

QueueNames == {"RUNNABLE", "BLOCKED", "FINISHED"}

Process_init(p) ==
    IF lineIntervals[p] = << >>
    THEN [currentline |-> 0, currInterval |-> 0, currentPos |-> 0, waitTime |-> 0]
    ELSE [currentline  |-> lineIntervals[p][1].low,
          currInterval |-> 1,
          currentPos   |-> lineIntervals[p][1].fpos_start,
          waitTime     |-> 0]

Init ==
    /\ trace \in Traces
    /\ lineIntervals = [p \in Pids |-> LineIntervals(trace, p)]
    /\ PagingInit
    /\ status = [p \in Pids |-> IF p \in PidsOf(trace) THEN "RUNNABLE" ELSE "ABSENT"]
    /\ queue = [RUNNABLE |-> FirstRunnable(trace), BLOCKED |-> << >>, FINISHED |-> << >>]
    /\ proc = [p \in Pids |-> Process_init(p)]
    /\ curr = IF trace = << >> THEN NoProc ELSE Head(queue.RUNNABLE)
    /\ fpos = StartOf(1)
    /\ time = 0
    /\ stats = [tmu |-> 0, trp |-> 0, tmr |-> 0, tpi |-> 0]
    /\ pc = "loop"

-----------------------------------------------------------------------------
\* process.c

Process_existsWithStatus(s) == queue[s] # << >>
Process_peek(s) == Head(queue[s])

CurrInterval(p) == lineIntervals[p][proc[p].currInterval]
Process_hasLinesRemainingInInterval(p) == proc[p].currentline < CurrInterval(p).high
Process_onLastLineInInterval(p) == CurrInterval(p).high = proc[p].currentline
MoreIntervalsOneShort(p) == proc[p].currInterval + 1 < Len(lineIntervals[p])
Process_hasIntervalsRemaining(p) == proc[p].currInterval < Len(lineIntervals[p])

JumpKeepsLine(r, p) ==
    [r EXCEPT !.currInterval = @ + 1,
              !.currentPos = lineIntervals[p][r.currInterval + 1].fpos_start]
Process_jumpToNextInterval(r, p) ==
    LET next == lineIntervals[p][r.currInterval + 1]
    IN  [r EXCEPT !.currInterval = @ + 1,
                  !.currentline = next.low,
                  !.currentPos = next.fpos_start]

\* Slips in the functions below, for the mutation checks.
EnqueueAtTail(q, p, procs) == Append(q, p)
SwitchKeepsHead(s1, s2, procs) ==
    LET p == Process_peek(s1)
    IN  /\ queue' = [queue EXCEPT ![s2] = Append(@, p)]
        /\ status' = [status EXCEPT ![p] = s2]
SwitchSkipsStatus(s1, s2, procs) ==
    /\ queue' = [queue EXCEPT ![s1] = Tail(@), ![s2] = Append(@, Process_peek(s1))]
    /\ UNCHANGED status

\* Before the first process that is further on in the file, or last.
ProcessQueue_enqueuePriority(q, p, procs) ==
    LET later == {i \in DOMAIN q : procs[q[i]].currentPos > procs[p].currentPos}
    IN  InsertAt(q, IF later = {} THEN Len(q) + 1 ELSE Min(later), p)

ProcessQueue_enqueue(q, p, s, procs) ==
    IF s = "RUNNABLE" THEN ProcessQueue_enqueuePriority(q, p, procs) ELSE Append(q, p)

\* procs holds the processes' fields at the time of the call.
Process_switchStatus(s1, s2, procs) ==
    LET p    == Process_peek(s1)
        rest == [queue EXCEPT ![s1] = Tail(@)]
    IN  /\ queue' = [rest EXCEPT ![s2] = ProcessQueue_enqueue(@, p, s2, procs)]
        /\ status' = [status EXCEPT ![p] = s2]

-----------------------------------------------------------------------------
\* stat.c

StatCountsBlocked(s, ticks) ==
    [s EXCEPT !.tmu = @ + mem.allocated * ticks,
              !.trp = @ + IF Process_existsWithStatus("BLOCKED") THEN ticks ELSE 0]
MissUncounted(s) == s

Stat_default(s, ticks) ==
    [s EXCEPT !.tmu = @ + mem.allocated * ticks,
              !.trp = @ + IF Process_existsWithStatus("RUNNABLE") THEN ticks ELSE 0]
Stat_hit(s) == [s EXCEPT !.tmr = @ + 1]
Stat_miss(s) == [s EXCEPT !.tpi = @ + 1]

-----------------------------------------------------------------------------
\* simulator.c

NotDoneByRunnable == Process_existsWithStatus("RUNNABLE")

\* Despite its comment, true while some process is not finished.
Simulator_notDone ==
    Process_existsWithStatus("RUNNABLE") \/ Process_existsWithStatus("BLOCKED")

InLoop == pc = "loop" /\ ~ Quitting /\ Simulator_notDone

TickedByTwo ==
    IF Process_existsWithStatus("BLOCKED")
    THEN [proc EXCEPT ![Process_peek("BLOCKED")].waitTime = @ - 2]
    ELSE proc
TickedEveryone ==
    [p \in Pids |-> IF status[p] = "BLOCKED"
                    THEN [proc[p] EXCEPT !.waitTime = @ - 1] ELSE proc[p]]

DiskDueBeforeTick ==
    /\ Process_existsWithStatus("BLOCKED")
    /\ proc[Process_peek("BLOCKED")].waitTime = 0

\* The process at the head of BLOCKED has its wait decremented in every turn.
Ticked ==
    IF Process_existsWithStatus("BLOCKED")
    THEN [proc EXCEPT ![Process_peek("BLOCKED")].waitTime = @ - 1]
    ELSE proc
DiskDue ==
    /\ Process_existsWithStatus("BLOCKED")
    /\ Ticked[Process_peek("BLOCKED")].waitTime = 0

\* The process that makes the next reference, and where the file is read: it is
\* moved to that process's position only if the loop held another process.
Running == Process_peek("RUNNABLE")
ReadPos == IF curr # Running THEN proc[Running].currentPos ELSE fpos

\* The line may be another process's: its number is used all the same.
PageRead == <<Running, trace[LineAt(ReadPos)][2]>>
PosAfterRead == StartOf(LineAt(ReadPos) + 1)

\* The head of RUNNABLE leaves with the position pos saved; a process that becomes
\* RUNNABLE has the file moved to its own position.
Simulator_safelySwitchStatus(s1, s2, procs, pos) ==
    LET p == Process_peek(s1)
        r == IF s1 = "RUNNABLE" THEN [procs EXCEPT ![p].currentPos = pos] ELSE procs
    IN  /\ Process_switchStatus(s1, s2, r)
        /\ proc' = r
        /\ fpos' = IF s2 = "RUNNABLE" THEN r[p].currentPos ELSE PosAfterRead

\* The turn in which a disk read completes does nothing else.  The file is left
\* at the resumed process's position, whatever process runs next.
DiskCompletes ==
    /\ InLoop
    /\ DiskDue
    /\ Simulator_finishCurrentDiskIO(Process_peek("BLOCKED"))
    /\ Simulator_safelySwitchStatus("BLOCKED", "RUNNABLE", Ticked, 0)
    /\ time' = time + 1
    /\ stats' = Stat_default(stats, 1)
    /\ UNCHANGED <<fileVars, curr, pc>>

\* Memory_getFreePage finds no 0 bit and exits.
NoFreePage ==
    /\ InLoop
    /\ DiskDue
    /\ Memory_hasFreePage(mem)
    /\ ~ CanFindFreePage(mem)
    /\ pc' = "noFreePage"
    /\ proc' = Ticked
    /\ time' = time + 1
    /\ stats' = Stat_default(stats, 1)
    /\ UNCHANGED <<pagingVars, fileVars, queue, curr, fpos>>

\* With every process blocked, time jumps to one tick before the disk answers.
SkipIdleTime ==
    LET p    == Process_peek("BLOCKED")
        skip == Ticked[p].waitTime - 1
    IN  /\ InLoop
        /\ ~ DiskDue
        /\ ~ Process_existsWithStatus("RUNNABLE")
        /\ time' = time + 1 + skip
        /\ stats' = Stat_default(Stat_default(stats, 1), skip)
        /\ proc' = [Ticked EXCEPT ![p].waitTime = @ - skip]
        /\ UNCHANGED <<pagingVars, fileVars, queue, curr, fpos, pc>>

-----------------------------------------------------------------------------
\* A turn in which the process at the head of RUNNABLE makes a reference.
Reading == InLoop /\ ~ DiskDue /\ Process_existsWithStatus("RUNNABLE")

\* The file ends where a line was expected: the program exits.
ReadFails ==
    /\ Reading
    /\ LineAt(ReadPos) > Len(trace)
    /\ pc' = "readError"
    /\ curr' = Running
    /\ fpos' = ReadPos
    /\ proc' = Ticked
    /\ time' = time + 1
    /\ stats' = Stat_default(stats, 1)
    /\ UNCHANGED <<pagingVars, fileVars, queue>>

Reads ==
    /\ Reading
    /\ LineAt(ReadPos) <= Len(trace)
    /\ time' = time + 1
    /\ UNCHANGED <<fileVars, pc>>

Hits ==
    /\ Reads
    /\ ReferenceHits(PageRead)
    /\ stats' = Stat_hit(Stat_default(stats, 1))

\* Last line of an interval, and not of the last one: the process goes back
\* into RUNNABLE at the position of its next interval.
HitJumpsInterval ==
    LET p == Running
        r == [Ticked EXCEPT ![p] = Process_jumpToNextInterval(@, p)]
    IN  /\ Hits
        /\ Process_onLastLineInInterval(p) /\ Process_hasIntervalsRemaining(p)
        /\ proc' = r
        /\ Process_switchStatus("RUNNABLE", "RUNNABLE", r)
        /\ fpos' = r[p].currentPos
        /\ curr' = p

HitAdvances ==
    /\ Hits
    /\ Process_hasLinesRemainingInInterval(Running)
    /\ proc' = [Ticked EXCEPT ![Running].currentline = @ + 1]
    /\ fpos' = PosAfterRead
    /\ curr' = Running
    /\ UNCHANGED <<queue, status>>

\* The last line: Process_quit starts, and DestroysPage carries it through.
HitFinishes ==
    /\ Hits
    /\ ~ Process_hasLinesRemainingInInterval(Running)
    /\ ~ (Process_onLastLineInInterval(Running) /\ Process_hasIntervalsRemaining(Running))
    /\ Simulator_safelySwitchStatus("RUNNABLE", "FINISHED", Ticked, 0)
    /\ curr' = NoProc

\* A slip for the mutation checks: the position saved is the one after the read.
MissesPastLine ==
    /\ Reads
    /\ ReferenceMisses(PageRead)
    /\ stats' = Stat_miss(Stat_default(stats, 1))
    /\ Simulator_safelySwitchStatus("RUNNABLE", "BLOCKED",
            [Ticked EXCEPT ![Running].waitTime = DiskPenalty], PosAfterRead)
    /\ curr' = Running

\* The position saved is the one before the read: the line is read again.
Misses ==
    /\ Reads
    /\ ReferenceMisses(PageRead)
    /\ stats' = Stat_miss(Stat_default(stats, 1))
    /\ Simulator_safelySwitchStatus("RUNNABLE", "BLOCKED",
            [Ticked EXCEPT ![Running].waitTime = DiskPenalty], ReadPos)
    /\ curr' = Running

DestroysPage ==
    /\ pc = "loop"
    /\ \E v \in pageTable : DestroyVPage(v)
    /\ UNCHANGED <<fileVars, queue, proc, curr, fpos, time, stats, pc>>

SimulationEnds ==
    /\ pc = "loop"
    /\ ~ Quitting
    /\ ~ Simulator_notDone
    /\ pc' = "done"
    /\ UNCHANGED <<pagingVars, fileVars, queue, proc, curr, fpos, time, stats>>

\* The process is gone.
Terminated ==
    /\ pc # "loop"
    /\ UNCHANGED vars

Next ==
    \/ DiskCompletes \/ NoFreePage \/ SkipIdleTime
    \/ ReadFails \/ HitJumpsInterval \/ HitAdvances \/ HitFinishes \/ Misses
    \/ DestroysPage \/ SimulationEnds \/ Terminated

Spec == Init /\ [][Next]_vars

\* A single thread that waits for nothing outside itself keeps taking steps.
FairSpec == Spec /\ WF_vars(Next)

-----------------------------------------------------------------------------
ProcType == [currentline : Nat, currInterval : Nat, currentPos : Nat,
             waitTime : 0 .. DiskPenalty]
Outcomes == {"done", "noFreePage", "readError"}

\* Every variable of the simulator holds a value of its kind; waitTime, which
\* is unsigned in process.h, never wraps below 0.
SimulatorTypeOK ==
    /\ PagingTypeOK
    /\ trace \in Traces
    /\ queue \in [QueueNames -> Seq(Pids)]
    /\ proc \in [Pids -> ProcType]
    /\ curr \in Pids \cup {NoProc}
    /\ fpos \in Nat
    /\ time \in Nat
    /\ stats \in [tmu : Nat, trp : Nat, tmr : Nat, tpi : Nat]
    /\ pc \in {"loop"} \cup Outcomes

\* A process is in the queue its status names, once, and in no other
\* (process.c:207-230 keeps the two apart only by calling order).
QueuesMatchStatus ==
    \A s \in QueueNames :
        /\ IsInjective(queue[s])
        /\ Range(queue[s]) = {p \in Pids : status[p] = s}

\* RUNNABLE stays sorted by position in the file, although positions change
\* while processes run (process.c:28-53, simulator.c:218-222).
RunnableSorted ==
    IsSorted(queue.RUNNABLE, LAMBDA p, q : proc[p].currentPos <= proc[q].currentPos)

\* The disk serves one process at a time: the head of BLOCKED has part of its
\* wait left, those behind it all of it, and nobody else waits
\* (simulator.c:147-168).
DiskServesHead ==
    \A p \in Pids :
        IF status[p] # "BLOCKED" THEN proc[p].waitTime = 0
        ELSE IF p # Process_peek("BLOCKED") THEN proc[p].waitTime = DiskPenalty
        ELSE proc[p].waitTime \in IF pc = "noFreePage" THEN {0} ELSE 1 .. DiskPenalty

\* The ticks in which the disk was at work: DISK_PENALTY for every page that
\* has come in, and what has passed of the read under way.
DiskBusy ==
    DiskPenalty * (stats.tpi - Len(queue.BLOCKED))
        + IF Process_existsWithStatus("BLOCKED")
          THEN DiskPenalty - proc[Process_peek("BLOCKED")].waitTime
          ELSE 0

\* Running time is what the disk took, and at most one tick more for each hit
\* and each miss: skipping idle time (simulator.c:157-168) neither loses a tick
\* nor counts one twice.  The figures in the README obey it.
TimeAccounts ==
    pc \in {"loop", "done"} =>
        /\ DiskBusy <= time
        /\ time <= DiskBusy + stats.tmr + stats.tpi

\* What the counters of stat.c:31-35 keep to, skipped time included: memory in
\* use is at most memory in every tick, TRP counts every tick with a reference,
\* and the ticks it leaves out are ticks in which the disk is at work.
StatsAccount ==
    /\ stats.tmu <= MemSize * time
    /\ stats.tmr + stats.tpi <= stats.trp
    /\ pc \in {"loop", "done"} => time <= stats.trp + DiskBusy

\* TRP is "total runable processes (compounding)" (stat.h:14) and makes "average
\* runnable processes" (README:77-78): each tick adds the processes that are
\* runnable in it.
TrpCountsRunnable ==
    [][stats'.trp - stats.trp = (time' - time) * Len(queue.RUNNABLE)]_vars

\* TMR counts every line of the trace that its process has got past, once,
\* although a line that misses is read again and although a line may be read
\* in place of another (simulator.c:210-236).
HitsMatchProgress ==
    /\ \A p \in Pids : status[p] \in {"RUNNABLE", "BLOCKED"} =>
          proc[p].currentline \in CurrInterval(p).low .. CurrInterval(p).high
    /\ stats.tmr = Cardinality({k \in DOMAIN trace :
          \/ status[trace[k][1]] = "FINISHED"
          \/ k < proc[trace[k][1]].currentline})

\* A simulation that ends has counted as many hits as the trace has lines,
\* whichever lines they were of (LinesPassedAreRead is about that), has finished
\* every process and has given every page back (simulator.c:228, process.c:307-327).
EndsClean ==
    pc = "done" =>
        /\ stats.tmr = Len(trace)
        /\ \A p \in Pids : status[p] \in {"FINISHED", "ABSENT"}
        /\ mem.allocated = 0
        /\ \A w \in Words : mem.freelist[w] = {}
        /\ pageTable = {}
        /\ rep.queue = << >>

\* The read that comes next is of the line the process is on: "Return to the
\* file position saved in a given process" (simulator.c:44).
ReadsCurrentLine == Reading => LineAt(ReadPos) = proc[Running].currentline

\* A line that is read belongs to the running process; simulator.c:194-196
\* calls anything else an error.
ReadsOwnLine ==
    Reading /\ LineAt(ReadPos) <= Len(trace) => trace[LineAt(ReadPos)][1] = Running

\* A process gets past a line, or finishes, only in the turn in which that very
\* line is read and its page is in memory: a miss passes nothing and its line is
\* read again, until it hits (simulator.c:184, 210-235).
LinesPassedAreRead ==
    [][\A p \in Pids :
        LET advances == proc'[p].currentline # proc[p].currentline
            finishes == status'[p] = "FINISHED" /\ status[p] # "FINISHED"
        IN  advances \/ finishes =>
              /\ Reading /\ p = Running
              /\ LineAt(ReadPos) = proc[p].currentline
              /\ trace[proc[p].currentline] \in mem.inMemory]_vars

\* A process that loses the head of RUNNABLE to another one, when the next line
\* to read was its own current one, has that place saved: process.h:25-30 keeps
\* "Process's location in the file" and simulator.c:44-45 returns to it.
PreemptionSavesPosition ==
    [][Process_existsWithStatus("RUNNABLE") =>
        LET p         == Running
            inPlace   == LineAt(ReadPos) = proc[p].currentline
            preempted == status'[p] = "RUNNABLE" /\ Head(queue'.RUNNABLE) # p
        IN  (inPlace /\ preempted) => LineAt(proc'[p].currentPos) = proc'[p].currentline]_vars

\* When memory has room for all the pages of the trace, each is read from disk
\* once: nothing is evicted that will be needed.
ColdMissesOnly ==
    pc = "done" /\ Cardinality(Range(trace)) <= MemSize =>
        stats.tpi = Cardinality(Range(trace))

\* No page of the trace is used without having been read from disk.
EveryPageComesIn == pc = "done" => stats.tpi >= Cardinality(Range(trace))

\* The program gives up for want of a free page only once every frame of the
\* free list is taken (memory.c:141-156).
ExitsWithListFull ==
    pc = "noFreePage" => mem.allocated = (MemSize \div WordBits) * WordBits

\* The simulation comes to an end, by itself or in an error exit.
Terminates == <>(pc \in Outcomes)

\* On these traces it comes to its proper end.
Completes == <>(pc = "done")

\* A blocked process gets its page, unless the program exits with an error.
BlockedResumes ==
    \A p \in Pids :
        status[p] = "BLOCKED" ~>
            (status[p] # "BLOCKED" \/ pc \in Outcomes \ {"done"})
=============================================================================
