# pfsim: specification, checks and proofs

`src/` is a page-replacement simulator. It reads a trace of memory references, one
`<pid> <vpn>` pair to a line, and plays it against a physical memory of a given size, with
processes that block on a simulated disk at each page fault. Four programs are built from
it, one for each replacement policy. This directory holds TLA+ modules that model the
program, TLC configurations that check them, and proofs checked by TLAPS.

## 1. The system

The program is one thread. What makes it hard is not concurrency but *state spread over
modules that update it at different times*: a page's location is kept at both ends of a
pointer, in a bitmap, in a counter and in a queue; a process's place in the trace is kept
in the process, in its interval and in the position of one shared file.

| Component | State | Operations | Interacts with |
|---|---|---|---|
| **memory** (`memory.c`) | frames, free-list bitmap, number of allocated frames, `inMemory` and `currentPPN` of each page | init, has/get free page, load, evict, create and free a page | called by simulator, process; calls replace when a page is created or freed |
| **replace** (`replace-*.c`) | LRU, FIFO: queue, flags, counter. Clock: reference bits, hand. Random: nothing | notified of each hit, load, free; chooses the frame to evict | reads `currentPPN` of pages |
| **process** (`process.c`) | queues RUNNABLE, BLOCKED, FINISHED; each process's status, position, interval, page table, wait | init, peek, switch status, jump to next interval, page table lookup and insertion, quit | queues are shared by trace_parser, simulator and stat |
| **simulator** (`simulator.c`) | time, the process the loop holds, the position of the trace file | one turn of the main loop: tick, disk, skip, read, hit or miss, switch | calls all the others |
| **stat** (`stat.c`) | four counters | tick, hit, miss, print | reads memory and the RUNNABLE queue |
| **trace_parser** (`trace_parser.c`) | line number, start of the current interval, map from pids | first pass over the trace | creates processes, inserts intervals |
| **intervaltree** (`intervaltree.c`) | tree of line intervals with file positions | insert, find | one tree for each process |
| **main** (`main.c`) | the sizes and the file name | read and check arguments, initialise, run, print | decides the number of frames; order of initialisation |

Hard behaviours, each of them in `hazards` of `PROJECT.json` with its line:

* a disk read completes while another process is running (file position, RUNNABLE order);
* a process waits for a page while others fill memory, evict and quit;
* eviction, loading and freeing update five pieces of state through different pointers;
* idle time is skipped to one tick before an event;
* a reference that misses is read and made twice;
* sizes that are not a multiple of the bitmap's word, and sizes that overflow;
* a first pass that learns of a run of lines only from the line after it, or from the read
  that fails;
* a replacement order that depends on every event since the program started.

What makes each part correct: *memory* - the frame table, bitmap and counter agree and a
page free by count can be found; *replace* - its queue is the set of resident pages, its
bits are set before they are read, and the page it gives up is the one its policy names;
*process* - a process is in the queue of its status,
RUNNABLE is sorted, nothing points at freed pages; *simulator* - each read is of the line
its process is on, a line is passed only when it has been read and hit, every blocked process
resumes, the run ends; *stat* - time is what disk and references took, hits are counted once
for each line passed; *trace_parser* - every line read belongs to
exactly one process, and a process knows where each of its intervals starts;
*intervaltree* - a search finds a line just when some interval holds it; *main* - what the
simulation gets is what was asked for, and at least one page.

## 2. Modules

| Module | Models | Notes |
|---|---|---|
| `Memory` | `memory.c` | the file-scope variables are one record `m`; each function maps the record before the call to the one after it, so that an action of a caller can make several calls |
| `Replace` | `replace.h` and its four implementations | one record `r` with a `policy` field chosen in the initial state; Random and the choice among frames are the only nondeterminism |
| `Paging` | how `simulator.c` and `process.c` use the two | state machine: which process refers to which page when is left open. This is the *abstract* specification of paging |
| `VictimOrder` | what the names LRU and FIFO promise | abstract specification: resident pages and the order of their last uses or loads |
| `Recency` | `Paging` with a history of the references; Clock's loop bit by bit | implements `VictimOrder` (`EvictsOldest`) |
| `TraceFile` | what `first_pass` leaves | pure functions of a trace |
| `FirstPass` | the first pass as the simulator needs it: one run of lines more is known at each step | abstract specification |
| `IntervalTree` | `intervaltree.c` | operators on trees; a node is named by its path from the root |
| `IntervalTreeSpec` | a tree under any insertions | state machine |
| `TraceParser` | `first_pass` | state machine, one action per way through the loop; implements `FirstPass` (`ImplementsFirstPass`) |
| `Args` | `parseArgs` and the start of `main` | state machine, one action per option |
| `Simulator` | the main loop, the queues, the counters | state machine; EXTENDS `Paging` and implements it (`PagingSpec` is a property of its run) |
| `MCPaging`, `MCRecency`, `MCTraceParser`, `MCSimulator`, `MCArgs` | | instances for TLC |
| `OrderProofs` | | least and greatest elements, sorted sequences, what the functions of `TraceFile` are |
| `PagingProofs` | | lemmas about memory and the replacement modules, theorems about paging |
| `SimulatorProofs` | | the theorems about the simulation |
| `RecencyProofs`, `ArgsProofs` | | theorems about what each policy evicts and Clock's sweep; about main |
| `IntervalTreeProofs`, `IntervalTreeSpecProofs` | | what insertions keep and searches find; the theorems about `IntervalTreeSpec` |
| `TraceParserProofs` | | the theorems about the first pass |

Correspondence. `mem` and `rep` are the state of `memory.c` and of the linked replacement
module. `pageTable` is the union of all page tables (a page is a pair `<<pid, vpn>>`).
`status`, `waitingOnPage`, `proc` are fields of `Process`; `queue` is `pq`; `curr` is the
local `p` of the main loop; `fpos` the position of the file; `stats` is `ProgStats`; `pc`
tells a running program from one that ended, properly or in one of its error exits.

*One action is one turn of the loop*, with everything that turn calls: a turn in which the
disk answers (`DiskCompletes`, `NoFreePage`), one that skips idle time (`SkipIdleTime`),
one that reads (`ReadFails`, `HitJumpsInterval`, `HitAdvances`, `HitFinishes`, `Misses`).
The exception is `Process_quit`, whose loop over the page table takes a step for each page
(`DestroysPage`): the order in which `tdestroy` visits the pages is not specified, and the
invariants are stated between two pages. Nothing else happens until it is through
(`Quitting`).

File positions are abstract: `StartOf(k)` is where line `k` begins, `EndOf(k)` just before
its newline. Both occur, because `first_pass` scans with `"%lu %lu"` and the simulator with
`"%lu %lu\n"`; only their order and the line read next from each matter (`LineAt`).

The modules form a chain, as the program does: `Args` ends with a number of pages, which is
`MemSize`; `TraceParser` ends with the intervals and the RUNNABLE queue that `FirstPass` takes
from `TraceFile`; `Simulator` starts from those of `TraceFile`. The chain joins where pids are
within an int: `FirstPass` is stated for the *owner* of a pid, which is the pid's low 32 bits in
the program, and `Simulator` has every pid own itself. The joint is a property, `HandsOver`: then
the intervals, the queue and each process's line and position are those of `Simulator`'s `Init`.

In `TraceParser` a *line* is what one call of `fscanf` consumes: a pid with a page number, a pid
alone (`NoVpn`, `fscanf_result` 1, which the loop takes for a line like any other), or nothing
(`Unreadable`). A pid stands alone only at the end of the file or before something that is no
number, because the scan runs over newlines: at `3` / `1 7` it reads the pair 3 and 1. `curr_pid` is a variable
because the loop uses it after a read that stored nothing: after the first line it still
holds the pid of the line before (which is what closes the last interval), and before the
first line it is either 0 or not (`Init`). `RightSpine` is how the simulator uses a tree:
`Process_jumpToNextInterval` follows right pointers only. That this visits every interval in
file order is a consequence of the order of insertion, not of the tree, and is part of
`ImplementsFirstPass`; `intervaltree.h:5` calls the tree balancing, and it is not. `FirstPass` also
says when a pass may give up: at the first line with pid 0, with the run before that line not
taken, or at a file in which nothing can be read (`cut`: there is something after the lines
read), where the program tests a `curr_pid` nobody has set.

`Recency` adds two variables that no code has: `older`, the order in which resident pages were
last used (LRU) or came in (FIFO), and `survived`, how many evictions a page has outlived
since its last use (Clock). They follow the references, not the queue or the bits, and
restrict nothing.

In `Args` the widths are scaled down: an int of 8 bits, a long of 12, a megabyte of 16, a
default page of 4, a word of 2; the relations between them (a page fits a megabyte, a megabyte
an int) are `ArgsAssumption`. The product that overflows wraps, which is what the build
(no optimisation flag) does; in any build the comparison with the page size is made.

`malloc` failures, printing, and the contents of the heap are left out. A page that is
freed has `currentPPN` set to `Garbage`, and so have Clock's bits before they are set.

### A comparison with the program

The final state of the model was compared with that of the compiled program, built with
`DISK_PENALTY = 3`, a two-page memory and free-list words of one bit, on every one of the
1365 traces that `MCSimulator` enumerates and for LRU, FIFO and Clock: outcome, running
time, TMR, TPI, and the sums behind AMU and ARP agree in all 4095 executions (3999 ended
properly, 96 with "Error reading from trace file."). The figures in `src/README` for
`4000.addrtrace` and `smallmix.addrtrace` agree with two properties: TPI is the number of
distinct pages (167 and 332), and the running time is within `TimeAccounts`.

## 3. Runs

| Run | Instance | Properties |
|---|---|---|
| `paging` (module `MCRecency`) | 2 processes x 3 pages, 4 frames, words of 2 bits, 4 policies | `PagingTypeOK` `FrameTable` `BitmapAgrees` `QueueTracksMemory` `ClockBitsKnown` `BlockedPageAbsent` `NoDanglingPage` `FreePageFound` `EvictOnlyWhenFull` `ClockComesRound` `SweepIsLoop` `EvictsOldest` |
| `simulator` | 2 x 2 pages, 2 frames, `DISK_PENALTY` 3, all traces up to 6 lines, 4 policies | `SimulatorTypeOK` `QueuesMatchStatus` `RunnableSorted` `DiskServesHead` `TimeAccounts` `StatsAccount` `HitsMatchProgress` `EndsClean` `PagingSpec` `Terminates` `BlockedResumes` |
| `simulator_unaligned` | 3 frames, words of 2 bits, up to 5 lines | `ExitsWithListFull` |
| `simulator_slow_disk` | `DISK_PENALTY` 8, up to 5 lines | `ReadsCurrentLine` `LinesPassedAreRead` `EveryPageComesIn` `ColdMissesOnly` `Completes` |
| `interval_tree` | all trees of up to 4 intervals over 5 lines | `MaxIsHighest` `FindsExactly` |
| `trace_parser` | all files of up to 5 lines, pids 0, 1, 2, 5, pids alone and unreadable lines, ints of 2 bits | `TraceParserTypeOK` `LinesAreShared` `KnowsFirstAndLast` `HandsOver` `ImplementsFirstPass` `PassEnds` |
| `args` | all command lines of up to 3 options, 13 texts for each size | `AssertionsHold` `RunsAsAsked` `WordsCoverMemory` |
| `paging_unaligned` | 3 frames, words of 2 bits | `FreePageFound`, violated |
| `simulator_wrong_line` | `DISK_PENALTY` 2 | `ReadsOwnLine`, violated |
| `simulator_lost_place` | `DISK_PENALTY` 3 | `PreemptionSavesPosition`, violated |
| `simulator_runnable_average` | `DISK_PENALTY` 3 | `TrpCountsRunnable`, violated |
| `args_power_of_two` | as `args` | `PageSizeIsPowerOfTwo`, violated |

`simulator_slow_disk` is where lines are known to be read. There `LinesPassedAreRead` says that a process
gets past a line only in the turn that reads it with its page in memory, so that a miss is
retried until it hits; with `HitsMatchProgress` and `EndsClean` it makes a simulation that ends one that has
run its trace. On a fast disk this is not so (section below), and `EndsClean` by itself only
says that the *number* of hits is the number of lines. The two hazards of a fast disk are
not exercised by this run: no read completes in it while a process can run.

`StatsAccount` says what TRP is in the code: it counts ticks, all those with a reference among
them, and those it leaves out are the disk's. That the documents call it something else is
`simulator_runnable_average`.

What the runs about the policies and the other parts show:

* **`interval_tree`** - `it_find` and `it_find_bool` are right for every tree, also for one that
  overlaps itself, because a search goes left only when the left side reaches as far as `x`
  and then cannot need the right one. This rests on `max` (`MaxIsHighest`) and on the order of
  lows (`SearchOrder`). The program calls neither search: the run is about what the interface
  promises, and `LinesAreShared` uses it.
* **`trace_parser`** - no line is lost and none has two owners, for all files up to the bound.
  Two pids that agree as ints are one process (`PidKey`); an unreadable line ends the trace
  there without an error unless the value left in `curr_pid` is 0; the run that ends at the end
  of the file is recorded like the others (`PassEnds`).
* **`paging`**, of the policies - the LRU and FIFO queues are in the order the policies are named for. With `N`
  frames (`N > 1`) a page that Clock could evict outlives at most `2N - 3` evictions without a
  use: `N - 2` before the hand clears its bit, and `N - 1` while the hand comes round again.
  `SweepIsLoop` justifies the closed form of the sweep in `Replace`: the loop of
  `replace-clock.c` (`HandAfter`, `BitsAfter`) ends with the same hand and the same bits.
* **`args`** - an overflow never gets past the checks as a size that is not positive, because
  the comparison with the page size catches it; it may get past as a smaller memory
  (`-m 4097` is 1 MB), and `RunsAsAsked` is stated for sizes that are numbers other than 0 whose
  products fit (what becomes of the others is told below). `WordsCoverMemory` joins
  this to `AlignedFreePageFound`: with the page sizes the help allows, up to 32768 bytes, memory
  is a whole number of free-list words.

**Bounds.** Two processes are enough for one to run, wait, evict or quit while another is
blocked; three pages each against four frames make memory fill, evict and reload, and leave
pages of both in it. `WordBits` is 32 in the code: a word of two bits and two words exercise
both `/` and `%`, and three frames leave one without a bit. `MaxLines` bounds the trace and
with it time and the counters; six lines let each process have several intervals and revisit
a page. In `simulator` the penalty of 3 is short enough for reads to complete while another
process runs (the program needs traces of millions of lines for that), in
`simulator_slow_disk` it is longer than all references together, the situation of a small
trace in the program. The first line of a trace is `1 1` without loss of generality: names
can be exchanged. `MCRecency`, and `MCPaging` in `paging_unaligned`, use symmetry of pids and page numbers, which no
definition of `Paging` or `Recency` orders, and check safety only. `CHECK_DEADLOCK FALSE` is set there because a
simulation whose processes have all finished has nothing left to do.

Four intervals give every shape of tree up to depth four with a node on each side of an
inner one; five lines let them nest, overlap, touch and stand apart. In `trace_parser` pids 1
and 5 share a key (`IntRange` 4), 2 does not, 0 is the invalid one; five lines are enough for
three intervals of one process between those of another, and for sharing pids side by side
and apart. A pid alone is at the end of a file or before an unreadable line. In `paging` six pages compete for four frames, so that an evicted page comes
back, a page outlives as many as `2N - 3` evictions, and a process quits with the hand anywhere. The texts of `args` are -1, 0, the last size that fits, the
first products that overflow to a negative number, to 0 and to a positive one, texts that
wrap to 0 and to 1 when cut to an int, one too long for `strtol` and one that is no number.
`CHECK_DEADLOCK FALSE` is set in `interval_tree`, where the bound on nodes is reached, and in `args`,
where the program has exited or the simulation begins.

**Fairness.** `FairSpec`, and `Spec` of `TraceParser`, have weak fairness of `Next`: the program is one thread that waits for
nothing but the file it reads. No action is fair by itself; liveness follows from the order
in which the loop does things.

### What the violated runs show

1. **`paging_unaligned`** - `memory.c:66` allocates `mem_size / 32` words, rounded down, and
   `Memory_getFreePage` searches as many; `Memory_hasFreePage` compares with `mem_size`. The
   message of the former tells callers to use the latter first, and they do, and the program
   exits. `-m 1 -p 65536` (16 pages, no words) fails at the first fault.
   `BitmapCorrect` proves that nothing is corrupted, `simulator_unaligned` shows that the exit comes only when
   the list is used up; `AlignedFreePageFound` proves that a multiple of the word suffices.
2. **`simulator_wrong_line`** - when a read completes, the file is moved to the resumed
   process's position (`simulator.c:117`); the loop moves it back only if the head of RUNNABLE
   is not the process it held (`simulator.c:171`). If the running process stays first, its
   next line is the resumed one's: the case `simulator.c:195` reports as an error. Trace:
   `1 1`, `1 1`, `2 1` with a penalty of 2.
3. **`simulator_lost_place`** - a process that is overtaken in RUNNABLE by a resumed one does
   not have its position saved (`simulator.c:96-98` saves only the process that leaves by its
   own turn). It later resumes at an old position, runs lines again and, as it counts lines,
   stops before its last ones. With a penalty of 3 the trace `1 1`, `2 1`, `1 1`, `1 1`,
   `1 7` yields a TPI of 2 for three distinct pages.
4. **`args_power_of_two`** - `main.c:108` asks for an even page size where its message and the help
   ask for a power of two. Any other even size leaves a number of pages that is seldom a
   multiple of 32 (`-m 1 -p 6`: 174762 pages, ten without a bit), and so leads to the first finding.
5. **`simulator_runnable_average`** - `stat.c:34` adds one tick to TRP however many processes are
   runnable, where `stat.h:14` and `README:77-78` speak of their number: ARP is never more than 1.

The second and third can also end in a read past the end of the file, and then the program exits with
"Error reading from trace file." on a valid trace; the shipped penalty of 2000000 needs a
trace with more than that many references by one process while another waits.
`HitsMatchProgress`, `TimeAccounts` and `EndsClean` hold in spite of them, because the
program counts lines and does not look at what it reads: as many hits are counted as there are
lines, and the totals do not betray that some lines were run twice and others never.

Two more disagreements were met that no run checks:

* `it_giveNext` runs off the tree when the current line is in no interval or the last of one, and
  then returns 0 (`intervaltree.c:131`), which `intervaltree.h:73-74` and `intervaltree.c:125`
  keep for a line past the whole tree. Nothing calls it, and the comment before it
  (`intervaltree.c:119-122`) says that it is work in progress; it is not modelled.
* `strtol` reads a text that is no number as 0 without setting `errno`, and 0 is taken for an
  option not given (`main.c:43`, `main.c:53`): `-m abc` runs with 1 MB, where the message at
  `main.c:46` asks for a valid integer. So does `-m 0`, where the one at `main.c:123` says
  positive. `Args` models both, and `RunsAsAsked` does not say that they are right.

## 4. Proofs

Everything in this section is proved for every value of the constants, from the assumptions the
modules name: `MemoryAssumption` (at least one frame, words of at least one bit, `NoPage` and
`Garbage` distinct from what they stand beside), the assumptions of `Simulator` on traces and
the disk, `ArgsAssumption`, and `TraceParserAssumption` (a file is a sequence of lines, each a pair
of numbers or unreadable; an int has some number of values). No proof uses a bound of the runs.

### Paging

`PagingProofs` proves `PagingSpec => []PagingInv` for every set of pids and page numbers,
every memory size and word size and all four policies.

`PagingInv` is the conjunction of the type invariant and the six invariants of the `paging` run
that follow it in the table (`FrameTable` to `NoDanglingPage`). No part is inductive by itself, and the argument shows how they lean on
each other:

* a *load* keeps the frame table because its page is not resident (`BlockedPageAbsent`) and
  its frame is free (`BitmapAgrees` with `FoundPageIsFree`, or the eviction just made);
* a *bit is one frame's*: two frames with the same word and offset are equal
  (`BitIsOneFrame`), so setting one bit leaves the others right;
* an *eviction* finds a victim because memory is full by count, hence every frame is taken
  (`FullMemory`: a subset of the frames with as many elements is all of them), hence the
  queue is not empty (`QueueTracksMemory`) and its head is in a frame (`FrameTable`); for
  Clock the sweep stops at a frame since a non-empty set of distances has a least element
  (`SweepStopProperties`);
* a *miss* blocks on a page that is not resident because what is resident is in a table
  (`NoDanglingPage`);
* *quitting* frees only pages that nobody waits for, since a process waits only for its own
  and a blocked one has not finished.

From it follow, each as a theorem, the invariants of the run; `AlignedFreePageFound`
(`FreePageFound` whenever the word size divides the memory size); and the action property
`EvictOnlyWhenFull`.

### The simulation

`SimulatorProofs` proves `Spec => PagingSpec` (`SimulatorImplementsPaging`): each turn of the
loop is a step of `Paging` or leaves its variables alone, so everything above holds of the
program. It then proves every invariant that the `simulator` and `simulator_unaligned` runs
check, for every trace, disk and memory. `SimulatorSafety` joins them in `SimulatorInv`.

*The initial state.* `FirstRunnable` and `LineIntervals` sort a set. That a finite set of things
with different keys has a sorted sequence (`AscendingExists`) is shown by least counterexample:
among the sizes of sets without one there would be a least (`LeastNat`), and adding the
greatest element of such a set to a sorted sequence of the rest contradicts it. From this
`IntervalsProperties` says that a process's intervals are in the order of the file, hold only
its lines and all of them.

*Scheduling.* The strengthening is `Scheduling`: `SimulatorTypeOK`, `QueuesMatchStatus`,
`DiskServesHead`, and `PlacesKnown`, which no run checks under that name: a process that has not
finished is on a line of the interval it is in and has a position other than 0. Without the
last, `Process_jumpToNextInterval` could leave its sequence of intervals and the type of a line
number would not be kept. `DiskServesHead` is what keeps the unsigned wait from going below 0.
`RunnableStaysSorted` then needs only that an insertion after the last smaller position keeps a
sorted sequence sorted.

*Accounting.* `HitsCountPassed` (hits are the lines passed) is inductive with `Scheduling`, because a
hit passes exactly one line whatever line was read. It gives `EndIsClean`: when RUNNABLE and
BLOCKED are empty there have been as many hits as lines, though not a hit of every line; that
is `LinesAreRead`, below. `TimeCorrect` bounds time by what the disk and the references took, and
`StatsCorrect` follows from it and from what each tick adds (`CountsBounded`).

*What is read.* `ReadsCurrentLine` fails on a fast disk (section 3), and what depends on it is
stated with it: `LinesAreRead`, `NoReadError`, `PagesComeIn` and `PagesComeInOnce` have the
hypothesis `[]ReadsCurrentLine`. `LinesAreRead` is `LinesPassedAreRead`; `NoReadError` says that the program does not
meet the end of the file in a read. The last two rest on `SeenPages`, the pages of the lines passed or in a page table: no page is seen without a
miss (`SeenPagesMissed`), and where memory has room for the trace none is lost once seen
(`NothingLost`). The hypothesis is then discharged for a slow disk. `SlowDisk` says that every trace
has fewer lines and processes than `DiskPenalty` (2000000 in the code), which is true of ordinary
traces (not of the two largest that come with the program); `DiskOutlastsWork` shows that then no read ends while a process can run, since each
tick of a read is a hit or sends a process to wait, and `PlacesKept` that so each process resumes
where it stopped. Hence `SlowDiskReadsCurrentLine`, `SlowDiskLinesAreRead` and `SlowDiskPagesComeIn`; and `SlowDiskReadsOwnLine` and
`SlowDiskSavesPosition` prove of a slow disk the two properties that the runs `simulator_wrong_line`
and `simulator_lost_place` refute of a fast one. So those findings need a disk that answers
while a process runs, and nothing else in the loop causes them.

### Policies

`RecencyProofs` proves `RecencySpec => EvictsOldest`: LRU and FIFO implement `VictimOrder`.
The strengthening, `RecencyInv`, adds to `PagingInv` that
the queue *is* the history (`QueueIsHistory`: under LRU and FIFO the queue lists the resident
pages in the order of `older`; under the other policies there is no history). Neither half does
alone: that the head of the queue is the oldest page of memory needs both that the queue is in
order and that it holds every resident page once (`QueueTracksMemory`), and that the frame
evicted is the head's needs `FrameTable`. A removal keeps the order of the rest
(`RemoveFirstInOrder`), a page put at the tail is the youngest (`YoungestAtTail`), the head is
before all others (`HeadInOrder`); then each action of `Recency` is `Use`, `Load`, `Exchange`,
`Discard` or a stutter (`HitImplements`, `LoadImplements`, `DestroyImplements`).

For Clock, `SweepFollowsLoop` proves that the closed form of the sweep in `Replace` is what the loop
computes. After `n` turns the loop has cleared the `n` bits nearest ahead of the hand
(`BitsAfterPassed`, by least counterexample on `n`; the equation of the recursive function is a
hypothesis discharged by an explicit witness), and it stops at the first that was 0, which is
at most a whole circle away. `ClockGivesOneSecondChance` proves the bound of `ClockComesRound`. The
strengthening, `SecondChance`, is a budget: `EvictionsLeft` is what a page can still live through,
given its bit and its distance from the hand, and what it has lived through plus what is
left is at most `2N - 3`. Each sweep takes at least one from the budget of every page it does
not evict (`SweepTakesOne`), which needs that the hand never rests at a bit that is 0; a use
fills the budget up again (`UsedPage`).

### Arguments

`ArgsProofs` proves `Spec => []AssertionsHold` of `Args` for every command line and every width of
the integers. `AssertionsHold` says nothing before `parseArgs` returns; the
strengthening `SizesChecked` says that the sizes are numbers all along, which is what makes the
product of `main.c:130` a number even when it wraps, and that those that are accepted have
`0 < pagesize <= memsize`, from which the number of pages is positive.

`RunIsAsAsked` proves `[]RunsAsAsked`, for sizes that are numbers. Its strengthening `OptionsFollowed` says that at each point the
variables hold what the last of each option read so far left in them; that the product by
0x100000 does not wrap when it fits is `FactorFits`. `WordsAlwaysCover` proves `[]WordsCoverMemory` from
`WholeWords`, that a megabyte holds a whole number of words' worth of pages of each size the help
allows and that an int wraps at whole megabytes. The code's 2^32, 2^20 and 32 satisfy it; the
assumption is not in `ArgsAssumption` because the other theorems do not need it. With
`AlignedFreePageFound` it shows that powers of two of up to 32768 bytes never lead to the first finding.

### The interval tree

`IntervalTreeSpecProofs` proves both properties of the `interval_tree` run, and `SearchOrder`, for trees of any size
and shape, from `IntervalTreeAssumption`. The inductive invariant, `IsSearchTree`, is `IsTree` (what is
above a node is a node, and paths are not longer than some depth), `IsOrdered` and `HasMax`.

The functions of `intervaltree.c` are recursive functions on paths. `IntervalTreeProofs` has one account
of them all: a search is a set of paths at which it may stop and a side to go on to from each
other, and `Leads(stop, step, p, q)` says without recursion that it gets from `p` to `q`.
`SearchExists` gives a function that satisfies the recursive equation, and `SearchEnds` says that any
that does has at `p` what is found where the search leads: otherwise there would be a longest
path at which it has not. So `it_insert` is shown to put a node where every node above sends it
(`InsertPathProperties`), which keeps the order and the maxima (`InsertKeepsOrder`,
`InsertKeepsMax`). For the searches the step that matters is `SearchTurns`: if a node below `p` holds the lines
looked for, so does one on the side taken. When the left side reaches as far as `x` and the
node with `x` is on the right, then `x` is not before the low of `p`, and the node on the left that
reaches so far starts before `p`: it holds `x` as well. Overlaps therefore do no harm.

### The first pass

`TraceParserProofs` proves every safety property of the `trace_parser` run, for files of any number
of lines, wherever they cannot be read, and ints of any width. The difficulty is that the pass
learns of an interval only at the line after it. The inductive invariant, `FirstPassInv`, has two parts:

* `PassPlace`: while the loop goes on, the lines from `start_line_number` to the one before the
  current are a run (`IsRun`: all of `pid`, and the line before them of another), the current line is
  at most one past the last that can be read, and `start_fpos` and `fpos` are the positions before
  those two lines. `curr_pid` equals `pid` after the first line, so a read that fails ends the
  pass without an error. Once done, no line that can be read is after `start_line_number`.
* `ProcessesKnown`: the processes are the owners of the lines before the open interval;
  each starts at its first line and ends at its last; its tree is a search tree, holds its
  lines and no others, and is a chain of right children with the intervals of `FirstPass`
  (`IsSpine`); RUNNABLE is that of `FirstPass`.

When an interval ends, `IntervalsAfterRun` and `QueueAfterRun` say what `FirstPass` gains: one interval
at the end of its owner's and nothing else, and one process at the end of the queue if the
owner is new. Both rest on there being only one way to put a set in the order of its keys
(`AscendingUnique`, hence `AscendingAppend` for a greatest element), and on the ends of the earlier
intervals staying where they are although the lines are more (`HighOfSeen`). On the side of the code,
`InsertOnSpine` shows that the new node goes below the last of the chain, because every node
above starts before it, and `InsertKeepsSearchTree` is taken from the interval tree.

`LinesAreSharedHolds` then follows with `FindBoolProperties`, which turns the search into the existence of
an interval; `KnowsFirstAndLastHolds` from the uniqueness of least and greatest elements; and
`HandsOverHolds` because all lines are seen when the pass is done. `FirstPassIsImplemented` is the refinement:
a turn that stays in the interval is a stutter, a line that is rejected is `GiveUp` (it is the first with pid 0 and the run before it is not taken,
or nothing could be read: `RejectedLine`), and the end
of an interval is `TakeRun` for the run that ends at `LastLine`, whose predecessor among the ends of
runs is the line before `start_line_number` (`EndsRunOfPass`).

### Lemmas

`OrderProofs` has least and greatest elements (`LeastNat`, `MaxUpTo`), sorted sequences and the
intervals of a trace; `PagingProofs` begins with the
arithmetic of words and offsets, what load, evict and free do to
memory, the sequences without repetitions (`RemoveFirstByIndex`,
`RemoveFirstProperties`, `AppendNew`, `PopHead`) and what each call of the interface does to a
replacement module; `TraceParserProofs` begins with traces that grow by a run and goes on to trees
that are chains.

### Only model-checked

All liveness (`Terminates`, `Completes`, `BlockedResumes`, `PassEnds`): fairness and ENABLED are outside
the prover's reach. Every other property of the passing runs is stated by a theorem.

## 5. Not modelled

`Stat_printStats` and all other output; the heap: the leak in `PageTable_get`, the freed processes
that stay in the FINISHED queue, the uninitialised root of a page table, failures of `malloc`;
`it_print`; `it_giveNext`, `Process_setStatus`, `Memory_getPPage` and `Replace_freeReplacementModule`, which nothing calls; the depth of
the recursion in `it_insert_recursive`, which is the number of intervals of the process.

`Simulator` takes its trace from files in which every line is a pid and a page number. In a file
that ends with a pid alone, which `TraceParser` has, the first pass makes that pid a line of its process, the
simulator's `fscanf` finds one number where it wants two, and the program exits with "Error
reading from trace file."; a file that ends at an unreadable line plays as the lines before it.

## 6. Plan

Done:

1. `Memory`, `Replace`, `Paging` with their proofs, `TraceFile`, `Simulator`.
2. `IntervalTree`, `IntervalTreeSpec`, `FirstPass` and `TraceParser`.
3. `VictimOrder` and `Recency`, with the proof that the one implements the other.
4. `Args`, with the proof of main's assertions.
5. The proofs about `Simulator`, those about Clock, the rest of those about `Args`, and those about
   the interval tree.
6. The proofs about the first pass, with which every safety property that a passing run checks is
   also a theorem.

What could come next: a `Simulator` that starts from any owner function, so that traces
with pids beyond an int can be played as the program plays them.
