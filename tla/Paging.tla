------------------------------- MODULE Paging -------------------------------
(***************************************************************************)
(* Demand paging, after the paging half of src/simulator.c and src/process.c: *)
(* page tables, physical memory and the replacement module, as processes   *)
(* hit pages, miss them, wait for the disk and quit.  Which process makes  *)
(* the next reference, to which page, and when the disk answers are left   *)
(* open here; module Simulator decides them the way the main loop does and *)
(* implements this specification.                                          *)
(***************************************************************************)
EXTENDS Replace

VARIABLES
    mem,            \* the state of memory.c
    rep,            \* the state of the replacement module
    pageTable,      \* the virtual pages in the page tables of all processes
    status,         \* Process.status, or "ABSENT" for a pid not in the trace
    waitingOnPage   \* Process.waitingOnPage

pagingVars == <<mem, rep, pageTable, status, waitingOnPage>>

Statuses == {"RUNNABLE", "BLOCKED", "FINISHED", "ABSENT"}

PagingInit ==
    /\ mem = Memory_init
    /\ rep \in {Replace_initReplacementModule(policy) : policy \in Policies}
    /\ pageTable = {}
    /\ status \in [Pids -> {"RUNNABLE", "ABSENT"}]
    /\ waitingOnPage = [p \in Pids |-> NoPage]

\* Process_quit is under way: a finished process still has pages to destroy.
\* The simulator does nothing else until it is through.
Quitting == \E v \in pageTable : status[v[1]] = "FINISHED"

-----------------------------------------------------------------------------
\* The disk read of the page that p waits for completes.  With a page free by
\* count but no 0 bit to be found, Memory_getFreePage exits: no step.
LoadIntoFreePage(v) ==
    /\ Memory_hasFreePage(mem)
    /\ CanFindFreePage(mem)
    /\ mem' = Memory_loadPage(mem, v, Memory_getFreePage(mem))
    /\ rep' = Replace_notifyPageLoad(rep, mem', v)

LoadByEvicting(v) ==
    /\ ~ Memory_hasFreePage(mem)
    /\ \E victim \in Replace_getPageToEvict(rep, mem) :
          /\ mem' = Memory_loadPage(Memory_evictPage(mem, victim.ppn), v, victim.ppn)
          /\ rep' = Replace_notifyPageLoad(victim.rep, mem', v)

\* A slip for the mutation checks: the pointer is left set.
FinishKeepsWaiting(p) ==
    /\ LoadIntoFreePage(waitingOnPage[p]) \/ LoadByEvicting(waitingOnPage[p])
    /\ UNCHANGED <<pageTable, waitingOnPage>>

Simulator_finishCurrentDiskIO(p) ==
    /\ LoadIntoFreePage(waitingOnPage[p]) \/ LoadByEvicting(waitingOnPage[p])
    /\ waitingOnPage' = [waitingOnPage EXCEPT ![p] = NoPage]
    /\ UNCHANGED pageTable

\* The lookup of a page, a NULL result being FALSE, and the insertion of a new one.
PageTable_get(v) == v \in pageTable
PageTable_add(v) == pageTable \cup {v}

\* A slip for the mutation checks: one page table for all processes.
InMemoryForAnyone(v) == \E p \in Pids : <<p, v[2]>> \in pageTable \cap mem.inMemory

\* The page is in its process's table and resident: Process_virtualPageInMemory.
Process_virtualPageInMemory(v) == PageTable_get(v) /\ v \in mem.inMemory

\* A reference that hits tells the replacement module and touches no memory.
ReferenceHits(v) ==
    /\ Process_virtualPageInMemory(v)
    /\ rep' = Replace_notifyPageAccess(rep, mem, v)
    /\ UNCHANGED <<mem, pageTable, waitingOnPage>>

\* A reference that misses enters the page in the table if it is new, and the
\* process goes to wait for it.
ReferenceMisses(v) ==
    /\ ~ Process_virtualPageInMemory(v)
    /\ pageTable' = PageTable_add(v)
    /\ waitingOnPage' = [waitingOnPage EXCEPT ![v[1]] = v]
    /\ UNCHANGED <<mem, rep>>

\* Process_quit destroys one page of a finished process: VPage_free, with the
\* overhead that belongs to the page.
DestroyVPage(v) ==
    /\ v \in pageTable
    /\ status[v[1]] = "FINISHED"
    /\ mem' = VPage_free(mem, v)
    /\ rep' = Replace_freeOverhead(rep, v)
    /\ pageTable' = pageTable \ {v}
    /\ UNCHANGED <<status, waitingOnPage>>

-----------------------------------------------------------------------------
Hit(v) ==
    /\ ~ Quitting
    /\ status[v[1]] = "RUNNABLE"
    /\ ReferenceHits(v)
    /\ UNCHANGED status

\* The last reference of a process.
HitAndFinish(v) ==
    /\ ~ Quitting
    /\ status[v[1]] = "RUNNABLE"
    /\ ReferenceHits(v)
    /\ status' = [status EXCEPT ![v[1]] = "FINISHED"]

Miss(v) ==
    /\ ~ Quitting
    /\ status[v[1]] = "RUNNABLE"
    /\ ReferenceMisses(v)
    /\ status' = [status EXCEPT ![v[1]] = "BLOCKED"]

FinishDiskIO(p) ==
    /\ ~ Quitting
    /\ status[p] = "BLOCKED"
    /\ Simulator_finishCurrentDiskIO(p)
    /\ status' = [status EXCEPT ![p] = "RUNNABLE"]

PagingNext ==
    \/ \E v \in VPages : Hit(v) \/ HitAndFinish(v) \/ Miss(v) \/ DestroyVPage(v)
    \/ \E p \in Pids : FinishDiskIO(p)

PagingSpec == PagingInit /\ [][PagingNext]_pagingVars

-----------------------------------------------------------------------------
\* Every variable holds a value of its kind: frame numbers stay in range and no
\* process has a status outside process.h's enumeration.
PagingTypeOK ==
    /\ mem \in MemoryType
    /\ rep \in ReplaceType
    /\ pageTable \subseteq VPages
    /\ status \in [Pids -> Statuses]
    /\ waitingOnPage \in [Pids -> VPages \cup {NoPage}]

\* The two directions of the mapping agree.  Eviction and loading update the two
\* ends through different pointers (memory.c:93-136).
FrameTable == MapsAgree(mem)

\* The free list and its counter agree with the frames, over evictions, loads
\* and the quitting of processes (memory.c:13, 103-109, 131-135).
BitmapAgrees == FreeListAgrees(mem)

\* The replacement queue follows memory through every load, eviction and quit,
\* and never outgrows it: what the assertions of replace-lru.c:75, 94, 98, 110,
\* 114 and 126, and those of replace-fifo.c, rely on.
QueueTracksMemory == QueueAgrees(rep, mem) /\ rep.pages <= MemSize

\* Clock never reads a reference bit that nothing has set: the bits are not
\* cleared when they are allocated (replace-clock.c:36), and a bit is first read
\* when memory is full.
ClockBitsKnown == BitsKnown(rep, mem)

\* A process waits for a page just while it is blocked, and the page it waits for is
\* one of its own, in its table and not in memory, so that no page is ever
\* loaded twice (simulator.c:62, memory.c:125).
BlockedPageAbsent ==
    \A p \in Pids :
        IF status[p] = "BLOCKED"
        THEN /\ waitingOnPage[p] \in pageTable \ mem.inMemory
             /\ waitingOnPage[p][1] = p
        ELSE waitingOnPage[p] = NoPage

\* No frame and no replacement queue points at a page that Process_quit has
\* free'd (process.c:307-321): what is resident is in a page table, and a page
\* table belongs to a process of the trace.
NoDanglingPage ==
    /\ mem.inMemory \subseteq pageTable
    /\ rep.inQueue \subseteq pageTable
    /\ \A v \in pageTable : status[v[1]] # "ABSENT"

\* The parts of the inductive invariant.
PagingInv ==
    /\ PagingTypeOK
    /\ FrameTable
    /\ BitmapAgrees
    /\ QueueTracksMemory
    /\ ClockBitsKnown
    /\ BlockedPageAbsent
    /\ NoDanglingPage

\* "Use Memory_hasFreePage to check first": a page that is free by count can be
\* found in the free list (memory.c:138-165).
FreePageFound == Memory_hasFreePage(mem) => CanFindFreePage(mem)

\* A page of a process that has not finished leaves memory only to make room in
\* a full memory, and for exactly one other page (simulator.c:66-75).
EvictOnlyWhenFull ==
    [][\A v \in mem.inMemory \ mem'.inMemory :
          status[v[1]] # "FINISHED" =>
              /\ TakenFrames(mem) = Frames
              /\ TakenFrames(mem)' = Frames
              /\ mem.inMemory \ mem'.inMemory = {v}]_pagingVars
=============================================================================
