------------------------------- MODULE Memory -------------------------------
(***************************************************************************)
(* Physical memory, after src/memory.c: the array of page frames, the      *)
(* free-list bitmap with its counter, and the two fields of a virtual page *)
(* that say where it is.  memory.c keeps all of this in file-scope         *)
(* variables; here it is one record, and each function of memory.c is an   *)
(* operator that takes the record before the call and returns the record   *)
(* after it, so that a caller can make several calls in one step.          *)
(***************************************************************************)
EXTENDS Integers, FiniteSets, FiniteSetsExt

CONSTANTS
    Pids,       \* process ids of the trace
    Vpns,       \* virtual page numbers of the trace
    MemSize,    \* mem_size: page frames in physical memory
    WordBits,   \* bits in one word of the free list (32 in the code)
    NoPage,     \* the NULL VPage pointer
    Garbage     \* the content of malloc'ed memory nothing has been stored in

\* A virtual page is identified by its process and its number.
VPages == Pids \X Vpns
Frames == 0 .. MemSize - 1

\* The words Memory_init allocates: mem_size / 32 of them, rounded down.
Words == 0 .. (MemSize \div WordBits) - 1

\* main.c refuses a memory of no frames, and a word has a positive width.
ASSUME MemoryAssumption ==
    /\ MemSize \in Nat \ {0}
    /\ WordBits \in Nat \ {0}
    /\ NoPage \notin VPages
    /\ Garbage \notin Nat

-----------------------------------------------------------------------------
\* A word of the free list is the set of its bits that are 1, counted from the
\* most significant one; a bit is 1 when the frame it stands for is taken.
bv_ind(n) == n \div WordBits
bv_ofs(n) == n % WordBits

Memory_init ==
    [frames     |-> [f \in Frames |-> NoPage],
     freelist   |-> [w \in Words |-> {}],
     allocated  |-> 0,
     inMemory   |-> {},
     currentPPN |-> [v \in VPages |-> Garbage]]

BitSet(m, ppn) == bv_ofs(ppn) \in m.freelist[bv_ind(ppn)]

\* The bits bv_ffz can find: those of the words the free list has.
ZeroBits(m) ==
    {ppn \in 0 .. (MemSize \div WordBits) * WordBits - 1 : ~ BitSet(m, ppn)}

-----------------------------------------------------------------------------
\* Slips in the functions below, for the mutation checks.
HasFreePageByOne(m) == MemSize + 1 > m.allocated
EvictKeepsFlag(m, ppn) ==
    [m EXCEPT !.frames[ppn] = NoPage,
              !.freelist[bv_ind(ppn)] = @ \ {bv_ofs(ppn)},
              !.allocated = IF BitSet(m, ppn) THEN @ - 1 ELSE @]
EvictKeepsBit(m, ppn) ==
    [m EXCEPT !.frames[ppn] = NoPage,
              !.inMemory = @ \ {m.frames[ppn]},
              !.allocated = @ - 1]
HasFreePageOneShort(m) == MemSize > m.allocated + 1
FreeKeepsFrame(m, v) == [m EXCEPT !.currentPPN[v] = Garbage]
EvictCountsTwice(m, ppn) ==
    [m EXCEPT !.frames[ppn] = NoPage,
              !.inMemory = @ \ {m.frames[ppn]},
              !.freelist[bv_ind(ppn)] = @ \ {bv_ofs(ppn)},
              !.allocated = IF BitSet(m, ppn) THEN @ - 2 ELSE @]
LoadMissesCount(m, v, ppn) ==
    [m EXCEPT !.frames[ppn] = v,
              !.inMemory = @ \cup {v},
              !.currentPPN[v] = ppn,
              !.freelist[bv_ind(ppn)] = @ \cup {bv_ofs(ppn)}]
-----------------------------------------------------------------------------
Memory_hasFreePage(m) == MemSize > m.allocated

\* The first 0 bit of the first word that has one.  With no such bit the
\* function exits the program: callers test CanFindFreePage for that outcome.
CanFindFreePage(m) == ZeroBits(m) # {}
Memory_getFreePage(m) == Min(ZeroBits(m))

\* Sends the page in frame ppn to backing store.  The bit is flipped and the
\* counter decremented only when the bit was set (the else branch only warns).
Memory_evictPage(m, ppn) ==
    [m EXCEPT !.frames[ppn] = NoPage,
              !.inMemory = @ \ {m.frames[ppn]},
              !.freelist[bv_ind(ppn)] = @ \ {bv_ofs(ppn)},
              !.allocated = IF BitSet(m, ppn) THEN @ - 1 ELSE @]

Memory_loadPage(m, v, ppn) ==
    [m EXCEPT !.frames[ppn] = v,
              !.inMemory = @ \cup {v},
              !.currentPPN[v] = ppn,
              !.freelist[bv_ind(ppn)] = @ \cup {bv_ofs(ppn)},
              !.allocated = @ + 1]

\* A resident page gives its frame back.  The page is then free'd: what its
\* fields hold is no longer defined.
VPage_free(m, v) ==
    LET m1 == IF v \in m.inMemory THEN Memory_evictPage(m, m.currentPPN[v]) ELSE m
    IN  [m1 EXCEPT !.currentPPN[v] = Garbage]

-----------------------------------------------------------------------------
MemoryType ==
    [frames     : [Frames -> VPages \cup {NoPage}],
     freelist   : [Words -> SUBSET (0 .. WordBits - 1)],
     allocated  : Nat,
     inMemory   : SUBSET VPages,
     currentPPN : [VPages -> Frames \cup {Garbage}]]

TakenFrames(m) == {f \in Frames : m.frames[f] # NoPage}

\* memory[ppn]->virtualPage is v just when v->inMemory is set and v->currentPPN
\* is ppn.
MapsAgree(m) ==
    /\ \A f \in Frames : m.frames[f] # NoPage =>
          m.frames[f] \in m.inMemory /\ m.currentPPN[m.frames[f]] = f
    /\ \A v \in m.inMemory :
          m.currentPPN[v] \in Frames /\ m.frames[m.currentPPN[v]] = v

\* A bit is 1 just when its frame is taken, frames beyond the last whole word are
\* never taken, and the counter counts the taken ones.
FreeListAgrees(m) ==
    /\ \A f \in Frames :
          IF bv_ind(f) \in Words
          THEN BitSet(m, f) <=> m.frames[f] # NoPage
          ELSE m.frames[f] = NoPage
    /\ m.allocated = Cardinality(TakenFrames(m))
=============================================================================
