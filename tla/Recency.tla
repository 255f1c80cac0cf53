------------------------------- MODULE Recency -------------------------------
(***************************************************************************)
(* Paging with the history that tells whether a replacement policy does    *)
(* what it is for.  The history follows the references the processes make  *)
(* and the pages that come and go, not the state of the replacement        *)
(* module; every behaviour of Paging is allowed.  Clock's sweep is also    *)
(* written here as the loop of src/replace-clock.c.                        *)
(***************************************************************************)
EXTENDS Paging

VARIABLES
    older,      \* LRU and FIFO: the order of last uses, or of loads
    survived    \* Clock: the evictions a page has survived since its last use

recencyVars == <<pagingVars, older, survived>>

Order == INSTANCE VictimOrder WITH
    Pages    <- VPages,
    policy   <- rep.policy,
    resident <- mem.inMemory

-----------------------------------------------------------------------------
\* Clock's loop.  After n turns the hand has passed the n frames from where it
\* was and cleared their bits; it stops at a frame whose bit is not 1.
HandAfter(r, n) == (r.hand + n) % MemSize

BitsAfter(r) ==
    LET bits[n \in Nat] ==
            IF n = 0 THEN r.refbit
            ELSE [bits[n - 1] EXCEPT ![HandAfter(r, n - 1)] = 0]
    IN  bits

ClockLoop(r) ==
    LET Stops(n) == BitsAfter(r)[n][HandAfter(r, n)] # 1
        turns == Min({n \in 0 .. MemSize : Stops(n)})
    IN  [r EXCEPT !.hand = HandAfter(r, turns), !.refbit = BitsAfter(r)[turns]]

-----------------------------------------------------------------------------
RecencyInit ==
    /\ PagingInit
    /\ older = {}
    /\ survived = [v \in VPages |-> 0]

Forget(v) == {pair \in older : pair[1] # v /\ pair[2] # v}

\* A page is used when a reference hits it and when it comes in.
HitHistory(v) ==
    /\ older' = IF rep.policy = "LRU" THEN Order!Youngest(v, mem.inMemory) ELSE older
    /\ survived' = [survived EXCEPT ![v] = 0]

LoadHistory(v) ==
    LET evicted == mem.inMemory \ mem'.inMemory
    IN  /\ older' = IF KeepsQueue(rep) THEN Order!Youngest(v, mem'.inMemory) ELSE older
        /\ survived' = [u \in VPages |->
                CASE rep.policy # "CLOCK" \/ u = v \/ u \notin mem'.inMemory -> 0
                  [] OTHER -> survived[u] + Cardinality(evicted)]

DestroyHistory(v) ==
    /\ older' = Forget(v)
    /\ survived' = [survived EXCEPT ![v] = 0]

RecencyNext ==
    \/ \E v \in VPages :
          \/ (Hit(v) \/ HitAndFinish(v)) /\ HitHistory(v)
          \/ Miss(v) /\ UNCHANGED <<older, survived>>
          \/ DestroyVPage(v) /\ DestroyHistory(v)
    \/ \E p \in Pids : FinishDiskIO(p) /\ LoadHistory(waitingOnPage[p])

RecencySpec == RecencyInit /\ [][RecencyNext]_recencyVars

-----------------------------------------------------------------------------
\* LRU evicts the page "with the longest time since [its] last reference", FIFO
\* the first that came in (README:27-29, replace-lru.c:17, replace-fifo.c:19),
\* whatever hits, evictions and quitting processes have done to the queue.
EvictsOldest == Order!Spec

\* Clock gives a page a second chance, and one only: a page that is not used is
\* gone before the hand has come round twice (replace-clock.c:80-90).
ClockComesRound ==
    MemSize > 1 => \A v \in mem.inMemory : survived[v] < 2 * (MemSize - 1)

\* The frame and the bits Replace_getPageToEvict leaves are those of the loop in
\* replace-clock.c:84-88, which also ends when every bit is 1, back where it began.
SweepIsLoop ==
    rep.policy = "CLOCK" =>
        LET loop == ClockLoop(rep)
        IN  Replace_getPageToEvict(rep, mem) = {[ppn |-> loop.hand, rep |-> loop]}
=============================================================================
