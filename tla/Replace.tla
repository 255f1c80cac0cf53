------------------------------ MODULE Replace ------------------------------
(***************************************************************************)
(* The replacement module behind src/replace.h.  Each of the four programs *)
(* links one implementation of that interface: replace-lru.c,              *)
(* replace-fifo.c, replace-clock.c or replace-random.c.  The record r      *)
(* holds the file-scope state of all four and the name of the one that is  *)
(* linked; the parts the linked one does not have keep their first value.  *)
(*                                                                         *)
(* queue, inQueue and pages belong to LRU and FIFO (the TAILQ, the flag in *)
(* each page's overhead, the counter); refbit and hand belong to Clock.    *)
(***************************************************************************)
EXTENDS Memory, Sequences, SequencesExt

Policies == {"LRU", "FIFO", "CLOCK", "RANDOM"}
KeepsQueue(r) == r.policy \in {"LRU", "FIFO"}

\* The reference bits are malloc'ed and never cleared.
Replace_initReplacementModule(policy) ==
    [policy  |-> policy,
     queue   |-> << >>,
     inQueue |-> {},
     pages   |-> 0,
     refbit  |-> [f \in Frames |-> Garbage],
     hand    |-> 0]

-----------------------------------------------------------------------------
\* Slips in the sweep, for the mutation checks.
DistancePastHand(r, f) == (f - r.hand - 1 + MemSize) % MemSize
SweepClearsNothing(r) == {}

\* Clock's loop: walk from the hand, clearing bits that are 1, up to the first
\* bit that is not.  When every bit is 1 the walk clears them all and is back at
\* the frame it started from.
Distance(r, f) == (f - r.hand + MemSize) % MemSize
Unset(r) == {f \in Frames : r.refbit[f] # 1}
SweepStop(r) ==
    IF Unset(r) = {} THEN r.hand
    ELSE CHOOSE f \in Unset(r) :
            \A g \in Unset(r) : Distance(r, f) <= Distance(r, g)
Swept(r) ==
    IF Unset(r) = {} THEN Frames
    ELSE {f \in Frames : Distance(r, f) < Distance(r, SweepStop(r))}
-----------------------------------------------------------------------------
\* Slips in the functions below, for the mutation checks.
FreeOverheadKeepsEntry(r, v) == r
AccessReturnsToHead(r, m, v) ==
    CASE r.policy = "LRU"   -> [r EXCEPT !.queue = << v >> \o RemoveFirst(@, v)]
      [] r.policy = "CLOCK" -> [r EXCEPT !.refbit[m.currentPPN[v]] = 1]
      [] OTHER              -> r
LoadSkipsClockBit(r, m, v) ==
    IF KeepsQueue(r)
    THEN [r EXCEPT !.queue = Append(@, v), !.inQueue = @ \cup {v}, !.pages = @ + 1]
    ELSE r
-----------------------------------------------------------------------------
\* Called once after every page hit.
Replace_notifyPageAccess(r, m, v) ==
    CASE r.policy = "LRU"   -> [r EXCEPT !.queue = Append(RemoveFirst(@, v), v)]
      [] r.policy = "CLOCK" -> [r EXCEPT !.refbit[m.currentPPN[v]] = 1]
      [] OTHER              -> r

\* Called once after every page load.
Replace_notifyPageLoad(r, m, v) ==
    CASE KeepsQueue(r) -> [r EXCEPT !.queue = Append(@, v),
                                    !.inQueue = @ \cup {v},
                                    !.pages = @ + 1]
      [] r.policy = "CLOCK" -> Replace_notifyPageAccess(r, m, v)
      [] OTHER -> r

\* Called when a virtual page is freed.
Replace_freeOverhead(r, v) ==
    IF KeepsQueue(r) /\ v \in r.inQueue
    THEN [r EXCEPT !.queue = RemoveFirst(@, v), !.inQueue = @ \ {v}, !.pages = @ - 1]
    ELSE r

\* The frames that may be chosen, each with the module's state afterwards.  Only
\* Random leaves a choice: rand() % numPages is any frame.
Replace_getPageToEvict(r, m) ==
    CASE KeepsQueue(r) ->
            {[ppn |-> m.currentPPN[Head(r.queue)],
              rep |-> [r EXCEPT !.queue = Tail(@),
                                !.inQueue = @ \ {Head(r.queue)},
                                !.pages = @ - 1]]}
      [] r.policy = "CLOCK" ->
            {[ppn |-> SweepStop(r),
              rep |-> [r EXCEPT !.hand = SweepStop(r),
                                !.refbit = [f \in Frames |->
                                    IF f \in Swept(r) THEN 0 ELSE @[f]]]]}
      [] OTHER -> {[ppn |-> f, rep |-> r] : f \in Frames}

-----------------------------------------------------------------------------
ReplaceType ==
    [policy  : Policies,
     queue   : Seq(VPages),
     inQueue : SUBSET VPages,
     pages   : Int,
     refbit  : [Frames -> {0, 1, Garbage}],
     hand    : Frames]

\* The LRU or FIFO queue is the resident pages, each once, and the flags and the
\* counter agree with it.
QueueAgrees(r, m) ==
    IF KeepsQueue(r)
    THEN /\ Range(r.queue) = m.inMemory
         /\ IsInjective(r.queue)
         /\ r.inQueue = m.inMemory
         /\ r.pages = Len(r.queue)
         /\ r.pages = m.allocated
    ELSE r.inQueue = {} /\ r.pages = 0

\* Clock's bit of a taken frame has been set since it was allocated.
BitsKnown(r, m) ==
    r.policy = "CLOCK" => \A f \in TakenFrames(m) : r.refbit[f] # Garbage
=============================================================================
