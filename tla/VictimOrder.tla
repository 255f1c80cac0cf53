----------------------------- MODULE VictimOrder -----------------------------
(***************************************************************************)
(* What the names of two of the replacement policies promise, after the    *)
(* README: LRU evicts the page whose last use is the oldest, FIFO the page *)
(* that came in first.  older holds the pairs <<u, v>> of pages in memory  *)
(* where u has the older last use, or came in before v; nothing is said    *)
(* here of queues, flags or frames.                                        *)
(***************************************************************************)
CONSTANT Pages

VARIABLES
    policy,     \* "LRU", "FIFO", or a policy that promises nothing here
    resident,   \* the pages in memory
    older       \* the order of their last uses (LRU) or of their loads (FIFO)

vars == <<policy, resident, older>>

Ordered == policy \in {"LRU", "FIFO"}

\* v becomes the youngest of the pages S.
Youngest(v, S) ==
    {pair \in older : pair[1] \in S \ {v} /\ pair[2] \in S \ {v}} \cup (S \ {v}) \X {v}

OldestIn(v) == \A u \in resident \ {v} : <<v, u>> \in older

Init == resident = {} /\ older = {}

\* A page in memory is used.
Use(v) ==
    /\ v \in resident
    /\ older' = IF policy = "LRU" THEN Youngest(v, resident) ELSE older
    /\ UNCHANGED <<policy, resident>>

\* A page is read from disk into a free frame.
Load(v) ==
    /\ v \notin resident
    /\ resident' = resident \cup {v}
    /\ older' = IF Ordered THEN Youngest(v, resident') ELSE older
    /\ UNCHANGED policy

\* A page is read from disk in the place of another.
Exchange(victim, v) ==
    /\ victim \in resident
    /\ v \notin resident
    /\ Ordered => OldestIn(victim)
    /\ resident' = (resident \ {victim}) \cup {v}
    /\ older' = IF Ordered THEN Youngest(v, resident') ELSE older
    /\ UNCHANGED policy

\* The process of the page has finished.
Discard(v) ==
    /\ v \in resident
    /\ resident' = resident \ {v}
    /\ older' = {pair \in older : pair[1] # v /\ pair[2] # v}
    /\ UNCHANGED policy

Next ==
    \/ \E v \in Pages : Use(v) \/ Load(v) \/ Discard(v)
    \/ \E victim, v \in Pages : Exchange(victim, v)

Spec == Init /\ [][Next]_vars
=============================================================================
