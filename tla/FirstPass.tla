------------------------------ MODULE FirstPass ------------------------------
(***************************************************************************)
(* What the first pass over a trace promises the simulator: the processes  *)
(* learn of their lines one run of lines at a time, a run being the lines  *)
(* of one pid up to the next line of another, and RUNNABLE lists the       *)
(* processes in the order of their first lines.  TraceFile says what the   *)
(* intervals and the queue of a trace are; here a pass that has got to a   *)
(* line knows exactly those of the lines before it.                        *)
(***************************************************************************)
EXTENDS TraceFile

CONSTANT Owner(_)   \* the process that the lines of a pid belong to

VARIABLES
    trace,      \* the lines, from the first to the last that can be read
    cut,        \* whether the file goes on after them
    intervals,  \* the intervals so far of each process known
    runnable,   \* the processes known
    failed      \* the pass has given up

vars == <<trace, cut, intervals, runnable, failed>>

\* The lines, each under the name of its owner.
Owned(t) == [k \in DOMAIN t |-> <<Owner(t[k][1]), t[k][2]>>]

OwnedIntervals(t, name) ==
    IntervalsFrom(t, {k \in LinesOf(Owned(t), name) : StartsInterval(t, k)})

\* What a pass that has seen the first n lines knows.
KnownAfter(n) ==
    LET seen == SubSeq(trace, 1, n)
    IN  /\ intervals = [name \in PidsOf(Owned(seen)) |-> OwnedIntervals(seen, name)]
        /\ runnable = FirstRunnable(Owned(seen))

\* The lines at which a run ends.
RunEnds == {n \in DOMAIN trace : n = Len(trace) \/ trace[n][1] # trace[n + 1][1]}

Init == KnownAfter(0) /\ failed = FALSE

\* The end of the run before the one that ends at line n, or 0.
RunBefore(n) == Max({0} \cup {m \in RunEnds : m < n})

\* 0 is no pid: a pass that reads it gives up.
PidsAreValid(n) == \A k \in DOMAIN trace : k <= n => trace[k][1] # 0

\* One run more is known: its end shows in the line after it.
TakeRun ==
    /\ ~ failed
    /\ \E n \in RunEnds :
          /\ PidsAreValid(n + 1)
          /\ KnownAfter(RunBefore(n))
          /\ KnownAfter(n)'
    /\ UNCHANGED <<trace, cut, failed>>

\* The pass gives up at the first line with pid 0, the run before that line not
\* taken.  It may give up a file whose first line cannot be read, and no other.
GivesUpHere ==
    \/ \E n \in DOMAIN trace :
          /\ trace[n][1] = 0
          /\ PidsAreValid(n - 1)
          /\ KnownAfter(RunBefore(n - 1))
    \/ trace = << >> /\ cut

GiveUp ==
    /\ ~ failed
    /\ GivesUpHere
    /\ failed' = TRUE
    /\ UNCHANGED <<trace, cut, intervals, runnable>>

Next == TakeRun \/ GiveUp

Spec == Init /\ [][Next]_vars

\* The pass reaches the end of the trace or gives up.
Ends == <>[](failed \/ KnownAfter(Len(trace)))
=============================================================================
