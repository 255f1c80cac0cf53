----------------------------- MODULE TraceFile -----------------------------
(***************************************************************************)
(* The trace file and what first_pass (src/trace_parser.c) leaves for the  *)
(* simulator: each process's line intervals and the first RUNNABLE queue.  *)
(*                                                                         *)
(* A trace is a sequence of lines <<pid, vpn>>, numbered from 1.  A byte   *)
(* offset of the file matters only for the order of offsets and for the    *)
(* line that is read next from one, so an offset is StartOf(k), where line *)
(* k begins, or EndOf(k), just before line k's newline.                    *)
(***************************************************************************)
EXTENDS Integers, Sequences, FiniteSets, FiniteSetsExt, SequencesExt

StartOf(k) == 2 * k
EndOf(k) == 2 * k + 1

\* The line fscanf reads from an offset, white space skipped.
LineAt(pos) == (pos + 1) \div 2

PidsOf(t) == {t[k][1] : k \in DOMAIN t}
LinesOf(t, p) == {k \in DOMAIN t : t[k][1] = p}

-----------------------------------------------------------------------------
\* A line starts an interval when the line before it belongs to another process.
StartsInterval(t, k) == k = 1 \/ t[k - 1][1] # t[k][1]

\* Slips in the two functions below, for the mutation checks.
HighOnePast(t, k) ==
    1 + Max({j \in k .. Len(t) : \A i \in k .. j : t[i][1] = t[k][1]})
FposOfLineBefore(k) == IF k = 1 THEN StartOf(1) ELSE StartOf(k - 1)

\* The last line of the interval that starts at line k.
HighOf(t, k) ==
    Max({j \in k .. Len(t) : \A i \in k .. j : t[i][1] = t[k][1]})

\* ftell before the read of line k: first_pass reads with a format that stops
\* before the newline, so it is still at the end of the line before.
FposStart(k) == IF k = 1 THEN StartOf(1) ELSE EndOf(k - 1)

\* The elements of S in the order of their keys, which are different numbers.
Ascending(S, key) ==
    CHOOSE s \in [1 .. Cardinality(S) -> S] :
        \A i, j \in DOMAIN s : i < j => key[s[i]] < key[s[j]]

\* The intervals that start at the given lines, in the order of the file.
IntervalsFrom(t, starts) ==
    LET lows == Ascending(starts, [k \in starts |-> k])
    IN  [n \in DOMAIN lows |-> [low        |-> lows[n],
                                high       |-> HighOf(t, lows[n]),
                                fpos_start |-> FposStart(lows[n])]]

\* Intervals arrive in the order of the file and it_insert puts a later one to
\* the right, so a process's tree is a chain of right children: a sequence.
LineIntervals(t, p) == IntervalsFrom(t, {k \in LinesOf(t, p) : StartsInterval(t, k)})

\* Process_init appends each process to RUNNABLE when its first interval ends.
FirstRunnable(t) == Ascending(PidsOf(t), [p \in PidsOf(t) |-> Min(LinesOf(t, p))])
=============================================================================
