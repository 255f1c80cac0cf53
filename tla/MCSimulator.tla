----------------------------- MODULE MCSimulator -----------------------------
(***************************************************************************)
(* Simulator for TLC: every trace of at most MaxLines lines.  Pids and     *)
(* page numbers are numbered so that the first line can be fixed: a trace  *)
(* that starts otherwise is one of these with names exchanged.             *)
(***************************************************************************)
EXTENDS Simulator

CONSTANT MaxLines

MCTraces ==
    {t \in UNION {[1 .. n -> VPages] : n \in 0 .. MaxLines} :
        t # << >> => t[1] = <<1, 1>>}
=============================================================================
