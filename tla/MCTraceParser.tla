---------------------------- MODULE MCTraceParser ----------------------------
(***************************************************************************)
(* TraceParser for TLC: every file of at most MaxLines lines over a few    *)
(* pids, 0 among them, and unreadable lines.  The pass does not look at    *)
(* page numbers: one is enough.  A pid alone is followed by the text that  *)
(* is no number, which the next fscanf meets again, or ends the file.      *)
(***************************************************************************)
EXTENDS TraceParser

CONSTANTS MaxLines, FilePids

MCFiles ==
    {f \in UNION {[1 .. n -> (FilePids \X {1, NoVpn}) \cup {Unreadable}] :
                     n \in 0 .. MaxLines} :
        \A k \in DOMAIN f :
            f[k] # Unreadable /\ f[k][2] = NoVpn /\ k < Len(f) => f[k + 1] = Unreadable}
=============================================================================
