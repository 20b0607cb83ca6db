------------------------------- MODULE MCBpf -------------------------------
(***************************************************************************)
(* SliceBpf on one or two threads.  The launch form attaches every probe   *)
(* before the program runs; the pid form attaches to a running program,    *)
(* whose threads may also exit inside the function.                        *)
(***************************************************************************)
EXTENDS SliceBpf, TLC

CONSTANTS t1, t2, x1, x2

MCOneThread == {t1}
MCOneTraceTid == {x1}
MCOneTraceMap == t1 :> x1
MCThreads == {t1, t2}
MCTraceTids == {x1, x2}
MCTraceTid == t1 :> x1 @@ t2 :> x2
MCAllLinks == LinkNames
MCNoLinks == {}

\* Exchanging both threads, under both of their names, changes nothing.
MCSymmetry ==
    {[y \in MCThreads \cup MCTraceTids |->
         IF y \in MCThreads THEN p[y]
         ELSE MCTraceTid[p[CHOOSE t \in MCThreads : MCTraceTid[t] = y]]] :
        p \in Permutations(MCThreads)}
=============================================================================
