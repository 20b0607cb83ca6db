----------------------------- MODULE MCCapture -----------------------------
(***************************************************************************)
(* SliceCapture on one or two threads.                                     *)
(***************************************************************************)
EXTENDS SliceCapture, TLC

MCOneThread == {1}
MCOneTraceTid == {11}
MCOneTraceMap == 1 :> 11
MCThreads == {1, 2}
MCTraceTids == {11, 12}
MCTraceMap == 1 :> 11 @@ 2 :> 12
MCNoLinks == {}
MCIds == 2..(MaxCalls + 1)
MCStackFrames == Stacks \cup {NoStack}
=============================================================================
