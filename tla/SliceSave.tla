----------------------------- MODULE SliceSave -----------------------------
(***************************************************************************)
(* What `slice profile` promises about the file given by --output: while   *)
(* the command is busy the file is replaced at most once, by a whole       *)
(* profile; a command that reports success has replaced it and cleared its *)
(* scratch file away, one that reports failure has not touched it.         *)
(* SliceLaunch implements this with a temporary file and a rename.         *)
(***************************************************************************)
VARIABLES
    status,          \* "busy", or how the command ended
    file,            \* what the output path holds
    scratch          \* whether a scratch file lies beside it

saveVars == <<status, file, scratch>>

SaveInit == status = "busy" /\ file = "old" /\ ~scratch

Prepare ==
    /\ status = "busy" /\ file = "old"
    /\ scratch' = TRUE
    /\ UNCHANGED <<status, file>>

Replace ==
    /\ status = "busy" /\ scratch
    /\ file' = "new"
    /\ scratch' = FALSE
    /\ UNCHANGED status

Succeed ==
    /\ status = "busy" /\ file = "new" /\ ~scratch
    /\ status' = "done"
    /\ UNCHANGED <<file, scratch>>

\* A failing command clears the scratch file away if it can.
Fail ==
    /\ status = "busy" /\ file = "old"
    /\ status' = "failed"
    /\ scratch' \in {scratch, FALSE}
    /\ UNCHANGED file

Die ==
    /\ status = "busy"
    /\ status' = "killed"
    /\ UNCHANGED <<file, scratch>>

SaveNext == Prepare \/ Replace \/ Succeed \/ Fail \/ Die

SaveSpec == SaveInit /\ [][SaveNext]_saveVars
=============================================================================
