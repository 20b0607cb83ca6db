------------------------- MODULE SliceLaunch_proofs -------------------------
(***************************************************************************)
(* Theorems about SliceLaunch.  Each invariant is strengthened to one that *)
(* every step preserves; the steps are split by the actions that disturb   *)
(* what it speaks of.                                                      *)
(***************************************************************************)
EXTENDS SliceLaunch, TLAPS

\* What the two paths hold, by the progress of the command.
FileInv ==
    /\ output \in {"old", "new"}
    /\ cli = "renaming" => temporary = "new"
    /\ cli \in {"reaping", "done"} => output = "new"
    /\ cli = "reaping" => temporary = "none"
    /\ cli \notin {"reaping", "done", "killed"} => output = "old"

LEMMA FileInvInductive == LaunchSpec => []FileInv
<1>1. LaunchInit => FileInv
  BY DEF LaunchInit, FileInv
<1>2. FileInv /\ [LaunchNext]_launchVars => FileInv'
  <2> SUFFICES ASSUME FileInv, [LaunchNext]_launchVars
               PROVE  FileInv'
    OBVIOUS
  <2>1. CASE CliStep
    BY <2>1 DEF FileInv, CliStep, CliKeeps, Start, StopProcess, WaitForStopped,
       ExitedBeforeStop, ResolveIdentity, SetHandler, LinksLive, Captured, Worthwhile,
       OpenTemporary, FillTemporary, Rename, Reap
  <2>2. CASE CliFails
    BY <2>2 DEF FileInv, CliFails, CliKeeps, StartFails, ResolveFails, SetHandlerFails,
       CaptureFails, NothingCaptured, WriteFails
  <2>3. CASE HandlerStep
    BY <2>3 DEF FileInv, HandlerStep, HandlerStores, HandlerInterrupts, HandlerContinues
  <2>4. CASE Delivery \/ LeaderExits \/ TargetExits
    BY <2>4 DEF FileInv, Delivery, StopDelivered, InterruptDelivered, KillDelivered,
       LeaderExits, TargetExits
  <2>5. CASE CtrlC \/ CommandKilled
    BY <2>5 DEF FileInv, CtrlC, CommandKilled, CliKeeps, Ended
  <2>6. CASE UNCHANGED launchVars
    BY <2>6 DEF FileInv, launchVars
  <2> QED
    BY <2>1, <2>2, <2>3, <2>4, <2>5, <2>6 DEF LaunchNext
<1> QED
  BY <1>1, <1>2, PTL DEF LaunchSpec

\* The output path is replaced by a complete file or left alone, whatever fails
\* and whenever the command is killed.
THEOREM OutputAtomic == LaunchSpec => []OutputOldOrWhole
<1>1. FileInv => OutputOldOrWhole
  BY DEF FileInv, OutputOldOrWhole
<1> QED
  BY <1>1, FileInvInductive, PTL

\* The way the command ended tells what the output path holds.
THEOREM StatusIsTruthful == LaunchSpec => []StatusTellsOutput
<1>1. FileInv => StatusTellsOutput
  BY DEF FileInv, StatusTellsOutput
<1> QED
  BY <1>1, FileInvInductive, PTL

\* Every step of the command, its target, their signals and the user is a step
\* of the abstract saver or leaves its file, status and scratch file alone.
THEOREM CommandImplementsSave == LaunchSpec => SaveIsAtomic
<1> USE DEF Save!saveVars, Save!SaveNext, Save!Prepare, Save!Replace, Save!Succeed,
      Save!Fail, Save!Die
<1>1. LaunchInit => Save!SaveInit
  BY DEF LaunchInit, Save!SaveInit, Ended
<1>2. FileInv /\ [LaunchNext]_launchVars => [Save!SaveNext]_Save!saveVars
  <2> SUFFICES ASSUME FileInv, [LaunchNext]_launchVars
               PROVE  [Save!SaveNext]_Save!saveVars
    OBVIOUS
  <2> USE DEF FileInv, Ended, CliKeeps
  <2>1. CASE Start \/ StopProcess \/ WaitForStopped \/ ExitedBeforeStop
             \/ ResolveIdentity \/ SetHandler \/ LinksLive \/ Captured \/ Worthwhile
    BY <2>1 DEF Start, StopProcess, WaitForStopped, ExitedBeforeStop, ResolveIdentity,
       SetHandler, LinksLive, Captured, Worthwhile
  <2>2. CASE OpenTemporary \/ FillTemporary
    BY <2>2 DEF OpenTemporary, FillTemporary
  <2>3. CASE Rename
    BY <2>3 DEF Rename
  <2>4. CASE Reap
    BY <2>4 DEF Reap
  <2>5. CASE StartFails \/ ResolveFails \/ SetHandlerFails \/ CaptureFails
             \/ NothingCaptured \/ WriteFails
    BY <2>5 DEF StartFails, ResolveFails, SetHandlerFails, CaptureFails,
       NothingCaptured, WriteFails
  <2>6. CASE HandlerStep \/ Delivery \/ LeaderExits \/ TargetExits
    BY <2>6 DEF HandlerStep, HandlerStores, HandlerInterrupts, HandlerContinues,
       Delivery, StopDelivered, InterruptDelivered, KillDelivered, LeaderExits, TargetExits
  <2>7. CASE CtrlC \/ CommandKilled
    BY <2>7 DEF CtrlC, CommandKilled
  <2>8. CASE UNCHANGED launchVars
    BY <2>8 DEF launchVars
  <2> QED
    BY <2>1, <2>2, <2>3, <2>4, <2>5, <2>6, <2>7, <2>8 DEF LaunchNext, CliStep, CliFails
<1> QED
  BY <1>1, <1>2, FileInvInductive, PTL DEF LaunchSpec, SaveIsAtomic, Save!SaveSpec


\* Every variable keeps its type.
THEOREM LaunchTypeCorrect == LaunchSpec => []LaunchTypeOK
<1>1. LaunchInit => LaunchTypeOK
  BY DEF LaunchInit, LaunchTypeOK, Setup, ChildStates
<1>2. LaunchTypeOK /\ FileInv /\ [LaunchNext]_launchVars => LaunchTypeOK'
  <2> SUFFICES ASSUME LaunchTypeOK, FileInv, LaunchNext
               PROVE  LaunchTypeOK'
    BY DEF LaunchTypeOK, launchVars
  <2> USE DEF LaunchNext, CliStep, CliFails, HandlerStep, Delivery,
        Start, StopProcess, WaitForStopped, ExitedBeforeStop, ResolveIdentity,
        SetHandler, LinksLive, Captured, Worthwhile, OpenTemporary, FillTemporary,
        Rename, Reap, StartFails, ResolveFails, SetHandlerFails, CaptureFails,
        NothingCaptured, WriteFails, HandlerStores, HandlerInterrupts,
        HandlerContinues, StopDelivered, InterruptDelivered, KillDelivered,
        LeaderExits, TargetExits, CtrlC, CommandKilled, CliKeeps
  <2>1. cli' \in Setup \cup Ended \cup {"attaching", "collecting", "checking", "opening",
                                        "writing", "renaming", "reaping"}
    BY DEF LaunchTypeOK, Setup, Ended
  <2>2. launched' \in BOOLEAN /\ obeys' \in BOOLEAN /\ token' \in BOOLEAN
    BY DEF LaunchTypeOK
  <2>3. child' \in ChildStates
    BY DEF LaunchTypeOK, ChildStates, KillLaunched, Continue
  <2>4. pending' \subseteq {"STOP", "INT", "KILL"}
    <3>1. pending \subseteq {"STOP", "INT", "KILL"}
      BY DEF LaunchTypeOK
    <3>2. \A s \in {"STOP", "INT", "KILL"} : Sent(s) \subseteq {"STOP", "INT", "KILL"}
      BY <3>1 DEF Sent
    <3>3. \/ pending' \in {pending, {}, Sent("STOP"), Sent("INT"), Sent("KILL")}
          \/ pending' \in {pending \ {"STOP"}, pending \ {"INT"}}
      BY DEF KillLaunched, Continue
    <3> QED
      BY <3>1, <3>2, <3>3
  <2>5. handler' \in {"none", "idle", "called", "stored", "sent"}
    BY DEF LaunchTypeOK
  <2>6. output' \in {"old", "partial", "new"} /\ temporary' \in {"none", "partial", "new"}
    BY DEF LaunchTypeOK, FileInv
  <2> QED
    BY <2>1, <2>2, <2>3, <2>4, <2>5, <2>6 DEF LaunchTypeOK
<1> QED
  BY <1>1, <1>2, FileInvInductive, PTL DEF LaunchSpec

-----------------------------------------------------------------------------
\* Who may have been signalled, and with what.
SignalInv ==
    /\ ~launched => /\ pending = {}
                    /\ cli \notin {"stopping", "holding"}
                    /\ handler \notin {"stored", "sent"}
    /\ "KILL" \in pending => cli = "failed"
    /\ handler \in {"stored", "sent"} => token
    /\ cli \in Setup => handler = "none"
    /\ (launched /\ cli \in {"identifying", "installing", "attaching"} /\ ~token) =>
          child = "stopped"

LEMMA SignalInvInductive == LaunchSpec => []SignalInv
<1>1. LaunchInit => SignalInv
  BY DEF LaunchInit, SignalInv
<1>2. SignalInv /\ [LaunchNext]_launchVars => SignalInv'
  <2> SUFFICES ASSUME SignalInv, [LaunchNext]_launchVars
               PROVE  SignalInv'
    OBVIOUS
  <2> USE DEF SignalInv, Setup
  <2>1. CASE Start \/ StopProcess \/ WaitForStopped \/ ExitedBeforeStop
             \/ ResolveIdentity \/ SetHandler
    BY <2>1 DEF CliKeeps, Start, StopProcess, WaitForStopped, Held, Sent, Alive,
       ExitedBeforeStop, ResolveIdentity, SetHandler
  <2>2. CASE LinksLive \/ Captured \/ Worthwhile \/ OpenTemporary \/ FillTemporary
             \/ Rename \/ Reap
    BY <2>2 DEF CliKeeps, LinksLive, Continue, Captured, Worthwhile, OpenTemporary,
       FillTemporary, Rename, Reap
  <2>3. CASE CliFails
    BY <2>3 DEF CliFails, CliKeeps, StartFails, ResolveFails, SetHandlerFails,
       CaptureFails, NothingCaptured, WriteFails, KillLaunched, Sent, Alive
  <2>4. CASE HandlerStep
    BY <2>4 DEF HandlerStep, HandlerStores, HandlerInterrupts, HandlerContinues, Continue,
       Sent, Alive
  <2>5. CASE Delivery \/ LeaderExits \/ TargetExits
    BY <2>5 DEF Delivery, StopDelivered, InterruptDelivered, KillDelivered,
       LeaderExits, TargetExits
  <2>6. CASE CtrlC \/ CommandKilled
    BY <2>6 DEF CtrlC, CommandKilled, CliKeeps, Ended, Sent, Alive
  <2>7. CASE UNCHANGED launchVars
    BY <2>7 DEF launchVars
  <2> QED
    BY <2>1, <2>2, <2>3, <2>4, <2>5, <2>6, <2>7 DEF LaunchNext, CliStep
<1> QED
  BY <1>1, <1>2, PTL DEF LaunchSpec

\* A held target neither runs nor dies before every link is live, unless the
\* user interrupted the capture.
THEOREM HeldUntilLinksLive == LaunchSpec => []HeldWhileAttaching
<1>1. SignalInv => HeldWhileAttaching
  BY DEF SignalInv, HeldWhileAttaching
<1> QED
  BY <1>1, SignalInvInductive, PTL

\* No path of the command signals a process it did not launch.
THEOREM AttachedUntouched == LaunchSpec => []AttachedIsNotSignalled
<1>1. SignalInv => AttachedIsNotSignalled
  BY DEF SignalInv, AttachedIsNotSignalled
<1> QED
  BY <1>1, SignalInvInductive, PTL

-----------------------------------------------------------------------------
\* After the links are live a target is not held again, and a stop that was
\* sent before the handler was installed has taken effect by then.
FreedInv ==
    /\ cli \in {"starting", "stopping"} => child # "stopped" /\ "STOP" \notin pending
    /\ "STOP" \in pending => child # "stopped"
    /\ (launched /\ cli \in {"identifying", "installing"}) => "STOP" \notin pending
    /\ handler # "none" => "STOP" \notin pending
    /\ cli \in {"attaching", "collecting", "checking"} => handler # "none"
    /\ (launched /\ cli \in {"collecting", "checking"}) => child # "stopped"
    /\ ~launched => child # "stopped"
    /\ FailureFreesTarget

\* A command that fails with its handler installed has sent the kill to a
\* target that is still held.
THEOREM FailedTargetIsKilled == LaunchSpec => []FailureFreesTarget
<1>1. LaunchInit => FreedInv
  BY DEF LaunchInit, FreedInv, FailureFreesTarget
<1>2. SignalInv /\ SignalInv' /\ FreedInv /\ [LaunchNext]_launchVars => FreedInv'
  <2> SUFFICES ASSUME SignalInv, SignalInv', FreedInv, [LaunchNext]_launchVars
               PROVE  FreedInv'
    OBVIOUS
  <2> USE DEF SignalInv, FreedInv, FailureFreesTarget, Setup
  <2>1. CASE Start \/ StopProcess \/ WaitForStopped \/ ExitedBeforeStop
             \/ ResolveIdentity \/ SetHandler
    BY <2>1 DEF CliKeeps, Start, StopProcess, WaitForStopped, Held, Sent, Alive,
       ExitedBeforeStop, ResolveIdentity, SetHandler
  <2>2. CASE LinksLive \/ Captured \/ Worthwhile \/ OpenTemporary \/ FillTemporary
             \/ Rename \/ Reap
    BY <2>2 DEF CliKeeps, LinksLive, Continue, Captured, Worthwhile, OpenTemporary,
       FillTemporary, Rename, Reap
  <2>3. CASE CliFails
    BY <2>3 DEF CliFails, CliKeeps, StartFails, ResolveFails, SetHandlerFails,
       CaptureFails, NothingCaptured, WriteFails, KillLaunched, Sent, Alive
  <2>4. CASE HandlerStep
    BY <2>4 DEF HandlerStep, HandlerStores, HandlerInterrupts, HandlerContinues, Continue,
       Sent, Alive
  <2>5. CASE Delivery \/ LeaderExits \/ TargetExits
    BY <2>5 DEF Delivery, StopDelivered, InterruptDelivered, KillDelivered,
       LeaderExits, TargetExits
  <2>6. CASE CtrlC \/ CommandKilled
    BY <2>6 DEF CtrlC, CommandKilled, CliKeeps, Ended, Sent, Alive
  <2>7. CASE UNCHANGED launchVars
    BY <2>7 DEF launchVars
  <2> QED
    BY <2>1, <2>2, <2>3, <2>4, <2>5, <2>6, <2>7 DEF LaunchNext, CliStep
<1>3. FreedInv => FailureFreesTarget
  BY DEF FreedInv
<1> QED
  BY <1>1, <1>2, <1>3, SignalInvInductive, PTL DEF LaunchSpec

=============================================================================
