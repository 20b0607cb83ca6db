---------------------------- MODULE SliceLaunch ----------------------------
(***************************************************************************)
(* The command `slice profile`: it launches the target and holds it, or    *)
(* takes a running one, captures it, and writes the profile.  Beside the   *)
(* command run the target, its signals, and the thread of the Ctrl-C       *)
(* handler.  The capture itself is SliceCapture; here it is reduced to     *)
(* what the command sees of it: the links become live, then it ends.       *)
(***************************************************************************)
VARIABLES
    cli,             \* where `profile` is, or how the command ended
    launched,        \* PROGRAM was given, not --pid
    obeys,           \* the target ends when it gets SIGINT
    child,           \* the target process
    pending,         \* signals sent to the target that have not taken effect
    handler,         \* the Ctrl-C handler: where its thread is
    token,           \* stop_requested
    output,          \* what the output path holds: "old", "partial" or "new"
    temporary        \* what the temporary path holds

launchVars == <<cli, launched, obeys, child, pending, handler, token, output, temporary>>

Setup == {"starting", "stopping", "holding", "identifying", "installing"}

Ended == {"done", "failed", "killed"}

ChildStates == {"none", "running", "stopped", "leaderless", "zombie", "reaped"}

LaunchTypeOK ==
    /\ cli \in Setup \cup Ended \cup {"attaching", "collecting", "checking", "opening",
                                      "writing", "renaming", "reaping"}
    /\ launched \in BOOLEAN
    /\ obeys \in BOOLEAN
    /\ child \in ChildStates
    /\ pending \subseteq {"STOP", "INT", "KILL"}
    /\ handler \in {"none", "idle", "called", "stored", "sent"}
    /\ token \in BOOLEAN
    /\ output \in {"old", "partial", "new"}
    /\ temporary \in {"none", "partial", "new"}

LaunchInit ==
    /\ cli = "starting"
    /\ launched \in BOOLEAN
    /\ obeys \in BOOLEAN
    /\ child = IF launched THEN "none" ELSE "running"
    /\ pending = {}
    /\ handler = "none"
    /\ token = FALSE
    /\ output = "old"
    /\ temporary = "none"

-----------------------------------------------------------------------------
(* Signals *)

Alive == child \in {"running", "stopped", "leaderless"}

\* SIGCONT wakes a stopped process at once and discards a pending stop.
Continue ==
    /\ child' = IF child = "stopped" THEN "running" ELSE child
    /\ pending' = pending \ {"STOP"}

\* signal_process.  A signal to a zombie is accepted and lost; one to a reaped
\* child goes to whatever has the pid.
Sent(s) == IF Alive THEN pending \cup {s} ELSE pending

KillTarget ==
    /\ pending' = Sent("KILL")
    /\ UNCHANGED child

\* The error paths of `profile`: kill_process, for a launched target only.
KillLaunched ==
    /\ pending' = IF launched THEN Sent("KILL") ELSE pending
    /\ UNCHANGED child

StopDelivered ==
    /\ "STOP" \in pending
    /\ child \in {"running", "leaderless"}
    /\ child' = "stopped"
    /\ pending' = pending \ {"STOP"}
    /\ UNCHANGED <<cli, launched, obeys, handler, token, output, temporary>>

InterruptDelivered ==
    /\ "INT" \in pending
    /\ child \in {"running", "leaderless"}
    /\ child' = IF obeys THEN "zombie" ELSE child
    /\ pending' = IF obeys THEN {} ELSE pending \ {"INT"}
    /\ UNCHANGED <<cli, launched, obeys, handler, token, output, temporary>>

KillDelivered ==
    /\ "KILL" \in pending
    /\ Alive
    /\ child' = "zombie"
    /\ pending' = {}
    /\ UNCHANGED <<cli, launched, obeys, handler, token, output, temporary>>

\* The target's main thread ends before the others.
LeaderExits ==
    /\ child = "running"
    /\ child' = "leaderless"
    /\ UNCHANGED <<cli, launched, obeys, pending, handler, token, output, temporary>>

TargetExits ==
    /\ child \in {"running", "leaderless"}
    /\ child' = "zombie"
    /\ pending' = {}
    /\ UNCHANGED <<cli, launched, obeys, handler, token, output, temporary>>

-----------------------------------------------------------------------------
(* Launching *)

CliKeeps == UNCHANGED <<launched, obeys, handler, token, output, temporary>>

\* select_symbol, and for a launched target Command::spawn.
Start ==
    /\ cli = "starting"
    /\ cli' = IF launched THEN "stopping" ELSE "identifying"
    /\ child' = IF launched THEN "running" ELSE child
    /\ UNCHANGED pending
    /\ CliKeeps

StartFails ==
    /\ cli = "starting"
    /\ cli' = "failed"
    /\ UNCHANGED <<child, pending>>
    /\ CliKeeps

StopProcess ==
    /\ cli = "stopping"
    /\ cli' = "holding"
    /\ pending' = Sent("STOP")
    /\ UNCHANGED child
    /\ CliKeeps

HeldOrRunning == child \in {"running", "stopped"}

\* The status waitpid waits for.
Held == child = "stopped"

WaitForStopped ==
    /\ cli = "holding"
    /\ Held
    /\ cli' = "identifying"
    /\ UNCHANGED <<child, pending>>
    /\ CliKeeps

\* waitpid returns the exit of a child that was not stopped in time, and reaps
\* it.  The kill_process that follows has no child left to reach.
ExitedBeforeStop ==
    /\ cli = "holding"
    /\ child = "zombie"
    /\ child' = "reaped"
    /\ cli' = "failed"
    /\ UNCHANGED pending
    /\ CliKeeps

ResolveIdentity ==
    /\ cli = "identifying"
    /\ cli' = "installing"
    /\ UNCHANGED <<child, pending>>
    /\ CliKeeps

\* The `?` after resolve_process_identity: nothing is undone.
ResolveFails ==
    /\ cli = "identifying"
    /\ cli' = "failed"
    /\ UNCHANGED <<child, pending>>
    /\ CliKeeps

SetHandler ==
    /\ cli = "installing"
    /\ cli' = "attaching"
    /\ handler' = "idle"
    /\ UNCHANGED <<launched, obeys, child, pending, token, output, temporary>>

SetHandlerFails ==
    /\ cli = "installing"
    /\ cli' = "failed"
    /\ KillLaunched
    /\ CliKeeps

-----------------------------------------------------------------------------
(* Capturing *)

\* Every link is live: resume_after_attach.
LinksLive ==
    /\ cli = "attaching"
    /\ cli' = "collecting"
    /\ IF launched THEN Continue ELSE UNCHANGED <<child, pending>>
    /\ CliKeeps

\* capture_pid returns a profile: the main thread is gone, or a stop was
\* requested.
Captured ==
    /\ cli = "collecting"
    /\ token \/ child \in {"leaderless", "zombie"}
    /\ cli' = "checking"
    /\ UNCHANGED <<child, pending>>
    /\ CliKeeps

CaptureAbandoned ==
    /\ cli \in {"attaching", "collecting"}
    /\ cli' = "failed"
    /\ UNCHANGED <<child, pending>>
    /\ CliKeeps

CaptureFails ==
    /\ cli \in {"attaching", "collecting"}
    /\ cli' = "failed"
    /\ KillLaunched
    /\ CliKeeps

\* At least one complete valid invocation.
Worthwhile ==
    /\ cli = "checking"
    /\ cli' = "opening"
    /\ UNCHANGED <<child, pending>>
    /\ CliKeeps

\* None: the command fails, and neither kills nor waits for the target.
NothingCaptured ==
    /\ cli = "checking"
    /\ cli' = "failed"
    /\ UNCHANGED <<child, pending>>
    /\ CliKeeps

-----------------------------------------------------------------------------
(* write_profile_atomically *)

WriteInPlace ==
    /\ cli = "opening"
    /\ cli' = "writing"
    /\ output' = "partial"
    /\ temporary' = "partial"
    /\ UNCHANGED <<launched, obeys, child, pending, handler, token>>

\* std::fs::write truncates the temporary file, then fills it.
OpenTemporary ==
    /\ cli = "opening"
    /\ cli' = "writing"
    /\ temporary' = "partial"
    /\ UNCHANGED <<launched, obeys, child, pending, handler, token, output>>

FillTemporary ==
    /\ cli = "writing"
    /\ cli' = "renaming"
    /\ temporary' = "new"
    /\ UNCHANGED <<launched, obeys, child, pending, handler, token, output>>

Rename ==
    /\ cli = "renaming"
    /\ cli' = "reaping"
    /\ output' = temporary
    /\ temporary' = "none"
    /\ UNCHANGED <<launched, obeys, child, pending, handler, token>>

WriteErrorIgnored ==
    /\ cli \in {"opening", "writing", "renaming"}
    /\ cli' = "reaping"
    /\ temporary' = "none"
    /\ UNCHANGED <<launched, obeys, child, pending, handler, token, output>>

\* Any error of it: the temporary file is removed, if that works, and the
\* launched target killed.
WriteFails ==
    /\ cli \in {"opening", "writing", "renaming"}
    /\ cli' = "failed"
    /\ temporary' \in {temporary, "none"}
    /\ KillLaunched
    /\ UNCHANGED <<launched, obeys, handler, token, output>>

\* launched.wait(): a zombie main thread is not enough.
Reap ==
    /\ cli = "reaping"
    /\ launched => child = "zombie"
    /\ child' = IF launched THEN "reaped" ELSE child
    /\ cli' = "done"
    /\ UNCHANGED pending
    /\ CliKeeps

-----------------------------------------------------------------------------
(* The user *)

\* Ctrl-C reaches the command and, from a terminal, its child.  Until the
\* handler is installed it ends the command.
CtrlC ==
    /\ cli \notin Ended
    /\ handler \in {"none", "idle"}
    /\ cli' = IF handler = "none" THEN "killed" ELSE cli
    /\ handler' = IF handler = "none" THEN "none" ELSE "called"
    /\ pending' \in {pending} \cup (IF launched THEN {Sent("INT")} ELSE {})
    /\ UNCHANGED <<launched, obeys, child, token, output, temporary>>

\* The command is killed outright.
CommandKilled ==
    /\ cli \notin Ended
    /\ cli' = "killed"
    /\ UNCHANGED <<child, pending>>
    /\ CliKeeps

HandlerStores ==
    /\ cli \notin Ended
    /\ handler = "called"
    /\ token' = TRUE
    /\ handler' = IF launched THEN "stored" ELSE "idle"
    /\ UNCHANGED <<cli, launched, obeys, child, pending, output, temporary>>

HandlerSkips ==
    /\ cli \notin Ended
    /\ handler = "stored"
    /\ handler' = "sent"
    /\ UNCHANGED <<cli, launched, obeys, child, pending, token, output, temporary>>

\* interrupt_process.  Its first signal fails if the child was reaped.
HandlerInterrupts ==
    /\ cli \notin Ended
    /\ handler = "stored"
    /\ pending' = Sent("INT")
    /\ handler' = IF child = "reaped" THEN "idle" ELSE "sent"
    /\ UNCHANGED <<cli, launched, obeys, child, token, output, temporary>>

HandlerContinues ==
    /\ cli \notin Ended
    /\ handler = "sent"
    /\ Continue
    /\ handler' = "idle"
    /\ UNCHANGED <<cli, launched, obeys, token, output, temporary>>

-----------------------------------------------------------------------------
CliStep ==
    \/ Start \/ StopProcess \/ WaitForStopped \/ ExitedBeforeStop
    \/ ResolveIdentity \/ SetHandler
    \/ LinksLive \/ Captured \/ Worthwhile
    \/ OpenTemporary \/ FillTemporary \/ Rename \/ Reap

CliFails ==
    \/ StartFails \/ ResolveFails \/ SetHandlerFails
    \/ CaptureFails \/ NothingCaptured \/ WriteFails

HandlerStep == HandlerStores \/ HandlerInterrupts \/ HandlerContinues

Delivery == StopDelivered \/ InterruptDelivered \/ KillDelivered

LaunchNext ==
    \/ CliStep \/ CliFails \/ HandlerStep \/ Delivery
    \/ LeaderExits \/ TargetExits \/ CtrlC \/ CommandKilled

LaunchSpec ==
    /\ LaunchInit
    /\ [][LaunchNext]_launchVars
    /\ WF_launchVars(CliStep)
    /\ WF_launchVars(HandlerStep)
    /\ WF_launchVars(Delivery)

-----------------------------------------------------------------------------
(* Properties *)

\* Whatever fails and whenever the command dies, the output path holds what it
\* held before or the whole new profile.
OutputOldOrWhole == output \in {"old", "new"}

\* The exit status tells which: a command that succeeds has replaced the file,
\* one that fails has not touched it.
StatusTellsOutput ==
    /\ cli = "done" => output = "new"
    /\ cli = "failed" => output = "old"

\* The command implements the promise of SliceSave about its output: one whole
\* replacement or none, told by the exit status, and no scratch file left after
\* a success.
Save ==
    INSTANCE SliceSave
    WITH status <- IF cli \in Ended THEN cli ELSE "busy",
         file <- output,
         scratch <- temporary # "none"
SaveIsAtomic == Save!SaveSpec

\* From the moment the launched target is held until every link is live it
\* does not run, unless the user interrupted the capture.
HeldWhileAttaching ==
    (launched /\ cli \in {"identifying", "installing", "attaching"} /\ ~token) =>
        child = "stopped"

\* A target given by --pid is never signalled.
AttachedIsNotSignalled == ~launched => pending = {}

\* Once the handler is installed, a command that fails leaves no target behind
\* that is held: the kill has been sent.
FailureFreesTarget ==
    (cli = "failed" /\ handler # "none" /\ child = "stopped") => "KILL" \in pending

\* Once the target is gone, or after Ctrl-C if the target obeys it, the command
\* ends: nobody waits for somebody who is held or was never told.
CommandEnds == ((token /\ obeys) \/ child = "zombie") ~> (cli \in Ended)

\* kill_process: a launched target is killed when the setup of its capture
\* fails.  A command that fails therefore leaves no held target.
NeverLeftHeld ==
    (cli = "failed" /\ child = "stopped") => "KILL" \in pending

=============================================================================
