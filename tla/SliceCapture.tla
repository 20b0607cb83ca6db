---------------------------- MODULE SliceCapture ----------------------------
(***************************************************************************)
(* capture_pid of slice-ebpf: it attaches the links, lets a launched       *)
(* target run, polls the ring buffer until the target is gone or a stop is *)
(* requested, drains and closes the ring, detaches, and replays the        *)
(* records in time order into a Correlator.  The kernel programs and the   *)
(* profiled program (SliceBpf) run beside it.                              *)
(***************************************************************************)
EXTENDS SliceBpf, SliceCollector, SliceProfile

CONSTANTS
    Function,        \* request.function.id
    Targets,         \* whether the target was launched and is held, or is running
    Stoppable,       \* whether a stop may be requested
    LeaderMayExit,   \* whether the main thread may exit before the others
    Failing          \* whether a system call of the capture may fail

ASSUME CaptureAssumption ==
    /\ Tids = Threads
    /\ Ids = 2..(MaxCalls + 1)
    /\ StackFrames = Stacks \cup {NoStack}
    /\ States = {"OnCpu", "OffCpu"}
    /\ Functions = {Function}
    /\ Targets \subseteq {"held", "running"}
    /\ {Stoppable, LeaderMayExit, Failing} \subseteq BOOLEAN

VARIABLES
    phase,           \* where capture_pid is
    drains,          \* final polls made
    target,          \* "held", "running", "leaderless" or "exited"
    stopRequested,   \* request.stop_requested
    received,        \* events_seen: records in the order the ring gave them
    replayed         \* positions of received already pushed

captureVars == <<phase, drains, target, stopRequested, received, replayed>>
allVars == <<bpfVars, corrVars, captureVars>>

Phases == {"attaching", "looping", "polling", "draining", "detaching", "replaying",
           "done", "failed"}

CaptureInit ==
    /\ BpfInit
    /\ CorrInit
    /\ phase = "attaching"
    /\ drains = 0
    /\ target \in Targets
    /\ target = "held" => onCpu = [t \in Threads |-> FALSE]
    /\ stopRequested = FALSE
    /\ received = <<>>
    /\ replayed = {}

-----------------------------------------------------------------------------
(* The target and the user *)

\* Threads run until the process is gone.  What they do after the links are
\* gone is seen by nobody and left out.
TargetStep ==
    /\ target \in {"running", "leaderless"}
    /\ phase \in {"attaching", "looping", "polling", "draining", "detaching"}
    /\ KernelStep
    /\ UNCHANGED <<corrVars, captureVars>>

\* The main thread calls pthread_exit: the process shows as a zombie while
\* its other threads go on.
LeaderExits ==
    /\ LeaderMayExit
    /\ target = "running"
    /\ target' = "leaderless"
    /\ UNCHANGED <<bpfVars, corrVars, phase, drains, stopRequested, received, replayed>>

\* A thread finishes the handler it is in before the process dies.
TargetExits ==
    /\ target \in {"running", "leaderless"}
    /\ \A t \in Threads : pc[t] = "user"
    /\ target' = "exited"
    /\ UNCHANGED <<bpfVars, corrVars, phase, drains, stopRequested, received, replayed>>

\* The Ctrl-C handler sets the token; interrupt_process lets a held target run.
StopRequested ==
    /\ Stoppable
    /\ ~stopRequested
    /\ stopRequested' = TRUE
    /\ target' = IF target = "held" THEN "running" ELSE target
    /\ UNCHANGED <<bpfVars, corrVars, phase, drains, received, replayed>>

-----------------------------------------------------------------------------
(* Attaching *)

AttachLink ==
    /\ phase = "attaching"
    /\ \E l \in LinkNames : Attach(l)
    /\ UNCHANGED <<corrVars, captureVars>>

\* Every link is live: a launched target is resumed.
StartPolling ==
    /\ phase = "attaching"
    /\ \A l \in LinkNames : Live(l)
    /\ target' = IF target = "held" THEN "running" ELSE target
    /\ phase' = "looping"
    /\ UNCHANGED <<bpfVars, corrVars, drains, stopRequested, received, replayed>>

\* Any `?` of the capture: an attach, the ring buffer, SIGCONT or a poll.  The
\* links are dropped with the stack frame.
CaptureFails ==
    /\ Failing
    /\ phase \in {"attaching", "polling", "draining"}
    /\ phase' = "failed"
    /\ link' = [l \in LinkNames |-> "gone"]
    /\ UNCHANGED <<clock, program, handlers, maps, nextId, transport, droppedSamples,
                   corrVars, drains, target, stopRequested, received, replayed>>

-----------------------------------------------------------------------------
(* Polling *)

\* process_exists: a zombie main thread counts as a process that is gone.
ProcessExists == target \in {"held", "running"}

PollWhileAlive == ProcessExists

\* The condition of the polling loop.
KeepPolling == ProcessExists /\ ~stopRequested

LoopTest ==
    /\ phase = "looping"
    /\ phase' = IF KeepPolling THEN "polling" ELSE "draining"
    /\ UNCHANGED <<bpfVars, corrVars, drains, target, stopRequested, received, replayed>>

\* ring_buffer__poll hands the oldest record to the callback.
RecordReceived ==
    /\ phase \in {"polling", "draining"}
    /\ Consume
    /\ received' = Append(received, Head(ring))
    /\ UNCHANGED <<corrVars, phase, drains, target, stopRequested, replayed>>

\* poll_ring returns once the ring is empty, by data or by timeout.
PollReturned ==
    /\ phase = "polling"
    /\ ring = <<>>
    /\ phase' = "looping"
    /\ UNCHANGED <<bpfVars, corrVars, drains, target, stopRequested, received, replayed>>

\* A signal ends the wait before anything is consumed.  poll_ring reports it
\* as the end of the capture only if the stop token is already set.
PollInterrupted ==
    /\ Stoppable
    /\ phase = "polling"
    /\ phase' = IF stopRequested THEN "draining" ELSE "looping"
    /\ UNCHANGED <<bpfVars, corrVars, drains, target, stopRequested, received, replayed>>

LastDrain(n) == n = 3

\* One of three polls without timeout; after the last the ring is closed.
DrainReturned ==
    /\ phase = "draining"
    /\ ring = <<>>
    /\ drains' = drains + 1
    /\ phase' = IF LastDrain(drains') THEN "detaching" ELSE "draining"
    /\ UNCHANGED <<bpfVars, corrVars, target, stopRequested, received, replayed>>

\* A signal during a final poll costs that poll, or with the stop token all
\* that are left: what is still in the ring is never read.
DrainInterrupted ==
    /\ Stoppable
    /\ phase = "draining"
    /\ drains' = IF stopRequested THEN drains ELSE drains + 1
    /\ phase' = IF stopRequested \/ LastDrain(drains') THEN "detaching" ELSE "draining"
    /\ UNCHANGED <<bpfVars, corrVars, target, stopRequested, received, replayed>>

DetachLink ==
    /\ phase = "detaching"
    /\ \E l \in LinkNames : Detach(l)
    /\ UNCHANGED <<corrVars, captureVars>>

\* The loss counters are read once nothing can add to them.
ReadCounters ==
    /\ phase = "detaching"
    /\ \A l \in LinkNames : ~Live(l)
    /\ quality' = [quality EXCEPT !["eventsDropped"] = droppedEvents,
                                  !["samplesDropped"] = droppedSamples]
    /\ phase' = "replaying"
    /\ UNCHANGED <<bpfVars, tables, invocations, samples, finished, log,
                   drains, target, stopRequested, received, replayed>>

-----------------------------------------------------------------------------
(* Replaying *)

KindOrder(kind) ==
    CASE kind = "ENTRY" -> 0
      [] kind \in {"SAMPLE", "OFFCPU"} -> 1
      [] kind = "RETURN" -> 2
      [] OTHER -> 3

SortKey(e) == <<e.ts, e.tid, e.id, KindOrder(e.kind)>>

\* The lexicographic order of sort keys.
KeyLess(a, b) ==
    \E k \in 1..4 : a[k] < b[k] /\ \A m \in 1..(k - 1) : a[m] = b[m]

\* sort_events is stable.
Earlier(i, j) ==
    LET a == SortKey(received[i])
        b == SortKey(received[j])
    IN KeyLess(a, b) \/ (a = b /\ i < j)

Waiting == DOMAIN received \ replayed

\* The CollectorEvent a record becomes.
Translated(e) ==
    CASE e.kind = "ENTRY" ->
            [kind |-> "Entry", n |-> 0, id |-> e.id, fn |-> Function, tid |-> e.tid, ts |-> e.ts]
      [] e.kind = "RETURN" ->
            [kind |-> "Return", n |-> 0, id |-> e.id, fn |-> Function, tid |-> e.tid, ts |-> e.ts]
      [] e.kind = "VIOLATION" ->
            [kind |-> "Violation", n |-> 0, tid |-> e.tid, ts |-> e.ts]
      [] OTHER ->
            [kind |-> "Sample", n |-> 0, id |-> e.id, tid |-> e.tid, ts |-> e.ts,
             state |-> IF e.kind = "OFFCPU" THEN "OffCpu" ELSE "OnCpu",
             weight |-> e.weight, frames |-> e.stack]

Replay ==
    /\ phase = "replaying"
    /\ \E i \in Waiting :
          /\ \A j \in Waiting \ {i} : Earlier(i, j)
          /\ Push(Translated(received[i]))
          /\ replayed' = replayed \cup {i}
    /\ UNCHANGED <<bpfVars, phase, drains, target, stopRequested, received>>

\* finish(monotonic_ns()).
FinishProfile ==
    /\ phase = "replaying"
    /\ Waiting = {}
    /\ Finish(clock)
    /\ phase' = "done"
    /\ UNCHANGED <<bpfVars, drains, target, stopRequested, received, replayed>>

SampledThreads == {s.tid : s \in samples}

\* rebuild_threads: the threads of the invocations and the samples.
RebuiltThreads == {i.tid : i \in invocations} \cup {s.tid : s \in samples}

\* The profile capture_pid returns.
Profile ==
    [functions |-> {Function},
     threads |-> RebuiltThreads,
     invocations |-> {[id |-> i.id, fn |-> i.fn, tid |-> i.tid, start |-> i.start, end |-> i.end,
                       complete |-> i.complete, valid |-> i.valid, parent |-> NoParent] :
                         i \in invocations},
     stacks |-> {s.frames : s \in samples},
     samples |-> {[n |-> s.n, id |-> s.id, tid |-> s.tid, ts |-> s.ts, state |-> s.state,
                   weight |-> s.weight, stack |-> s.frames] : s \in samples},
     quality |-> [complete |-> quality["complete"], incomplete |-> quality["incomplete"],
                  samplesGenerated |-> quality["samplesGenerated"],
                  eventsGenerated |->
                     MaxOf(quality["eventsGenerated"], 2 * Cardinality(invocations))]]

-----------------------------------------------------------------------------
EnvironmentStep == TargetStep \/ LeaderExits \/ TargetExits \/ StopRequested

\* The steps of the capturing thread.
CaptureStep ==
    \/ AttachLink \/ StartPolling
    \/ LoopTest \/ RecordReceived \/ PollReturned \/ DrainReturned
    \/ DetachLink \/ ReadCounters
    \/ Replay \/ FinishProfile

CaptureNext == EnvironmentStep \/ CaptureStep \/ PollInterrupted \/ DrainInterrupted \/ CaptureFails

CaptureSpec == CaptureInit /\ [][CaptureNext]_allVars /\ WF_allVars(CaptureStep)

-----------------------------------------------------------------------------
(* Properties *)

Done == phase = "done"

ReceivedOf(kind, id) == {received[i] : i \in {j \in DOMAIN received :
                                            received[j].kind = kind /\ received[j].id = id}}

\* The profile a capture returns passes Profile::validate: the gate the
\* command-line tool applies to a file it reads.
ProfileValidates == Done => Validates(Profile)

OneCall(i) ==
    \A e \in ReceivedOf("ENTRY", i.id), r \in ReceivedOf("RETURN", i.id) : e.call = r.call

\* Unless the ring lost records, a valid invocation is one call of the
\* selected function: its entry and its return belong to the same call.
ValidIsOneCall ==
    (Done /\ quality["eventsDropped"] = 0) => \A i \in Population : OneCall(i)

\* The off-CPU time attributed to a valid invocation is time of that
\* invocation, and its thread was not sampled on a CPU during it.
OffCpuTimeIsItsOwn ==
    Done =>
       \A i \in Population :
          \A o \in {s \in samples : s.id = i.id /\ s.state = "OffCpu"} :
             /\ i.start <= o.ts - o.weight
             /\ \A s \in samples \ {o} :
                   s.id = i.id => s.ts <= o.ts - o.weight \/ o.ts <= s.ts - s.weight
                                  \/ (s.state = "OnCpu" /\ o.ts <= s.ts)

\* A call that was outermost, whose two boundary records arrived and whose
\* thread reported nothing else in between is in the valid population.
CleanCallIsValid ==
    Done =>
       \A i, j \in DOMAIN received :
          LET e == received[i]
              r == received[j]
              between == {k \in DOMAIN received \ {i, j} :
                            /\ received[k].tid = e.tid
                            /\ received[k].kind \in {"ENTRY", "RETURN", "VIOLATION"}
                            /\ e.ts <= received[k].ts /\ received[k].ts <= r.ts}
          IN (e.kind = "ENTRY" /\ r.kind = "RETURN" /\ e.call = r.call /\ between = {})
                => Report(e.id, Function, e.tid, e.ts, r.ts, TRUE, TRUE) \in invocations

\* Once the target is gone or a stop is requested the capture ends.
CaptureEnds == (stopRequested \/ ~ProcessExists) ~> phase \in {"done", "failed"}

\* The comment on capture_pid: it collects until the target exits or a stop
\* token is raised.
CollectsUntilExitOrStop ==
    phase \in {"draining", "detaching", "replaying", "done"} => target = "exited" \/ stopRequested

\* slice-ebpf/README.md: a dropped record is never concealed as a valid
\* invocation.
DropNeverConcealed == Done => \A i \in Population : OneCall(i)

\* slice-ebpf/README.md: the source rejects a nested entry.
NestedEntryRejected ==
    (Done /\ quality["eventsDropped"] = 0) =>
       \A i \in Population : \A e \in ReceivedOf("ENTRY", i.id) : e.depth = 1

=============================================================================
