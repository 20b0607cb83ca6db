------------------------------ MODULE SliceBpf ------------------------------
(***************************************************************************)
(* The kernel half of Slice: the programs of slice.bpf.c and their maps.   *)
(*                                                                         *)
(* A uprobe handler runs in the context of the probed thread and can be    *)
(* preempted, so slice_entry and slice_return take several steps here.     *)
(* slice_sched_switch runs with interrupts disabled and slice_sample is an *)
(* interrupt that may nest in a uprobe handler: one step each.  A thread   *)
(* is named by its BPF thread id; TraceTid gives the identity under which  *)
(* the sched_switch tracepoint knows the same thread.                      *)
(***************************************************************************)
EXTENDS Integers, Sequences, FiniteSets

CONSTANTS
    Threads,         \* threads of the profiled process
    Other,           \* any task that is not one of them
    TraceTids,       \* thread identities of the sched_switch tracepoint
    TraceTid,        \* the tracepoint's name for each thread
    Stacks,          \* ids bpf_get_stackid may return
    NoStack,         \* a negative result of bpf_get_stackid
    None,            \* no entry in a map
    Links,           \* the probe links that are live from the start
    ActiveCapacity,  \* max_entries of active_by_tid
    RingCapacity,    \* records that fit in the ring buffer
    SamplePeriod,    \* config.sample_period_ns
    Ticks,           \* how far the clock may advance between two readings
    MaxClock,        \* bound on bpf_ktime_get_ns
    MaxCalls,        \* bound on the calls of the selected function
    MaxDepth,        \* bound on its recursion
    Exits,           \* whether a thread may exit inside the function
    Detaches         \* whether the links are dropped while the program runs

AttachOrder == <<"entry", "return", "sched", "perf">>
LinkNames == {AttachOrder[i] : i \in 1..4}

ASSUME TidAssumption ==
    /\ Other \notin Threads
    /\ None \notin Threads \cup TraceTids \cup Nat \cup [id : Nat, start : Nat]
    /\ TraceTid \in [Threads -> TraceTids]
    /\ \A s, t \in Threads : TraceTid[s] = TraceTid[t] => s = t

ASSUME BoundAssumption ==
    /\ Ticks \subseteq Nat
    /\ {ActiveCapacity, RingCapacity, SamplePeriod, MaxClock, MaxCalls, MaxDepth} \subseteq Nat
    /\ NoStack \notin Stacks
    /\ Links \subseteq LinkNames
    /\ Exits \in BOOLEAN /\ Detaches \in BOOLEAN

VARIABLES
    clock,           \* last value bpf_ktime_get_ns returned
    link,            \* "new", "live" or "gone" for each probe link
    onCpu,           \* is the thread running on some CPU
    frames,          \* the thread's frames of the selected function
    calls,           \* calls of the selected function made so far
    pc,              \* where the thread is in a uprobe handler
    probe,           \* what the running handler has read: time, call, depth
    active,          \* active_by_tid
    offcpu,          \* offcpu_by_tid
    traceToBpf,      \* trace_tid_to_bpf_tid
    bpfToTrace,      \* bpf_tid_to_trace_tid
    nextId,          \* next_invocation_id
    ring,            \* submitted records the consumer has not seen
    droppedEvents,   \* dropped_events
    droppedSamples   \* dropped_samples

program == <<onCpu, frames, calls>>
handlers == <<pc, probe>>
maps == <<active, offcpu, traceToBpf, bpfToTrace>>
transport == <<ring, droppedEvents>>
bpfVars == <<clock, link, program, handlers, maps, nextId, transport, droppedSamples>>

-----------------------------------------------------------------------------
(* Types *)

Kinds == {"ENTRY", "RETURN", "SAMPLE", "VIOLATION", "OFFCPU"}
Frame == [call : Nat, ret : BOOLEAN]
Probe == [at : Nat, call : Nat, depth : Nat]
Active == [id : Nat, start : Nat]
OffcpuStart == [at : Nat, stack : Stacks \cup {NoStack}]

\* struct slice_event.  call and depth are ghosts: the call of the selected
\* function a boundary record belongs to, and how many calls deep it was.
Event == [kind : Kinds, tid : Threads, ts : Nat, id : Nat,
          stack : Stacks \cup {NoStack}, weight : Nat, call : Nat, depth : Nat]

\* Every map, handler register and ring record has the type of its C struct.
BpfTypeOK ==
    /\ clock \in Nat
    /\ link \in [LinkNames -> {"new", "live", "gone"}]
    /\ onCpu \in [Threads -> BOOLEAN]
    /\ frames \in [Threads -> Seq(Frame)]
    /\ calls \in Nat
    /\ pc \in [Threads -> {"user", "entry", "announce", "return", "clear"}]
    /\ probe \in [Threads -> Probe]
    /\ active \in [Threads -> Active \cup {None}]
    /\ offcpu \in [Threads -> OffcpuStart \cup {None}]
    /\ traceToBpf \in [TraceTids -> Threads \cup {None}]
    /\ bpfToTrace \in [Threads -> TraceTids \cup {None}]
    /\ nextId \in Nat
    /\ ring \in Seq(Event)
    /\ droppedEvents \in Nat
    /\ droppedSamples \in Nat

NoProbe == [at |-> 0, call |-> 0, depth |-> 0]

\* capture_pid stores 1 in next_invocation_id; all other maps start empty.
BpfInit ==
    /\ clock = 0
    /\ link = [l \in LinkNames |-> IF l \in Links THEN "live" ELSE "new"]
    /\ onCpu \in [Threads -> BOOLEAN]
    /\ frames = [t \in Threads |-> <<>>]
    /\ calls = 0
    /\ pc = [t \in Threads |-> "user"]
    /\ probe = [t \in Threads |-> NoProbe]
    /\ active = [t \in Threads |-> None]
    /\ offcpu = [t \in Threads |-> None]
    /\ traceToBpf = [x \in TraceTids |-> None]
    /\ bpfToTrace = [t \in Threads |-> None]
    /\ nextId = 1
    /\ ring = <<>>
    /\ droppedEvents = 0
    /\ droppedSamples = 0

-----------------------------------------------------------------------------
(* Helpers *)

Live(l) == link[l] = "live"

\* The values bpf_ktime_get_ns may return next.
Readings == {clock + d : d \in Ticks} \cap 0..MaxClock

\* emit(): a record that finds the ring full is counted and lost.
Emit(e) ==
    IF Len(ring) < RingCapacity
    THEN ring' = Append(ring, e) /\ UNCHANGED droppedEvents
    ELSE droppedEvents' = droppedEvents + 1 /\ UNCHANGED ring

\* A boundary record of the handler t is in, about invocation id.
Boundary(kind, t, id) ==
    [kind |-> kind, tid |-> t, ts |-> probe[t].at, id |-> id, stack |-> NoStack,
     weight |-> 0, call |-> probe[t].call, depth |-> probe[t].depth]

StackRecord(kind, t, now, stack, weight) ==
    [kind |-> kind, tid |-> t, ts |-> now, id |-> active[t].id, stack |-> stack,
     weight |-> weight, call |-> 0, depth |-> 0]

CountDroppedStack(stack) ==
    droppedSamples' = IF stack = NoStack THEN droppedSamples + 1 ELSE droppedSamples

NeverOccupied(t) == FALSE

\* The thread is inside an invocation.
Occupied(t) == active[t] # None

ActiveThreads == {t \in Threads : active[t] # None}

InUser(t) == pc[t] = "user" /\ onCpu[t]

\* Leave the handler t is in for pc p.
Goto(t, p) == pc' = [pc EXCEPT ![t] = p] /\ UNCHANGED probe

-----------------------------------------------------------------------------
(* The program and the links *)

\* capture_pid attaches the links in AttachOrder.
Attach(l) ==
    /\ link[l] = "new"
    /\ \E i \in 1..4 : /\ AttachOrder[i] = l
                       /\ \A j \in 1..(i - 1) : Live(AttachOrder[j])
    /\ link' = [link EXCEPT ![l] = "live"]
    /\ UNCHANGED <<clock, program, handlers, maps, nextId, transport, droppedSamples>>

\* They are dropped in another order: perf_links, uprobe_links, sched_link.
DetachOrder == <<"perf", "entry", "return", "sched">>

Detach(l) ==
    /\ Detaches
    /\ \A m \in LinkNames : link[m] # "new"
    /\ Live(l)
    /\ \E i \in 1..4 : /\ DetachOrder[i] = l
                       /\ \A j \in 1..(i - 1) : link[DetachOrder[j]] = "gone"
    /\ link' = [link EXCEPT ![l] = "gone"]
    /\ UNCHANGED <<clock, program, handlers, maps, nextId, transport, droppedSamples>>

\* A call of the selected function.  The return address is hijacked only if
\* the return probe is registered by then; slice_entry runs, and reads the
\* clock, if the entry probe is.
Call(t) ==
    /\ InUser(t)
    /\ calls < MaxCalls
    /\ Len(frames[t]) < MaxDepth
    /\ calls' = calls + 1
    /\ frames' = [frames EXCEPT ![t] = Append(@, [call |-> calls', ret |-> Live("return")])]
    /\ IF Live("entry")
       THEN \E now \in Readings :
               /\ clock' = now
               /\ pc' = [pc EXCEPT ![t] = "entry"]
               /\ probe' = [probe EXCEPT ![t] =
                      [at |-> now, call |-> calls', depth |-> Len(frames[t]) + 1]]
       ELSE UNCHANGED <<clock, handlers>>
    /\ UNCHANGED <<link, onCpu, maps, nextId, transport, droppedSamples>>

\* The innermost call returns, into slice_return if it was hijacked.
Return(t) ==
    /\ InUser(t)
    /\ frames[t] # <<>>
    /\ LET depth == Len(frames[t])
           top == frames[t][depth]
       IN /\ frames' = [frames EXCEPT ![t] = SubSeq(@, 1, depth - 1)]
          /\ IF top.ret /\ Live("return")
             THEN \E now \in Readings :
                     /\ clock' = now
                     /\ pc' = [pc EXCEPT ![t] = "return"]
                     /\ probe' = [probe EXCEPT ![t] =
                            [at |-> now, call |-> top.call, depth |-> depth]]
             ELSE UNCHANGED <<clock, handlers>>
    /\ UNCHANGED <<link, onCpu, calls, maps, nextId, transport, droppedSamples>>

\* The thread exits inside the function and its tids are reused: a later
\* thread of the same name starts with no frames, the maps know nothing of it.
ThreadExit(t) ==
    /\ Exits
    /\ InUser(t)
    /\ frames[t] # <<>>
    /\ frames' = [frames EXCEPT ![t] = <<>>]
    /\ UNCHANGED <<clock, link, onCpu, calls, handlers, maps, nextId, transport, droppedSamples>>

-----------------------------------------------------------------------------
(* slice_entry *)

KeepId == UNCHANGED nextId

\* The atomic increment of next_invocation_id.
AdvanceId == nextId' = nextId + 1

EntryIgnored(t) ==
    /\ pc[t] = "entry" /\ onCpu[t]
    /\ Occupied(t)
    /\ Goto(t, "user")
    /\ UNCHANGED <<clock, link, program, maps, nextId, transport, droppedSamples>>

\* The thread is already inside an invocation: report the overlap.
EntryRejected(t) ==
    /\ pc[t] = "entry" /\ onCpu[t]
    /\ Occupied(t)
    /\ Emit(Boundary("VIOLATION", t, 0))
    /\ Goto(t, "user")
    /\ UNCHANGED <<clock, link, program, maps, nextId, droppedSamples>>

\* Allocate the id and enter the invocation in active_by_tid.
EntryInstalled(t) ==
    /\ pc[t] = "entry" /\ onCpu[t]
    /\ ~Occupied(t)
    /\ Cardinality(ActiveThreads \ {t}) < ActiveCapacity
    /\ AdvanceId
    /\ active' = [active EXCEPT ![t] = [id |-> nextId + 1, start |-> probe[t].at]]
    /\ Goto(t, "announce")
    /\ UNCHANGED <<clock, link, program, offcpu, traceToBpf, bpfToTrace, transport,
                   droppedSamples>>

\* active_by_tid is full: the id is spent and nobody is told.
EntryRefused(t) ==
    /\ pc[t] = "entry" /\ onCpu[t]
    /\ ~Occupied(t)
    /\ Cardinality(ActiveThreads \ {t}) >= ActiveCapacity
    /\ AdvanceId
    /\ Goto(t, "user")
    /\ UNCHANGED <<clock, link, program, maps, transport, droppedSamples>>

EntryAnnounced(t) ==
    /\ pc[t] = "announce" /\ onCpu[t]
    /\ Emit(Boundary("ENTRY", t, active[t].id))
    /\ Goto(t, "user")
    /\ UNCHANGED <<clock, link, program, maps, nextId, droppedSamples>>

-----------------------------------------------------------------------------
(* slice_return *)

ReturnUnmatched(t) ==
    /\ pc[t] = "return" /\ onCpu[t]
    /\ active[t] = None
    /\ Emit(Boundary("VIOLATION", t, 0))
    /\ Goto(t, "user")
    /\ UNCHANGED <<clock, link, program, maps, nextId, droppedSamples>>

ReturnEmitted(t) ==
    /\ pc[t] = "return" /\ onCpu[t]
    /\ active[t] # None
    /\ Emit(Boundary("RETURN", t, active[t].id))
    /\ Goto(t, "clear")
    /\ UNCHANGED <<clock, link, program, maps, nextId, droppedSamples>>

WithActive(t) == active

WithoutActive(t) == [active EXCEPT ![t] = None]

WithTrace(traced) == traceToBpf

WithoutTrace(traced) == [x \in TraceTids |-> IF x = traced THEN None ELSE traceToBpf[x]]

\* The four deletions: once active_by_tid has lost the thread the other maps
\* are read only to be cleared, so deleting in one step loses no behaviour.
ReturnCleared(t) ==
    /\ pc[t] = "clear" /\ onCpu[t]
    /\ active' = WithoutActive(t)
    /\ offcpu' = [offcpu EXCEPT ![t] = None]
    /\ traceToBpf' = WithoutTrace(bpfToTrace[t])
    /\ bpfToTrace' = [bpfToTrace EXCEPT ![t] = None]
    /\ Goto(t, "user")
    /\ UNCHANGED <<clock, link, program, nextId, transport, droppedSamples>>

-----------------------------------------------------------------------------
(* slice_sample *)

\* The sampling interrupt finds t running inside an invocation.  Interrupts
\* (samples and context switches) never share a clock reading with the step
\* before them.
SampleTaken(t) ==
    /\ Live("perf")
    /\ onCpu[t]
    /\ active[t] # None
    /\ \E now \in Readings \ {clock}, stack \in Stacks \cup {NoStack} :
          /\ clock' = now
          /\ CountDroppedStack(stack)
          /\ IF stack = NoStack
             THEN UNCHANGED transport
             ELSE Emit(StackRecord("SAMPLE", t, now, stack, SamplePeriod))
    /\ UNCHANGED <<link, program, handlers, maps, nextId>>

-----------------------------------------------------------------------------
(* slice_sched_switch *)

\* The handler acts on the outgoing task only inside an invocation.
Recorded(prev) == prev \in Threads /\ active[prev] # None

TracedAfterSwitchOut(prev) ==
    IF Recorded(prev) THEN [traceToBpf EXCEPT ![TraceTid[prev]] = prev] ELSE traceToBpf

OffcpuAfterSwitchOut(prev, now, stack) ==
    IF Recorded(prev) THEN [offcpu EXCEPT ![prev] = [at |-> now, stack |-> stack]] ELSE offcpu

\* The BPF tid the handler looks up for the incoming task.
Incoming(traced, next) == IF next \in Threads THEN traced[TraceTid[next]] ELSE None

UnsubtractedWeight(now, start) == now

SwappedWeight(now, start) == start - now

OffcpuWeight(now, start) == IF now > start THEN now - start ELSE 0

Remembered(started, tid) == started

Forgotten(started, tid) == [started EXCEPT ![tid] = None]

\* The interval of the incoming thread is emitted and forgotten; one whose
\* invocation is over is only forgotten.
SwitchIn(next, now, traced, started) ==
    LET tid == Incoming(traced, next)
    IN IF tid = None
       THEN offcpu' = started /\ UNCHANGED transport
       ELSE IF started[tid] # None /\ active[tid] # None
       THEN /\ offcpu' = Forgotten(started, tid)
            /\ Emit(StackRecord("OFFCPU", tid, now, started[tid].stack,
                                OffcpuWeight(now, started[tid].at)))
       ELSE /\ offcpu' = IF active[tid] = None THEN Forgotten(started, tid) ELSE started
            /\ UNCHANGED transport

\* Both halves of the handler, for the outgoing and the incoming task.
SwitchHandler(prev, next) ==
    \E now \in Readings \ {clock}, stack \in Stacks \cup {NoStack} :
       /\ clock' = now
       /\ ~Recorded(prev) => stack = NoStack
       /\ traceToBpf' = TracedAfterSwitchOut(prev)
       /\ bpfToTrace' = IF Recorded(prev)
                        THEN [bpfToTrace EXCEPT ![prev] = TraceTid[prev]]
                        ELSE bpfToTrace
       /\ IF Recorded(prev) THEN CountDroppedStack(stack) ELSE UNCHANGED droppedSamples
       /\ SwitchIn(next, now, TracedAfterSwitchOut(prev), OffcpuAfterSwitchOut(prev, now, stack))

\* A CPU switches from prev to next.
SchedSwitch(prev, next) ==
    /\ prev # next
    /\ prev \in Threads => onCpu[prev]
    /\ next \in Threads => ~onCpu[next]
    /\ onCpu' = [t \in Threads |-> IF t = prev THEN FALSE ELSE IF t = next THEN TRUE ELSE onCpu[t]]
    /\ IF Live("sched")
       THEN SwitchHandler(prev, next)
       ELSE UNCHANGED <<clock, offcpu, traceToBpf, bpfToTrace, transport, droppedSamples>>
    /\ UNCHANGED <<link, frames, calls, handlers, active, nextId>>

-----------------------------------------------------------------------------
\* ring_buffer__poll takes the oldest record.
Consume ==
    /\ ring # <<>>
    /\ ring' = Tail(ring)
    /\ UNCHANGED <<clock, link, program, handlers, maps, nextId, droppedEvents, droppedSamples>>

ProgramStep(t) == Call(t) \/ Return(t) \/ ThreadExit(t)

HandlerStep(t) ==
    \/ EntryRejected(t) \/ EntryInstalled(t) \/ EntryRefused(t) \/ EntryAnnounced(t)
    \/ ReturnUnmatched(t) \/ ReturnEmitted(t) \/ ReturnCleared(t)

\* What happens without the capture process taking part.
KernelStep ==
    \/ \E t \in Threads : ProgramStep(t) \/ HandlerStep(t) \/ SampleTaken(t)
    \/ \E prev, next \in Threads \cup {Other} : SchedSwitch(prev, next)

BpfNext ==
    \/ KernelStep
    \/ \E l \in LinkNames : Attach(l) \/ Detach(l)
    \/ Consume

BpfSpec == BpfInit /\ [][BpfNext]_bpfVars

-----------------------------------------------------------------------------
(* Properties *)

\* A handler that has installed its invocation, or reported its end, still
\* finds the entry in active_by_tid when it comes back to it.
EntryHeld == \A t \in Threads : pc[t] \in {"announce", "clear"} => active[t] # None

\* The three secondary maps never outlive the active entry they describe, and
\* the two identity maps are inverse to each other, so a map with the capacity
\* of active_by_tid cannot overflow and no thread inherits another's interval.
MapsMirror ==
    /\ \A t \in Threads :
          /\ active[t] = None => offcpu[t] = None /\ bpfToTrace[t] = None
          /\ offcpu[t] # None => bpfToTrace[t] # None
          /\ bpfToTrace[t] \in {None, TraceTid[t]}
    /\ \A t \in Threads, x \in TraceTids : traceToBpf[x] = t <=> bpfToTrace[t] = x

\* While slice_sched_switch is attached a running thread has no open off-CPU
\* interval: every interval is closed by the switch-in that ends it.
OffcpuOnlyWhileOff ==
    Live("sched") => \A t \in Threads : onCpu[t] => offcpu[t] = None

\* No two threads share an invocation id, and no id is handed out twice.
OneOwnerPerId ==
    \A s, t \in ActiveThreads :
       /\ active[s].id <= nextId
       /\ active[s].id = active[t].id => s = t

\* active_by_tid and next_invocation_id implement the promise of
\* SliceInvocations: whatever the handlers, the scheduler and full maps do, a
\* thread's invocation is entered with a new id and only ever replaced by none.
Invocations ==
    INSTANCE SliceInvocations
    WITH open <- [t \in Threads |-> IF active[t] = None THEN None ELSE active[t].id],
         used <- 1..nextId
InvocationsAreExclusive == Invocations!InvocationSpec

Submitted(kind) == {i \in DOMAIN ring : ring[i].kind = kind}

\* The selected population does not overlap on a thread: between two accepted
\* entries of a thread slice_return reported the end of the first, unless the
\* ring lost records.
InvocationsDoNotOverlap ==
    \A i, j \in Submitted("ENTRY") :
       (i < j /\ ring[i].tid = ring[j].tid /\ droppedEvents = 0)
          => \E k \in Submitted("RETURN") : k \in i..j /\ ring[k].id = ring[i].id

\* While the entry probe is attached: if a thread's return ends an invocation
\* another of its calls began, a VIOLATION was reported between the two records,
\* unless the ring lost some.
MismatchIsReported ==
    Live("entry") =>
       \A i \in Submitted("ENTRY"), j \in Submitted("RETURN") :
          (ring[i].id = ring[j].id /\ ring[i].call # ring[j].call /\ droppedEvents = 0)
             => \E k \in Submitted("VIOLATION") : k \in i..j /\ ring[k].tid = ring[i].tid

\* The time an OFFCPU record accounts for, ts - weight to ts, begins after the
\* ENTRY of its invocation and is never cut in two by the RETURN.
OffcpuInsideInvocation ==
    \A i \in Submitted("OFFCPU") :
       LET o == ring[i]
       IN /\ \A k \in Submitted("ENTRY") :
                ring[k].id = o.id => ring[k].ts <= o.ts - o.weight
          /\ \A k \in Submitted("RETURN") :
                ring[k].id = o.id => o.ts <= ring[k].ts \/ ring[k].ts <= o.ts - o.weight

\* When every probe was attached before the program ran and no thread exits
\* inside the function, a thread that has left the function has left
\* active_by_tid too, however its calls nested and whatever was lost.
NoActiveLeak ==
    (Links = LinkNames /\ ~Exits /\ \A l \in LinkNames : Live(l))
       => \A t \in Threads :
             (frames[t] = <<>> /\ pc[t] = "user") => active[t] = None

=============================================================================
