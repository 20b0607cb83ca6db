-------------------------- MODULE SliceBpf_proofs --------------------------
(***************************************************************************)
(* What holds of the kernel programs for every set of threads, every map   *)
(* and ring capacity and every bound: the types, and the invariant that    *)
(* ties offcpu_by_tid and the two identity maps to active_by_tid.          *)
(***************************************************************************)
EXTENDS SliceBpf, TLAPS

(* Types of the records and of emit *)

\* A record a uprobe handler builds is a struct slice_event.
LEMMA BoundaryType ==
    ASSUME BpfTypeOK, NEW t \in Threads, NEW kind \in Kinds, NEW id \in Nat
    PROVE  Boundary(kind, t, id) \in Event
<1>1. probe[t] \in Probe
    BY DEF BpfTypeOK
<1> QED
    BY <1>1 DEF Boundary, Event, Probe

\* So is a record a stack program builds.
LEMMA StackRecordType ==
    ASSUME BpfTypeOK, NEW t \in Threads, active[t] # None, NEW kind \in Kinds,
           NEW now \in Nat, NEW stack \in Stacks \cup {NoStack}, NEW weight \in Nat
    PROVE  StackRecord(kind, t, now, stack, weight) \in Event
<1>1. active[t] \in Active
    BY DEF BpfTypeOK
<1> QED
    BY <1>1 DEF StackRecord, Event, Active

\* emit() keeps the ring a sequence of records and the loss counter a number.
LEMMA EmitType ==
    ASSUME BpfTypeOK, NEW e \in Event, Emit(e)
    PROVE  ring' \in Seq(Event) /\ droppedEvents' \in Nat
<1>1. ring \in Seq(Event) /\ droppedEvents \in Nat
    BY DEF BpfTypeOK
<1>2. Append(ring, e) \in Seq(Event)
    BY <1>1
<1> QED
    BY <1>1, <1>2 DEF Emit

\* A clock reading is a natural number.
LEMMA ReadingsType == Readings \subseteq Nat
BY BoundAssumption DEF Readings

-----------------------------------------------------------------------------
(* The initial state *)

\* All maps empty and every thread in user code: everything holds.
LEMMA InitHolds == BpfInit => BpfTypeOK /\ EntryHeld /\ MapsMirror
<1> SUFFICES ASSUME BpfInit PROVE BpfTypeOK /\ EntryHeld /\ MapsMirror
    OBVIOUS
<1>1. BpfTypeOK
    BY DEF BpfInit, BpfTypeOK, NoProbe, Probe
<1>2. EntryHeld
    BY DEF BpfInit, EntryHeld
<1>3. MapsMirror
    BY TidAssumption DEF BpfInit, MapsMirror
<1> QED
    BY <1>1, <1>2, <1>3

-----------------------------------------------------------------------------
(* Types are preserved *)

\* A call pushes a frame and may enter slice_entry.
LEMMA CallType ==
    ASSUME BpfTypeOK, NEW t \in Threads, Call(t)
    PROVE  BpfTypeOK'
<1> DEFINE new == [call |-> calls + 1, ret |-> Live("return")]
<1>1. frames[t] \in Seq(Frame) /\ calls + 1 \in Nat
    BY DEF BpfTypeOK
<1>2. new \in Frame
    BY <1>1 DEF Frame, Live
<1>3. Append(frames[t], new) \in Seq(Frame)
    BY <1>1, <1>2
<1>4. frames' = [frames EXCEPT ![t] = Append(frames[t], new)] /\ calls' = calls + 1
    BY DEF Call
<1>5. frames' \in [Threads -> Seq(Frame)] /\ calls' \in Nat
    BY <1>1, <1>3, <1>4 DEF BpfTypeOK
<1>6. clock' \in Nat /\ pc' \in [Threads -> {"user", "entry", "announce", "return", "clear"}]
                     /\ probe' \in [Threads -> Probe]
  <2>1. CASE Live("entry")
    <3>1. PICK now \in Readings :
             /\ clock' = now
             /\ pc' = [pc EXCEPT ![t] = "entry"]
             /\ probe' = [probe EXCEPT ![t] =
                             [at |-> now, call |-> calls', depth |-> Len(frames[t]) + 1]]
        BY <2>1 DEF Call
    <3>2. [at |-> now, call |-> calls', depth |-> Len(frames[t]) + 1] \in Probe
        BY <1>1, <1>5, ReadingsType DEF Probe
    <3> QED
        BY <3>1, <3>2, ReadingsType DEF BpfTypeOK
  <2>2. CASE ~Live("entry")
    BY <2>2 DEF Call, BpfTypeOK, handlers
  <2> QED
    BY <2>1, <2>2
<1>7. UNCHANGED <<link, onCpu, maps, nextId, transport, droppedSamples>>
    BY DEF Call
<1> QED
    BY <1>5, <1>6, <1>7 DEF BpfTypeOK, maps, transport

\* A return pops a frame and may enter slice_return.
LEMMA ReturnType ==
    ASSUME BpfTypeOK, NEW t \in Threads, Return(t)
    PROVE  BpfTypeOK'
<1> DEFINE depth == Len(frames[t])
           top == frames[t][depth]
<1>1. frames[t] \in Seq(Frame) /\ frames[t] # <<>>
    BY DEF BpfTypeOK, Return
<1>2. depth \in Nat /\ depth >= 1
    BY <1>1
<1>3. top \in Frame
    BY <1>1, <1>2
<1>4. SubSeq(frames[t], 1, depth - 1) \in Seq(Frame)
    BY <1>1, <1>2
<1>5. frames' = [frames EXCEPT ![t] = SubSeq(frames[t], 1, depth - 1)]
    BY DEF Return
<1>6. frames' \in [Threads -> Seq(Frame)]
    BY <1>4, <1>5 DEF BpfTypeOK
<1>7. clock' \in Nat /\ pc' \in [Threads -> {"user", "entry", "announce", "return", "clear"}]
                     /\ probe' \in [Threads -> Probe]
  <2>1. CASE top.ret /\ Live("return")
    <3>1. PICK now \in Readings :
             /\ clock' = now
             /\ pc' = [pc EXCEPT ![t] = "return"]
             /\ probe' = [probe EXCEPT ![t] = [at |-> now, call |-> top.call, depth |-> depth]]
        BY <2>1 DEF Return
    <3>2. [at |-> now, call |-> top.call, depth |-> depth] \in Probe
        BY <1>2, <1>3, ReadingsType DEF Probe, Frame
    <3> QED
        BY <3>1, <3>2, ReadingsType DEF BpfTypeOK
  <2>2. CASE ~(top.ret /\ Live("return"))
    BY <2>2 DEF Return, BpfTypeOK, handlers
  <2> QED
    BY <2>1, <2>2
<1>8. UNCHANGED <<link, onCpu, calls, maps, nextId, transport, droppedSamples>>
    BY DEF Return
<1> QED
    BY <1>6, <1>7, <1>8 DEF BpfTypeOK, maps, transport

\* The links change state, an exiting thread loses its frames.
LEMMA ProgramType ==
    ASSUME BpfTypeOK,
           \/ \E l \in LinkNames : Attach(l) \/ Detach(l)
           \/ \E t \in Threads : ThreadExit(t)
    PROVE  BpfTypeOK'
<1>1. ASSUME NEW l \in LinkNames, Attach(l) \/ Detach(l) PROVE BpfTypeOK'
    BY <1>1 DEF Attach, Detach, BpfTypeOK, program, handlers, maps, transport
<1>2. ASSUME NEW t \in Threads, ThreadExit(t) PROVE BpfTypeOK'
  <2>1. <<>> \in Seq(Frame)
    OBVIOUS
  <2> QED
    BY <1>2, <2>1 DEF ThreadExit, BpfTypeOK, handlers, maps, transport
<1> QED
    BY <1>1, <1>2

\* slice_entry.
LEMMA EntryType ==
    ASSUME BpfTypeOK, EntryHeld, NEW t \in Threads,
           EntryRejected(t) \/ EntryInstalled(t) \/ EntryRefused(t) \/ EntryAnnounced(t)
    PROVE  BpfTypeOK'
<1>1. ASSUME EntryRejected(t) PROVE BpfTypeOK'
  <2>1. Boundary("VIOLATION", t, 0) \in Event
    BY BoundaryType DEF Kinds
  <2>2. ring' \in Seq(Event) /\ droppedEvents' \in Nat
    BY <1>1, <2>1, EmitType DEF EntryRejected
  <2> QED
    BY <1>1, <2>2 DEF EntryRejected, BpfTypeOK, Goto, program, maps
<1>2. ASSUME EntryInstalled(t) PROVE BpfTypeOK'
  <2>1. probe[t] \in Probe
    BY DEF BpfTypeOK
  <2>2. [id |-> nextId + 1, start |-> probe[t].at] \in Active
    BY <2>1 DEF BpfTypeOK, Active, Probe
  <2> QED
    BY <1>2, <2>2 DEF EntryInstalled, AdvanceId, BpfTypeOK, Goto, program, transport
<1>3. ASSUME EntryRefused(t) PROVE BpfTypeOK'
    BY <1>3 DEF EntryRefused, AdvanceId, BpfTypeOK, Goto, program, maps, transport
<1>4. ASSUME EntryAnnounced(t) PROVE BpfTypeOK'
  <2>1. active[t] \in Active
    BY <1>4 DEF BpfTypeOK, EntryHeld, EntryAnnounced
  <2>2. Boundary("ENTRY", t, active[t].id) \in Event
    BY <2>1, BoundaryType DEF Kinds, Active
  <2>3. ring' \in Seq(Event) /\ droppedEvents' \in Nat
    BY <1>4, <2>2, EmitType DEF EntryAnnounced
  <2> QED
    BY <1>4, <2>3 DEF EntryAnnounced, BpfTypeOK, Goto, program, maps
<1> QED
    BY <1>1, <1>2, <1>3, <1>4

\* slice_return.
LEMMA HandlerReturnType ==
    ASSUME BpfTypeOK, NEW t \in Threads,
           ReturnUnmatched(t) \/ ReturnEmitted(t) \/ ReturnCleared(t)
    PROVE  BpfTypeOK'
<1>1. ASSUME ReturnUnmatched(t) PROVE BpfTypeOK'
  <2>1. Boundary("VIOLATION", t, 0) \in Event
    BY BoundaryType DEF Kinds
  <2>2. ring' \in Seq(Event) /\ droppedEvents' \in Nat
    BY <1>1, <2>1, EmitType DEF ReturnUnmatched
  <2> QED
    BY <1>1, <2>2 DEF ReturnUnmatched, BpfTypeOK, Goto, program, maps
<1>2. ASSUME ReturnEmitted(t) PROVE BpfTypeOK'
  <2>1. active[t] \in Active
    BY <1>2 DEF BpfTypeOK, ReturnEmitted
  <2>2. Boundary("RETURN", t, active[t].id) \in Event
    BY <2>1, BoundaryType DEF Kinds, Active
  <2>3. ring' \in Seq(Event) /\ droppedEvents' \in Nat
    BY <1>2, <2>2, EmitType DEF ReturnEmitted
  <2> QED
    BY <1>2, <2>3 DEF ReturnEmitted, BpfTypeOK, Goto, program, maps
<1>3. ASSUME ReturnCleared(t) PROVE BpfTypeOK'
    BY <1>3 DEF ReturnCleared, WithoutActive, WithoutTrace, BpfTypeOK, Goto, program, transport
<1> QED
    BY <1>1, <1>2, <1>3

\* slice_sample.
LEMMA SampleType ==
    ASSUME BpfTypeOK, NEW t \in Threads, SampleTaken(t)
    PROVE  BpfTypeOK'
<1>1. PICK now \in Readings, stack \in Stacks \cup {NoStack} :
         /\ clock' = now
         /\ CountDroppedStack(stack)
         /\ IF stack = NoStack
            THEN UNCHANGED transport
            ELSE Emit(StackRecord("SAMPLE", t, now, stack, SamplePeriod))
    BY DEF SampleTaken
<1>2. StackRecord("SAMPLE", t, now, stack, SamplePeriod) \in Event
    BY ReadingsType, StackRecordType, BoundAssumption DEF SampleTaken, Kinds
<1>3. ring' \in Seq(Event) /\ droppedEvents' \in Nat
    BY <1>1, <1>2, EmitType DEF transport, BpfTypeOK
<1>4. clock' \in Nat /\ droppedSamples' \in Nat
    BY <1>1, ReadingsType DEF CountDroppedStack, BpfTypeOK
<1> QED
    BY <1>3, <1>4 DEF SampleTaken, BpfTypeOK, program, handlers, maps

\* What the two halves of slice_sched_switch compute has the right type.
LEMMA SwitchOutType ==
    ASSUME BpfTypeOK, NEW prev \in Threads \cup {Other}, NEW now \in Nat,
           NEW stack \in Stacks \cup {NoStack}
    PROVE  /\ TracedAfterSwitchOut(prev) \in [TraceTids -> Threads \cup {None}]
           /\ OffcpuAfterSwitchOut(prev, now, stack) \in [Threads -> OffcpuStart \cup {None}]
<1>1. [at |-> now, stack |-> stack] \in OffcpuStart
    BY DEF OffcpuStart
<1> QED
    BY <1>1, TidAssumption
    DEF BpfTypeOK, TracedAfterSwitchOut, OffcpuAfterSwitchOut, Recorded

LEMMA SwitchInType ==
    ASSUME BpfTypeOK, NEW next \in Threads \cup {Other}, NEW now \in Nat,
           NEW traced \in [TraceTids -> Threads \cup {None}],
           NEW started \in [Threads -> OffcpuStart \cup {None}],
           SwitchIn(next, now, traced, started)
    PROVE  /\ offcpu' \in [Threads -> OffcpuStart \cup {None}]
           /\ ring' \in Seq(Event) /\ droppedEvents' \in Nat
<1> DEFINE tid == Incoming(traced, next)
<1>1. tid \in Threads \cup {None}
    BY TidAssumption DEF Incoming
<1>2. CASE tid = None
    BY <1>2 DEF SwitchIn, transport, BpfTypeOK
<1>3. CASE tid # None /\ started[tid] # None /\ active[tid] # None
  <2>1. tid \in Threads /\ started[tid] \in OffcpuStart
    BY <1>1, <1>3
  <2>2. OffcpuWeight(now, started[tid].at) \in Nat /\ started[tid].stack \in Stacks \cup {NoStack}
    BY <2>1 DEF OffcpuWeight, OffcpuStart
  <2>3. StackRecord("OFFCPU", tid, now, started[tid].stack,
                    OffcpuWeight(now, started[tid].at)) \in Event
    BY <1>3, <2>1, <2>2, StackRecordType DEF Kinds
  <2>4. /\ offcpu' = [started EXCEPT ![tid] = None]
        /\ Emit(StackRecord("OFFCPU", tid, now, started[tid].stack,
                            OffcpuWeight(now, started[tid].at)))
    BY <1>3 DEF SwitchIn, Forgotten
  <2> QED
    BY <2>1, <2>3, <2>4, EmitType
<1>4. CASE tid # None /\ ~(started[tid] # None /\ active[tid] # None)
    BY <1>1, <1>4 DEF SwitchIn, Forgotten, transport, BpfTypeOK
<1> QED
    BY <1>2, <1>3, <1>4

\* slice_sched_switch.
LEMMA SwitchType ==
    ASSUME BpfTypeOK, NEW prev \in Threads \cup {Other}, NEW next \in Threads \cup {Other},
           SchedSwitch(prev, next)
    PROVE  BpfTypeOK'
<1>1. onCpu' \in [Threads -> BOOLEAN]
    BY DEF SchedSwitch, BpfTypeOK
<1>2. /\ clock' \in Nat
      /\ offcpu' \in [Threads -> OffcpuStart \cup {None}]
      /\ traceToBpf' \in [TraceTids -> Threads \cup {None}]
      /\ bpfToTrace' \in [Threads -> TraceTids \cup {None}]
      /\ ring' \in Seq(Event) /\ droppedEvents' \in Nat /\ droppedSamples' \in Nat
  <2>1. CASE Live("sched")
    <3>1. PICK now \in Readings, stack \in Stacks \cup {NoStack} :
            /\ clock' = now
            /\ traceToBpf' = TracedAfterSwitchOut(prev)
            /\ bpfToTrace' = IF Recorded(prev)
                             THEN [bpfToTrace EXCEPT ![prev] = TraceTid[prev]] ELSE bpfToTrace
            /\ IF Recorded(prev) THEN CountDroppedStack(stack) ELSE UNCHANGED droppedSamples
            /\ SwitchIn(next, now, TracedAfterSwitchOut(prev),
                        OffcpuAfterSwitchOut(prev, now, stack))
        BY <2>1 DEF SchedSwitch, SwitchHandler
    <3>2. now \in Nat
        BY ReadingsType
    <3>3. /\ offcpu' \in [Threads -> OffcpuStart \cup {None}]
          /\ ring' \in Seq(Event) /\ droppedEvents' \in Nat
          /\ traceToBpf' \in [TraceTids -> Threads \cup {None}]
        BY <3>1, <3>2, SwitchOutType, SwitchInType
    <3>4. bpfToTrace' \in [Threads -> TraceTids \cup {None}]
        BY <3>1, TidAssumption DEF Recorded, BpfTypeOK
    <3>5. droppedSamples' \in Nat
        BY <3>1 DEF CountDroppedStack, BpfTypeOK
    <3> QED
        BY <3>1, <3>2, <3>3, <3>4, <3>5
  <2>2. CASE ~Live("sched")
    BY <2>2 DEF SchedSwitch, BpfTypeOK, transport
  <2> QED
    BY <2>1, <2>2
<1>3. UNCHANGED <<link, frames, calls, handlers, active, nextId>>
    BY DEF SchedSwitch
<1> QED
    BY <1>1, <1>2, <1>3 DEF BpfTypeOK, handlers

\* The consumer takes the head of the ring.
LEMMA ConsumeType == ASSUME BpfTypeOK, Consume PROVE BpfTypeOK'
<1>1. ring \in Seq(Event) /\ ring # <<>>
    BY DEF BpfTypeOK, Consume
<1>2. Tail(ring) \in Seq(Event)
    BY <1>1
<1> QED
    BY <1>2 DEF Consume, BpfTypeOK, program, handlers, maps

\* A stuttering step changes nothing the invariants read.
LEMMA StutterHolds ==
    ASSUME UNCHANGED bpfVars
    PROVE  /\ BpfTypeOK => BpfTypeOK'
           /\ EntryHeld => EntryHeld'
           /\ MapsMirror => MapsMirror'
<1>1. BpfTypeOK => BpfTypeOK'
    BY DEF bpfVars, BpfTypeOK, program, handlers, maps, transport
<1>2. EntryHeld => EntryHeld'
    BY DEF bpfVars, EntryHeld, handlers, maps
<1>3. MapsMirror => MapsMirror'
    BY DEF bpfVars, MapsMirror, maps
<1> QED
    BY <1>1, <1>2, <1>3

-----------------------------------------------------------------------------
(* BpfTypeOK and EntryHeld are inductive together *)

LEMMA TypeStep ==
    ASSUME BpfTypeOK, EntryHeld, BpfNext
    PROVE  BpfTypeOK'
<1>1. ASSUME NEW t \in Threads, ProgramStep(t) PROVE BpfTypeOK'
    BY <1>1, CallType, ReturnType, ProgramType DEF ProgramStep
<1>2. ASSUME NEW t \in Threads, HandlerStep(t) PROVE BpfTypeOK'
    BY <1>2, EntryType, HandlerReturnType DEF HandlerStep
<1>3. ASSUME NEW t \in Threads, SampleTaken(t) PROVE BpfTypeOK'
    BY <1>3, SampleType
<1>4. ASSUME NEW prev \in Threads \cup {Other}, NEW next \in Threads \cup {Other},
             SchedSwitch(prev, next)
      PROVE  BpfTypeOK'
    BY <1>4, SwitchType
<1>5. ASSUME NEW l \in LinkNames, Attach(l) \/ Detach(l) PROVE BpfTypeOK'
    BY <1>5, ProgramType
<1>6. ASSUME Consume PROVE BpfTypeOK'
    BY <1>6, ConsumeType
<1> QED
    BY <1>1, <1>2, <1>3, <1>4, <1>5, <1>6 DEF BpfNext, KernelStep

\* A handler leaves for "announce" or "clear" only with an entry in place, and
\* only ReturnCleared of the same thread takes the entry away.
LEMMA EntryHeldStep ==
    ASSUME BpfTypeOK, EntryHeld, BpfNext
    PROVE  EntryHeld'
<1> USE DEF EntryHeld
<1>1. ASSUME NEW t \in Threads, ProgramStep(t) PROVE EntryHeld'
  <2>1. CASE Call(t)
    BY <2>1 DEF Call, BpfTypeOK, maps, handlers
  <2>2. CASE Return(t)
    BY <2>2 DEF Return, BpfTypeOK, maps, handlers
  <2>3. CASE ThreadExit(t)
    BY <2>3 DEF ThreadExit, maps, handlers
  <2> QED
    BY <1>1, <2>1, <2>2, <2>3 DEF ProgramStep
<1>2. ASSUME NEW t \in Threads, HandlerStep(t) PROVE EntryHeld'
  <2>1. CASE EntryRejected(t) \/ EntryRefused(t) \/ EntryAnnounced(t) \/ ReturnUnmatched(t)
    BY <2>1 DEF EntryRejected, EntryRefused, EntryAnnounced, ReturnUnmatched, Goto, BpfTypeOK, maps
  <2>2. CASE EntryInstalled(t)
    <3>1. [id |-> nextId + 1, start |-> probe[t].at] # None
        BY TidAssumption DEF BpfTypeOK, Probe
    <3> QED
        BY <2>2, <3>1 DEF EntryInstalled, Goto, BpfTypeOK
  <2>3. CASE ReturnEmitted(t)
    BY <2>3 DEF ReturnEmitted, Goto, BpfTypeOK, maps
  <2>4. CASE ReturnCleared(t)
    BY <2>4 DEF ReturnCleared, WithoutActive, Goto, BpfTypeOK
  <2> QED
    BY <1>2, <2>1, <2>2, <2>3, <2>4 DEF HandlerStep
<1>3. ASSUME NEW t \in Threads, SampleTaken(t) PROVE EntryHeld'
    BY <1>3 DEF SampleTaken, handlers, maps
<1>4. ASSUME NEW prev \in Threads \cup {Other}, NEW next \in Threads \cup {Other},
             SchedSwitch(prev, next)
      PROVE  EntryHeld'
    BY <1>4 DEF SchedSwitch, handlers
<1>5. ASSUME NEW l \in LinkNames, Attach(l) \/ Detach(l) PROVE EntryHeld'
    BY <1>5 DEF Attach, Detach, handlers, maps
<1>6. ASSUME Consume PROVE EntryHeld'
    BY <1>6 DEF Consume, handlers, maps
<1> QED
    BY <1>1, <1>2, <1>3, <1>4, <1>5, <1>6 DEF BpfNext, KernelStep

-----------------------------------------------------------------------------
(* The maps mirror active_by_tid *)

\* The outgoing half of slice_sched_switch keeps the identity maps inverse.
LEMMA SwitchOutMirror ==
    ASSUME BpfTypeOK, MapsMirror, NEW prev \in Threads \cup {Other}, NEW now \in Nat,
           NEW stack \in Stacks \cup {NoStack},
           bpfToTrace' = IF Recorded(prev)
                         THEN [bpfToTrace EXCEPT ![prev] = TraceTid[prev]] ELSE bpfToTrace
    PROVE  /\ \A t \in Threads :
                 /\ active[t] = None => OffcpuAfterSwitchOut(prev, now, stack)[t] = None
                                       /\ bpfToTrace'[t] = None
                 /\ OffcpuAfterSwitchOut(prev, now, stack)[t] # None => bpfToTrace'[t] # None
                 /\ bpfToTrace'[t] \in {None, TraceTid[t]}
           /\ \A t \in Threads, x \in TraceTids :
                 TracedAfterSwitchOut(prev)[x] = t <=> bpfToTrace'[t] = x
<1>1. CASE Recorded(prev)
  <2>1. prev \in Threads /\ active[prev] # None /\ TraceTid[prev] \in TraceTids
    BY <1>1, TidAssumption DEF Recorded
  <2>2. /\ bpfToTrace' = [bpfToTrace EXCEPT ![prev] = TraceTid[prev]]
        /\ TracedAfterSwitchOut(prev) = [traceToBpf EXCEPT ![TraceTid[prev]] = prev]
        /\ OffcpuAfterSwitchOut(prev, now, stack)
              = [offcpu EXCEPT ![prev] = [at |-> now, stack |-> stack]]
    BY <1>1 DEF TracedAfterSwitchOut, OffcpuAfterSwitchOut
  <2>3. TraceTid[prev] # None
    BY <2>1, TidAssumption
  <2>4. \A t \in Threads :
           /\ active[t] = None => OffcpuAfterSwitchOut(prev, now, stack)[t] = None
                                 /\ bpfToTrace'[t] = None
           /\ OffcpuAfterSwitchOut(prev, now, stack)[t] # None => bpfToTrace'[t] # None
           /\ bpfToTrace'[t] \in {None, TraceTid[t]}
    BY <2>1, <2>2, <2>3 DEF MapsMirror, BpfTypeOK
  <2>5. ASSUME NEW t \in Threads, NEW x \in TraceTids
        PROVE  TracedAfterSwitchOut(prev)[x] = t <=> bpfToTrace'[t] = x
    <3>1. CASE t = prev
        BY <2>1, <2>2, <3>1, TidAssumption DEF MapsMirror, BpfTypeOK
    <3>2. CASE t # prev
      <4>1. bpfToTrace'[t] = bpfToTrace[t] /\ bpfToTrace[t] \in {None, TraceTid[t]}
        BY <2>2, <3>2 DEF MapsMirror, BpfTypeOK
      <4>2. bpfToTrace[t] # TraceTid[prev]
        BY <2>1, <2>3, <3>2, <4>1, TidAssumption
      <4> QED
        BY <2>1, <2>2, <3>2, <4>1, <4>2 DEF MapsMirror, BpfTypeOK
    <3> QED
        BY <3>1, <3>2
  <2> QED
    BY <2>4, <2>5
<1>2. CASE ~Recorded(prev)
    BY <1>2 DEF MapsMirror, TracedAfterSwitchOut, OffcpuAfterSwitchOut
<1> QED
    BY <1>1, <1>2

\* The incoming half only forgets intervals, and forgets the incoming thread's
\* if the maps know it.
LEMMA SwitchInForgets ==
    ASSUME NEW next \in Threads \cup {Other}, NEW now \in Nat,
           NEW traced \in [TraceTids -> Threads \cup {None}],
           NEW started \in [Threads -> OffcpuStart \cup {None}],
           SwitchIn(next, now, traced, started)
    PROVE  /\ \A t \in Threads : offcpu'[t] \in {None, started[t]}
           /\ \A t \in Threads :
                 (Incoming(traced, next) = t /\ active[t] # None) => offcpu'[t] = None
<1> DEFINE tid == Incoming(traced, next)
<1>1. tid \in Threads \cup {None}
    BY TidAssumption DEF Incoming
<1>2. CASE tid = None
    BY <1>2, TidAssumption DEF SwitchIn
<1>3. CASE tid # None /\ started[tid] # None /\ active[tid] # None
    BY <1>1, <1>3 DEF SwitchIn, Forgotten
<1>4. CASE tid # None /\ ~(started[tid] # None /\ active[tid] # None)
    BY <1>1, <1>4 DEF SwitchIn, Forgotten
<1> QED
    BY <1>2, <1>3, <1>4

LEMMA MirrorStep ==
    ASSUME BpfTypeOK, MapsMirror, BpfNext
    PROVE  MapsMirror'
<1>1. ASSUME UNCHANGED maps PROVE MapsMirror'
    BY <1>1 DEF MapsMirror, maps
<1>2. ASSUME NEW t \in Threads, ProgramStep(t) PROVE MapsMirror'
    BY <1>1, <1>2 DEF ProgramStep, Call, Return, ThreadExit
<1>3. ASSUME NEW t \in Threads, HandlerStep(t) PROVE MapsMirror'
  <2>1. CASE EntryInstalled(t)
    <3>1. /\ active' = [active EXCEPT ![t] = [id |-> nextId + 1, start |-> probe[t].at]]
          /\ UNCHANGED <<offcpu, traceToBpf, bpfToTrace>>
          /\ active[t] = None
        BY <2>1 DEF EntryInstalled, Occupied
    <3> QED
        BY <3>1 DEF MapsMirror, BpfTypeOK
  <2>2. CASE ReturnCleared(t)
    <3>1. /\ active' = [active EXCEPT ![t] = None]
          /\ offcpu' = [offcpu EXCEPT ![t] = None]
          /\ traceToBpf' = [x \in TraceTids |-> IF x = bpfToTrace[t] THEN None ELSE traceToBpf[x]]
          /\ bpfToTrace' = [bpfToTrace EXCEPT ![t] = None]
        BY <2>2 DEF ReturnCleared, WithoutActive, WithoutTrace
    <3>2. \A s \in Threads :
             /\ active'[s] = None => offcpu'[s] = None /\ bpfToTrace'[s] = None
             /\ offcpu'[s] # None => bpfToTrace'[s] # None
             /\ bpfToTrace'[s] \in {None, TraceTid[s]}
        BY <3>1 DEF MapsMirror, BpfTypeOK
    <3>3. ASSUME NEW s \in Threads, NEW x \in TraceTids
          PROVE  traceToBpf'[x] = s <=> bpfToTrace'[s] = x
      <4>1. CASE s = t
        BY <3>1, <4>1, TidAssumption DEF MapsMirror, BpfTypeOK
      <4>2. CASE s # t
        <5>1. traceToBpf[x] = s <=> bpfToTrace[s] = x
            BY DEF MapsMirror
        <5>2. traceToBpf[x] = t <=> bpfToTrace[t] = x
            BY DEF MapsMirror
        <5>3. bpfToTrace'[s] = bpfToTrace[s]
            BY <3>1, <4>2 DEF BpfTypeOK
        <5>4. traceToBpf'[x] = IF x = bpfToTrace[t] THEN None ELSE traceToBpf[x]
            BY <3>1
        <5> QED
            BY <4>2, <5>1, <5>2, <5>3, <5>4, TidAssumption
      <4> QED
        BY <4>1, <4>2
    <3> QED
        BY <3>2, <3>3 DEF MapsMirror
  <2>3. CASE ~EntryInstalled(t) /\ ~ReturnCleared(t)
    BY <1>1, <1>3, <2>3
    DEF HandlerStep, EntryRejected, EntryRefused, EntryAnnounced, ReturnUnmatched, ReturnEmitted
  <2> QED
    BY <2>1, <2>2, <2>3
<1>4. ASSUME NEW t \in Threads, SampleTaken(t) PROVE MapsMirror'
    BY <1>1, <1>4 DEF SampleTaken
<1>5. ASSUME NEW prev \in Threads \cup {Other}, NEW next \in Threads \cup {Other},
             SchedSwitch(prev, next)
      PROVE  MapsMirror'
  <2>1. CASE ~Live("sched")
    BY <1>1, <1>5, <2>1 DEF SchedSwitch, maps
  <2>2. CASE Live("sched")
    <3>1. PICK now \in Readings, stack \in Stacks \cup {NoStack} :
            /\ traceToBpf' = TracedAfterSwitchOut(prev)
            /\ bpfToTrace' = IF Recorded(prev)
                             THEN [bpfToTrace EXCEPT ![prev] = TraceTid[prev]] ELSE bpfToTrace
            /\ SwitchIn(next, now, TracedAfterSwitchOut(prev),
                        OffcpuAfterSwitchOut(prev, now, stack))
        BY <1>5, <2>2 DEF SchedSwitch, SwitchHandler
    <3>2. now \in Nat /\ active' = active
        BY <1>5, ReadingsType DEF SchedSwitch
    <3>3. \A t \in Threads : offcpu'[t] \in {None, OffcpuAfterSwitchOut(prev, now, stack)[t]}
        BY <3>1, <3>2, SwitchOutType, SwitchInForgets
    <3> QED
        BY <3>1, <3>2, <3>3, SwitchOutMirror DEF MapsMirror
  <2> QED
    BY <2>1, <2>2
<1>6. ASSUME NEW l \in LinkNames, Attach(l) \/ Detach(l) PROVE MapsMirror'
    BY <1>1, <1>6 DEF Attach, Detach
<1>7. ASSUME Consume PROVE MapsMirror'
    BY <1>1, <1>7 DEF Consume
<1> QED
    BY <1>2, <1>3, <1>4, <1>5, <1>6, <1>7 DEF BpfNext, KernelStep

\* Every record and map keeps its type.
THEOREM BpfTypeCorrect == BpfSpec => [](BpfTypeOK /\ EntryHeld)
<1>1. BpfInit => BpfTypeOK /\ EntryHeld
    BY InitHolds
<1>2. BpfTypeOK /\ EntryHeld /\ [BpfNext]_bpfVars => (BpfTypeOK /\ EntryHeld)'
    BY TypeStep, EntryHeldStep, StutterHolds
<1> QED
    BY <1>1, <1>2, PTL DEF BpfSpec

\* No secondary map outlives the active entry, and the identity maps are
\* inverse: for any number of threads, calls and switches.
THEOREM MapsMirrorActive == BpfSpec => []MapsMirror
<1>1. BpfInit => MapsMirror
    BY InitHolds
<1>2. BpfTypeOK /\ MapsMirror /\ [BpfNext]_bpfVars => MapsMirror'
    BY MirrorStep, StutterHolds
<1> QED
    BY <1>1, <1>2, BpfTypeCorrect, PTL DEF BpfSpec

-----------------------------------------------------------------------------
(* No open interval of a running thread *)

\* Before slice_sched_switch is attached no interval is open at all.
NothingOpenYet == link["sched"] = "new" => \A t \in Threads : offcpu[t] = None

SchedInv == OffcpuOnlyWhileOff /\ NothingOpenYet

LEMMA SchedStep ==
    ASSUME BpfTypeOK, MapsMirror, SchedInv, BpfNext
    PROVE  SchedInv'
<1> USE DEF SchedInv, OffcpuOnlyWhileOff, NothingOpenYet, Live
<1>1. ASSUME UNCHANGED <<link, onCpu, offcpu>> PROVE SchedInv'
    BY <1>1
<1>2. ASSUME NEW t \in Threads, ProgramStep(t) PROVE SchedInv'
    BY <1>1, <1>2 DEF ProgramStep, Call, Return, ThreadExit, maps
<1>3. ASSUME NEW t \in Threads, HandlerStep(t) PROVE SchedInv'
  <2>1. CASE ReturnCleared(t)
    BY <2>1 DEF ReturnCleared, BpfTypeOK, program
  <2>2. CASE ~ReturnCleared(t)
    BY <1>1, <1>3, <2>2
    DEF HandlerStep, EntryRejected, EntryInstalled, EntryRefused, EntryAnnounced,
        ReturnUnmatched, ReturnEmitted, program, maps
  <2> QED
    BY <2>1, <2>2
<1>4. ASSUME NEW t \in Threads, SampleTaken(t) PROVE SchedInv'
    BY <1>1, <1>4 DEF SampleTaken, program, maps
<1>5. ASSUME NEW prev \in Threads \cup {Other}, NEW next \in Threads \cup {Other},
             SchedSwitch(prev, next)
      PROVE  SchedInv'
  <2>1. CASE ~Live("sched")
    BY <1>5, <2>1 DEF SchedSwitch
  <2>2. CASE Live("sched")
    <3>1. PICK now \in Readings, stack \in Stacks \cup {NoStack} :
            /\ traceToBpf' = TracedAfterSwitchOut(prev)
            /\ bpfToTrace' = IF Recorded(prev)
                             THEN [bpfToTrace EXCEPT ![prev] = TraceTid[prev]] ELSE bpfToTrace
            /\ SwitchIn(next, now, TracedAfterSwitchOut(prev),
                        OffcpuAfterSwitchOut(prev, now, stack))
        BY <1>5, <2>2 DEF SchedSwitch, SwitchHandler
    <3> DEFINE traced == TracedAfterSwitchOut(prev)
               started == OffcpuAfterSwitchOut(prev, now, stack)
    <3>2. now \in Nat /\ link' = link /\ prev # next
        BY <1>5, ReadingsType DEF SchedSwitch
    <3>3. /\ traced \in [TraceTids -> Threads \cup {None}]
          /\ started \in [Threads -> OffcpuStart \cup {None}]
        BY <3>2, SwitchOutType
    <3>4. /\ \A t \in Threads : offcpu'[t] \in {None, started[t]}
          /\ \A t \in Threads :
                (Incoming(traced, next) = t /\ active[t] # None) => offcpu'[t] = None
        BY <3>1, <3>2, <3>3, SwitchInForgets
    <3>5. /\ \A t \in Threads :
               /\ active[t] = None => started[t] = None /\ bpfToTrace'[t] = None
               /\ started[t] # None => bpfToTrace'[t] # None
               /\ bpfToTrace'[t] \in {None, TraceTid[t]}
          /\ \A t \in Threads, x \in TraceTids : traced[x] = t <=> bpfToTrace'[t] = x
        BY <3>1, <3>2, SwitchOutMirror
    <3>6. ASSUME NEW t \in Threads, onCpu'[t] PROVE offcpu'[t] = None
      <4>1. t # prev
        <5>1. t = prev => onCpu'[t] = FALSE
            BY <1>5 DEF SchedSwitch
        <5> QED
            BY <3>6, <5>1
      <4>2. started[t] = offcpu[t]
        BY <4>1 DEF OffcpuAfterSwitchOut, BpfTypeOK
      <4>3. CASE t # next
        <5>1. onCpu[t]
          <6>1. onCpu'[t] = onCpu[t]
            BY <1>5, <4>1, <4>3 DEF SchedSwitch
          <6> QED
            BY <3>6, <6>1
        <5> QED
            BY <2>2, <3>4, <4>2, <5>1
      <4>4. CASE t = next
        <5>1. CASE started[t] = None
            BY <3>4, <5>1
        <5>2. CASE started[t] # None
          <6>1. bpfToTrace'[t] = TraceTid[t] /\ active[t] # None /\ TraceTid[t] \in TraceTids
            BY <3>5, <5>2, TidAssumption
          <6>2. traced[TraceTid[t]] = t
            BY <3>5, <6>1
          <6>3. Incoming(traced, next) = t
            BY <4>4, <6>2 DEF Incoming
          <6> QED
            BY <3>4, <6>1, <6>3
        <5> QED
            BY <5>1, <5>2
      <4> QED
        BY <4>3, <4>4
    <3> QED
        BY <2>2, <3>2, <3>6
  <2> QED
    BY <2>1, <2>2
<1>6. ASSUME NEW l \in LinkNames, Attach(l) \/ Detach(l) PROVE SchedInv'
  <2>1. "sched" \in LinkNames
    BY DEF LinkNames, AttachOrder
  <2>2. onCpu' = onCpu /\ offcpu' = offcpu
    BY <1>6 DEF Attach, Detach, program, maps
  <2>3. CASE Attach(l)
    <3>1. link[l] = "new" /\ link' = [link EXCEPT ![l] = "live"]
        BY <2>3 DEF Attach
    <3> QED
        BY <2>1, <2>2, <3>1 DEF BpfTypeOK
  <2>4. CASE Detach(l)
    <3>1. link' = [link EXCEPT ![l] = "gone"]
        BY <2>4 DEF Detach
    <3> QED
        BY <2>1, <2>2, <3>1 DEF BpfTypeOK
  <2> QED
    BY <1>6, <2>3, <2>4
<1>7. ASSUME Consume PROVE SchedInv'
    BY <1>1, <1>7 DEF Consume, program, maps
<1> QED
    BY <1>2, <1>3, <1>4, <1>5, <1>6, <1>7 DEF BpfNext, KernelStep

\* A switch-in always closes the interval its switch-out opened.
THEOREM RunningThreadHasNoInterval == BpfSpec => []OffcpuOnlyWhileOff
<1>1. BpfInit => SchedInv
    BY DEF BpfInit, SchedInv, OffcpuOnlyWhileOff, NothingOpenYet
<1>2. BpfTypeOK /\ MapsMirror /\ SchedInv /\ [BpfNext]_bpfVars => SchedInv'
  <2>1. UNCHANGED bpfVars /\ SchedInv => SchedInv'
    BY DEF bpfVars, program, maps, SchedInv, OffcpuOnlyWhileOff, NothingOpenYet, Live
  <2> QED
    BY <2>1, SchedStep
<1>3. SchedInv => OffcpuOnlyWhileOff
    BY DEF SchedInv
<1> QED
    BY <1>1, <1>2, <1>3, BpfTypeCorrect, MapsMirrorActive, PTL DEF BpfSpec

-----------------------------------------------------------------------------
(* No thread is left in active_by_tid *)

\* Every probe is live and was from the start, and no thread exits in the function.
FullyProbed == Links = LinkNames /\ ~Exits /\ \A l \in LinkNames : Live(l)

\* All frames were hijacked, and a thread with an active entry still has a
\* frame whose return will clear it.
FramesCover ==
    \A t \in Threads :
       /\ \A i \in 1..Len(frames[t]) : frames[t][i].ret
       /\ pc[t] \in {"entry", "announce"} => frames[t] # <<>>
       /\ (pc[t] = "user" /\ active[t] # None) => frames[t] # <<>>

LeakInv ==
    /\ Links = LinkNames => \A l \in LinkNames : link[l] # "new"
    /\ FullyProbed => FramesCover

\* A link that is live after a step was live before it, unless it was new.
LEMMA FullyProbedBefore ==
    ASSUME BpfTypeOK, LeakInv, BpfNext, FullyProbed'
    PROVE  FullyProbed
<1>1. CASE UNCHANGED link
    BY <1>1 DEF FullyProbed, Live
<1>2. ASSUME NEW l \in LinkNames, Attach(l) \/ Detach(l) PROVE FullyProbed
    BY <1>2 DEF Attach, Detach, FullyProbed, LeakInv, Live, BpfTypeOK
<1> QED
    BY <1>1, <1>2
    DEF BpfNext, KernelStep, ProgramStep, HandlerStep, Call, Return, ThreadExit, EntryRejected,
        EntryInstalled, EntryRefused, EntryAnnounced, ReturnUnmatched, ReturnEmitted,
        ReturnCleared, SampleTaken, SchedSwitch, Consume

LEMMA FramesCoverStep ==
    ASSUME BpfTypeOK, EntryHeld, FullyProbed, FramesCover, BpfNext
    PROVE  FramesCover'
<1> USE DEF FramesCover
<1>0. Live("return") /\ Live("entry") /\ ~Exits
    BY DEF FullyProbed, LinkNames, AttachOrder
<1>1. ASSUME UNCHANGED <<frames, pc, active>> PROVE FramesCover'
    BY <1>1
<1>2. ASSUME NEW t \in Threads, Call(t) PROVE FramesCover'
  <2>1. frames[t] \in Seq(Frame)
    BY DEF BpfTypeOK
  <2>2. /\ frames' = [frames EXCEPT ![t] = Append(frames[t], [call |-> calls + 1, ret |-> TRUE])]
        /\ pc' = [pc EXCEPT ![t] = "entry"]
        /\ active' = active
    BY <1>0, <1>2 DEF Call, maps, Live
  <2>3. frames'[t] = Append(frames[t], [call |-> calls + 1, ret |-> TRUE])
    BY <2>2 DEF BpfTypeOK
  <2>4. frames'[t] # <<>> /\ \A i \in 1..Len(frames'[t]) : frames'[t][i].ret
    BY <2>1, <2>3
  <2> QED
    BY <2>2, <2>4 DEF BpfTypeOK
<1>3. ASSUME NEW t \in Threads, Return(t) PROVE FramesCover'
  <2> DEFINE depth == Len(frames[t])
  <2>1. frames[t] \in Seq(Frame) /\ frames[t] # <<>> /\ depth \in Nat /\ depth >= 1
    BY <1>3 DEF BpfTypeOK, Return
  <2>2. frames[t][depth].ret
    BY <2>1
  <2>3. /\ frames' = [frames EXCEPT ![t] = SubSeq(frames[t], 1, depth - 1)]
        /\ pc' = [pc EXCEPT ![t] = "return"]
        /\ active' = active
    BY <1>0, <1>3, <2>2 DEF Return, maps
  <2>4. frames'[t] = SubSeq(frames[t], 1, depth - 1)
    BY <2>3 DEF BpfTypeOK
  <2>5. \A i \in 1..Len(frames'[t]) : frames'[t][i].ret
    BY <2>1, <2>4
  <2> QED
    BY <2>3, <2>5 DEF BpfTypeOK
<1>4. ASSUME NEW t \in Threads, HandlerStep(t) PROVE FramesCover'
  <2>1. CASE EntryRejected(t) \/ EntryRefused(t) \/ EntryAnnounced(t)
    BY <2>1 DEF EntryRejected, EntryRefused, EntryAnnounced, Goto, BpfTypeOK, maps, program
  <2>2. CASE EntryInstalled(t)
    BY <2>2 DEF EntryInstalled, Goto, BpfTypeOK, program
  <2>3. CASE ReturnUnmatched(t) \/ ReturnEmitted(t)
    BY <2>3 DEF ReturnUnmatched, ReturnEmitted, Goto, BpfTypeOK, maps, program
  <2>4. CASE ReturnCleared(t)
    BY <2>4 DEF ReturnCleared, WithoutActive, Goto, BpfTypeOK, program
  <2> QED
    BY <1>4, <2>1, <2>2, <2>3, <2>4 DEF HandlerStep
<1>5. ASSUME NEW t \in Threads, SampleTaken(t) PROVE FramesCover'
    BY <1>1, <1>5 DEF SampleTaken, program, handlers, maps
<1>6. ASSUME NEW prev \in Threads \cup {Other}, NEW next \in Threads \cup {Other},
             SchedSwitch(prev, next)
      PROVE  FramesCover'
    BY <1>1, <1>6 DEF SchedSwitch, handlers
<1>7. ASSUME NEW l \in LinkNames, Attach(l) \/ Detach(l) PROVE FramesCover'
    BY <1>1, <1>7 DEF Attach, Detach, program, handlers, maps
<1>8. ASSUME Consume PROVE FramesCover'
    BY <1>1, <1>8 DEF Consume, program, handlers, maps
<1> QED
    BY <1>0, <1>2, <1>3, <1>4, <1>5, <1>6, <1>7, <1>8
    DEF BpfNext, KernelStep, ProgramStep, ThreadExit

\* No link becomes new again.
LEMMA NewLinksStep ==
    ASSUME BpfTypeOK, BpfNext, \A l \in LinkNames : link[l] # "new"
    PROVE  \A l \in LinkNames : link'[l] # "new"
<1>1. CASE UNCHANGED link
    BY <1>1
<1>2. ASSUME NEW l \in LinkNames, Attach(l) \/ Detach(l)
      PROVE  \A m \in LinkNames : link'[m] # "new"
    BY <1>2 DEF Attach, Detach, BpfTypeOK
<1> QED
    BY <1>1, <1>2
    DEF BpfNext, KernelStep, ProgramStep, HandlerStep, Call, Return, ThreadExit, EntryRejected,
        EntryInstalled, EntryRefused, EntryAnnounced, ReturnUnmatched, ReturnEmitted,
        ReturnCleared, SampleTaken, SchedSwitch, Consume

\* With every probe in place from the start active_by_tid is empty of threads
\* that are outside the function, whatever their calls nested to.
THEOREM ActiveNeverLeaks == BpfSpec => []NoActiveLeak
<1>1. BpfInit => LeakInv
  <2> SUFFICES ASSUME BpfInit PROVE LeakInv
    OBVIOUS
  <2>1. FramesCover
    BY DEF BpfInit, FramesCover
  <2>2. Links = LinkNames => \A l \in LinkNames : link[l] # "new"
    BY DEF BpfInit
  <2> QED
    BY <2>1, <2>2 DEF LeakInv
<1>2. BpfTypeOK /\ EntryHeld /\ LeakInv /\ [BpfNext]_bpfVars => LeakInv'
  <2>1. ASSUME BpfTypeOK, EntryHeld, LeakInv, BpfNext PROVE LeakInv'
    <3>1. FullyProbed' => FramesCover'
        BY <2>1, FullyProbedBefore, FramesCoverStep DEF LeakInv
    <3>2. Links = LinkNames => \A l \in LinkNames : link'[l] # "new"
        BY <2>1, NewLinksStep DEF LeakInv
    <3> QED
        BY <3>1, <3>2 DEF LeakInv
  <2>2. LeakInv /\ UNCHANGED bpfVars => LeakInv'
    BY DEF bpfVars, program, handlers, maps, LeakInv, FullyProbed, FramesCover, Live
  <2> QED
    BY <2>1, <2>2
<1>3. LeakInv => NoActiveLeak
    BY DEF LeakInv, NoActiveLeak, FullyProbed, FramesCover
<1> QED
    BY <1>1, <1>2, <1>3, BpfTypeCorrect, PTL DEF BpfSpec

-----------------------------------------------------------------------------
(* Invocation ids *)

\* Only slice_entry hands out an id, and only to a thread that had none.
LEMMA IdStep ==
    ASSUME BpfTypeOK, OneOwnerPerId, BpfNext
    PROVE  OneOwnerPerId'
<1>1. ASSUME UNCHANGED active, nextId' \in {nextId, nextId + 1} PROVE OneOwnerPerId'
    BY <1>1 DEF OneOwnerPerId, ActiveThreads, BpfTypeOK, Active
<1>2. ASSUME NEW t \in Threads, ProgramStep(t) PROVE OneOwnerPerId'
    BY <1>1, <1>2 DEF ProgramStep, Call, Return, ThreadExit, maps
<1>3. ASSUME NEW t \in Threads, HandlerStep(t) PROVE OneOwnerPerId'
  <2>1. CASE EntryInstalled(t)
    <3>1. /\ active' = [active EXCEPT ![t] = [id |-> nextId + 1, start |-> probe[t].at]]
          /\ nextId' = nextId + 1
        BY <2>1 DEF EntryInstalled, AdvanceId
    <3>2. \A s \in Threads : active'[s] = IF s = t THEN [id |-> nextId + 1, start |-> probe[t].at]
                                         ELSE active[s]
        BY <3>1 DEF BpfTypeOK
    <3>3. \A s \in ActiveThreads' : s # t => s \in ActiveThreads /\ active'[s] = active[s]
        BY <3>2 DEF ActiveThreads
    <3>4. \A s \in ActiveThreads : active[s].id \in Nat /\ active[s].id <= nextId
        BY DEF OneOwnerPerId, ActiveThreads, BpfTypeOK, Active
    <3>5. active'[t].id = nextId + 1 /\ nextId \in Nat
        BY <3>2 DEF BpfTypeOK
    <3>6. \A s \in ActiveThreads' : s # t => active'[s].id < active'[t].id
        BY <3>3, <3>4, <3>5
    <3>7. \A s, u \in ActiveThreads' : active'[s].id = active'[u].id => s = u
      <4> SUFFICES ASSUME NEW s \in ActiveThreads', NEW u \in ActiveThreads',
                          active'[s].id = active'[u].id, s # u
                   PROVE  FALSE
        OBVIOUS
      <4>1. CASE s = t
        <5>1. active'[u].id < active'[t].id
            BY <3>6, <4>1
        <5> QED
            BY <3>3, <3>4, <3>5, <4>1, <5>1
      <4>2. CASE u = t
        <5>1. active'[s].id < active'[t].id
            BY <3>6, <4>2
        <5> QED
            BY <3>3, <3>4, <3>5, <4>2, <5>1
      <4>3. CASE s # t /\ u # t
        BY <3>3, <4>3 DEF OneOwnerPerId
      <4> QED
        BY <4>1, <4>2, <4>3
    <3> QED
        BY <3>1, <3>3, <3>4, <3>5, <3>7 DEF OneOwnerPerId
  <2>2. CASE ReturnCleared(t)
    <3>1. \A s \in ActiveThreads' : s \in ActiveThreads /\ active'[s] = active[s]
        BY <2>2 DEF ReturnCleared, WithoutActive, ActiveThreads, BpfTypeOK
    <3> QED
        BY <2>2, <3>1 DEF ReturnCleared, OneOwnerPerId
  <2>3. CASE ~EntryInstalled(t) /\ ~ReturnCleared(t)
    BY <1>1, <1>3, <2>3
    DEF HandlerStep, EntryRejected, EntryRefused, EntryAnnounced, ReturnUnmatched,
        ReturnEmitted, AdvanceId, maps
  <2> QED
    BY <2>1, <2>2, <2>3
<1>4. ASSUME NEW t \in Threads, SampleTaken(t) PROVE OneOwnerPerId'
    BY <1>1, <1>4 DEF SampleTaken, maps
<1>5. ASSUME NEW prev \in Threads \cup {Other}, NEW next \in Threads \cup {Other},
             SchedSwitch(prev, next)
      PROVE  OneOwnerPerId'
    BY <1>1, <1>5 DEF SchedSwitch
<1>6. ASSUME NEW l \in LinkNames, Attach(l) \/ Detach(l) PROVE OneOwnerPerId'
    BY <1>1, <1>6 DEF Attach, Detach, maps
<1>7. ASSUME Consume PROVE OneOwnerPerId'
    BY <1>1, <1>7 DEF Consume, maps
<1> QED
    BY <1>2, <1>3, <1>4, <1>5, <1>6, <1>7 DEF BpfNext, KernelStep

\* No two threads are ever inside the same invocation id, whoever enters, is
\* refused, or exits and leaves its entry behind.
THEOREM IdsAreUnique == BpfSpec => []OneOwnerPerId
<1>1. BpfInit => OneOwnerPerId
    BY DEF BpfInit, OneOwnerPerId, ActiveThreads
<1>2. BpfTypeOK /\ OneOwnerPerId /\ [BpfNext]_bpfVars => OneOwnerPerId'
  <2>1. BpfTypeOK /\ OneOwnerPerId /\ UNCHANGED bpfVars => OneOwnerPerId'
    BY DEF bpfVars, maps, OneOwnerPerId, ActiveThreads
  <2> QED
    BY <2>1, IdStep
<1> QED
    BY <1>1, <1>2, BpfTypeCorrect, PTL DEF BpfSpec

-----------------------------------------------------------------------------
(* slice.bpf.c implements SliceInvocations *)

\* A step that leaves active_by_tid alone is a stutter, or spends an id.
LEMMA SpendOrStutter ==
    ASSUME BpfTypeOK, UNCHANGED active, nextId' \in {nextId, nextId + 1}
    PROVE  [Invocations!InvocationNext]_Invocations!invocationVars
<1> USE DEF Invocations!invocationVars, Invocations!InvocationNext, Invocations!Spend
<1>1. CASE nextId' = nextId
    BY <1>1
<1>2. CASE nextId' = nextId + 1
  <2>1. nextId' \in (1..nextId') \ (1..nextId) /\ 1..nextId' = (1..nextId) \cup {nextId'}
    BY <1>2 DEF BpfTypeOK
  <2>2. nextId' \in Nat
    BY <1>2 DEF BpfTypeOK
  <2> QED
    BY <2>1, <2>2
<1> QED
    BY <1>1, <1>2

\* slice_entry enters a thread that had no invocation, with a new id.
LEMMA InstallEnters ==
    ASSUME BpfTypeOK, NEW t \in Threads, EntryInstalled(t)
    PROVE  Invocations!Enter(t)
<1>1. /\ active[t] = None
      /\ active' = [active EXCEPT ![t] = [id |-> nextId + 1, start |-> probe[t].at]]
      /\ nextId' = nextId + 1
    BY DEF EntryInstalled, AdvanceId, Occupied
<1>2. nextId \in Nat /\ active \in [Threads -> Active \cup {None}] /\ probe[t].at \in Nat
    BY DEF BpfTypeOK, Probe
<1>3. /\ [id |-> nextId + 1, start |-> probe[t].at] # None
      /\ \A s \in Threads : active'[s] = IF s = t THEN [id |-> nextId + 1, start |-> probe[t].at]
                                         ELSE active[s]
    BY <1>1, <1>2, TidAssumption
<1>4. nextId + 1 \in Nat \ (1..nextId) /\ 1..(nextId + 1) = (1..nextId) \cup {nextId + 1}
    BY <1>2
<1> DEFINE open == [s \in Threads |-> IF active[s] = None THEN None ELSE active[s].id]
<1>5. open' = [s \in Threads |-> IF s = t THEN nextId + 1 ELSE open[s]]
    BY <1>3
<1>6. open[t] = None /\ open'[t] = nextId + 1
    BY <1>1, <1>5
<1>7. open' = [open EXCEPT ![t] = open'[t]]
    BY <1>5, <1>6
<1>8. 1..nextId' = (1..nextId) \cup {open'[t]} /\ open'[t] \in Nat \ (1..nextId)
    BY <1>1, <1>4, <1>6
<1> HIDE DEF open
<1> QED
    BY <1>6, <1>7, <1>8 DEF Invocations!Enter, open

\* slice_return ends an invocation the thread is inside.
LEMMA ClearLeaves ==
    ASSUME BpfTypeOK, EntryHeld, NEW t \in Threads, ReturnCleared(t)
    PROVE  Invocations!Leave(t)
<1>1. active[t] \in Active /\ active[t].id # None
    BY TidAssumption DEF ReturnCleared, EntryHeld, BpfTypeOK, Active
<1>2. active' = [active EXCEPT ![t] = None] /\ nextId' = nextId
    BY DEF ReturnCleared, WithoutActive
<1>3. \A s \in Threads : active'[s] = IF s = t THEN None ELSE active[s]
    BY <1>2 DEF BpfTypeOK
<1> DEFINE open == [s \in Threads |-> IF active[s] = None THEN None ELSE active[s].id]
<1>4. open' = [s \in Threads |-> IF s = t THEN None ELSE open[s]]
    BY <1>3
<1>5. open' = [open EXCEPT ![t] = None]
    BY <1>4
<1>6. open[t] # None /\ (1..nextId)' = 1..nextId
    BY <1>1, <1>2, TidAssumption DEF Active
<1> HIDE DEF open
<1> QED
    BY <1>5, <1>6 DEF Invocations!Leave, open

\* Every step of the program, the scheduler, the handlers and the capture
\* process enters one invocation, ends one, spends one id, or does neither.
THEOREM KernelImplementsInvocations == BpfSpec => InvocationsAreExclusive
<1>1. BpfInit => Invocations!InvocationInit
    BY DEF BpfInit, Invocations!InvocationInit
<1>2. BpfTypeOK /\ EntryHeld /\ [BpfNext]_bpfVars
         => [Invocations!InvocationNext]_Invocations!invocationVars
  <2> SUFFICES ASSUME BpfTypeOK, EntryHeld, [BpfNext]_bpfVars
               PROVE  [Invocations!InvocationNext]_Invocations!invocationVars
    OBVIOUS
  <2>1. ASSUME NEW t \in Threads, HandlerStep(t)
        PROVE  [Invocations!InvocationNext]_Invocations!invocationVars
    <3>1. CASE EntryInstalled(t)
      BY <3>1, InstallEnters DEF Invocations!InvocationNext
    <3>2. CASE ReturnCleared(t)
      BY <3>2, ClearLeaves DEF Invocations!InvocationNext
    <3>3. CASE ~EntryInstalled(t) /\ ~ReturnCleared(t)
      <4>1. active' = active /\ nextId' \in {nextId, nextId + 1}
        BY <2>1, <3>3
        DEF HandlerStep, EntryRejected, EntryRefused, EntryAnnounced, ReturnUnmatched,
            ReturnEmitted, AdvanceId, maps
      <4> QED
        BY <4>1, SpendOrStutter
    <3> QED
      BY <3>1, <3>2, <3>3
  <2>2. CASE UNCHANGED <<active, nextId>>
    BY <2>2, SpendOrStutter
  <2> QED
    BY <2>1, <2>2
    DEF BpfNext, KernelStep, ProgramStep, Call, Return, ThreadExit, SampleTaken,
        SchedSwitch, Attach, Detach, Consume, maps, bpfVars
<1> QED
    BY <1>1, <1>2, BpfTypeCorrect, PTL
    DEF BpfSpec, InvocationsAreExclusive, Invocations!InvocationSpec

=============================================================================
