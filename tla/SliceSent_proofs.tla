-------------------------- MODULE SliceSent_proofs --------------------------
(***************************************************************************)
(* What all records ever submitted say, for every set of threads and every *)
(* capacity and bound: how they identify invocations, threads and calls,   *)
(* and in what order their times stand.  The replay of capture_pid builds  *)
(* its profile on these facts.  SliceRecords_proofs gives what holds even  *)
(* of the part of them that is still in the ring.                          *)
(***************************************************************************)
EXTENDS SliceRecords_proofs, FiniteSetTheorems

(* Steps *)

\* sent2 is sent with what the step submitted; what the consumer takes stays.
Follows(sent, sent2) ==
    /\ \A e \in Event : ring' = Append(ring, e) => sent2 = Append(sent, e)
    /\ ring' = ring => sent2 = sent
    /\ Consume => sent2 = sent

Boundaries == {"ENTRY", "RETURN", "VIOLATION"}

\* What a step hands to emit(), and where its thread is then.
SendsBoundary(b) ==
    /\ b.kind \in Boundaries
    /\ b.ts = probe[b.tid].at /\ b.call = probe[b.tid].call
    /\ b.kind = "ENTRY" => EntryAnnounced(b.tid)
    /\ b.kind = "RETURN" => ReturnEmitted(b.tid)
    /\ b.kind = "VIOLATION" => EntryRejected(b.tid) \/ ReturnUnmatched(b.tid)

SendsStack(b) ==
    /\ b.kind \in {"SAMPLE", "OFFCPU"}
    /\ b.ts = clock' /\ clock < b.ts
    /\ link["sched"] # "gone" => offcpu'[b.tid] = None
    /\ b.kind = "SAMPLE" => Live("perf") /\ onCpu[b.tid]
    /\ b.kind = "OFFCPU" => /\ Live("sched") /\ offcpu[b.tid] # None
                            /\ b.ts - b.weight = offcpu[b.tid].at

Sends(b) ==
    /\ SendsBoundary(b) \/ SendsStack(b)
    /\ b.kind # "VIOLATION" => b.tid \in ActiveThreads /\ b.id = active[b.tid].id

-----------------------------------------------------------------------------
(* Invariants *)

\* An id is at least 2, and every record that carries one is of one thread:
\* the thread inside the invocation, as long as there is one.
OwnersInv(sent) ==
    /\ nextId >= 1
    /\ \A t \in ActiveThreads : active[t].id >= 2
    /\ \A e \in Records(sent) : e.kind # "VIOLATION" => e.id >= 2
    /\ \A t \in ActiveThreads, e \in Records(sent) :
          (e.kind # "VIOLATION" /\ e.id = active[t].id) => e.tid = t
    /\ \A d, e \in Records(sent) :
          (d.kind # "VIOLATION" /\ e.kind # "VIOLATION" /\ d.id = e.id) => d.tid = e.tid

\* Ids are spent on calls alone, one each.
Entering == {t \in Threads : pc[t] = "entry"}

SpendsInv ==
    /\ IsFiniteSet(Entering)
    /\ nextId + Cardinality(Entering) <= calls + 1
    /\ calls <= MaxCalls

\* An invocation ends no earlier than it starts.
EndsInv(sent) ==
    /\ \A t \in ActiveThreads : pc[t] = "return" => active[t].start <= probe[t].at
    /\ \A b, r \in Records(sent) :
          (b.kind = "ENTRY" /\ r.kind = "RETURN" /\ b.id = r.id) => b.ts <= r.ts

\* The boundary records of a thread are in the order of their times.
OrderInv(sent) ==
    /\ \A e \in Records(sent) : e.kind \in Boundaries => e.ts <= probe[e.tid].at
    /\ \A i, j \in DOMAIN sent :
          (/\ i < j /\ sent[i].tid = sent[j].tid
           /\ sent[i].kind \in Boundaries /\ sent[j].kind \in Boundaries)
             => sent[i].ts <= sent[j].ts

\* A stack record of a thread accounts for time after the thread's earlier ones.
Stacked(e) == e.kind \in {"SAMPLE", "OFFCPU"}

After(e, d) == d.ts <= (IF e.kind = "OFFCPU" THEN e.ts - e.weight ELSE e.ts)

StackInv(sent) ==
    /\ \A e \in Records(sent) : Stacked(e) =>
          e.ts <= clock /\ (offcpu[e.tid] # None => e.ts <= offcpu[e.tid].at)
    /\ \A i, j \in DOMAIN sent :
          (i < j /\ sent[i].tid = sent[j].tid /\ Stacked(sent[i]) /\ Stacked(sent[j]))
             => After(sent[j], sent[i])

\* The sampling interrupt is detached before slice_sched_switch.
SampledInv == Live("perf") => link["sched"] # "gone"

\* An invocation has one ENTRY and one RETURN.
OnceInv(sent) ==
    \A i, j \in DOMAIN sent :
       (sent[i].kind \in {"ENTRY", "RETURN"} /\ sent[j].kind = sent[i].kind /\ sent[i].id = sent[j].id)
          => i = j

\* The thread is in the call, or in a handler on the way in or out of it.
InCall(t, call) ==
    \/ \E m \in DOMAIN frames[t] : frames[t][m].call = call
    \/ pc[t] # "user" /\ probe[t].call = call

\* A call belongs to one thread, which sends its records.
CallersInv(sent) ==
    /\ \A t \in Threads : \A call \in Nat : InCall(t, call) => call <= calls
    /\ \A s, t \in Threads : \A call \in Nat : InCall(s, call) /\ InCall(t, call) => s = t
    /\ \A t \in Threads : \A m, n \in DOMAIN frames[t] :
          frames[t][m].call = frames[t][n].call => m = n
    /\ \A t \in Threads, e \in Records(sent) :
          (e.kind \in Boundaries /\ InCall(t, e.call)) => e.tid = t
    /\ \A e \in Records(sent) : e.kind \in Boundaries => e.call <= calls
    /\ \A t \in Threads, e \in Records(sent) :
          (pc[t] \in {"entry", "announce"} /\ e.kind \in Boundaries) => e.call # probe[t].call

\* Nothing else is open on the thread of an announced call but what a call
\* inside it opened, which slice_return will end first.
Holds(t, id, call) ==
    /\ link["return"] # "gone" =>
          \A m \in DOMAIN frames[t] :
             (frames[t][m].call = call /\ frames[t][m].ret) =>
                \/ active[t] = None \/ active[t].id = id \/ m < Len(frames[t])
                \/ pc[t] \in {"return", "clear"}
    /\ (pc[t] = "return" /\ probe[t].call = call) => active[t] = None \/ active[t].id = id

HoldsInv(sent) ==
    /\ \A e \in Records(sent) : e.kind = "ENTRY" => Holds(e.tid, e.id, e.call)
    /\ \A b, r \in Records(sent) :
          (b.kind = "ENTRY" /\ r.kind = "RETURN" /\ b.call = r.call) => b.id = r.id

-----------------------------------------------------------------------------
(* What a step sends *)

LEMMA FollowsGrows ==
    ASSUME NEW sent, NEW sent2, Follows(sent, sent2)
    PROVE  Grows(sent, sent2)
BY DEF Follows, Grows

LEMMA EmitFollows ==
    ASSUME NEW sent, NEW sent2, Follows(sent, sent2), NEW b \in Event, Emit(b)
    PROVE  sent2 = sent \/ sent2 = Append(sent, b)
BY DEF Emit, Follows

LEMMA BoundarySent ==
    ASSUME BpfTypeOK, NEW t \in Threads, NEW kind \in Boundaries, NEW id \in Nat,
           NEW sent, NEW sent2, Follows(sent, sent2), Emit(Boundary(kind, t, id))
    PROVE  LET b == Boundary(kind, t, id)
           IN  /\ b \in Event /\ (sent2 = sent \/ sent2 = Append(sent, b))
               /\ b.kind = kind /\ b.tid = t /\ b.id = id
               /\ b.ts = probe[t].at /\ b.call = probe[t].call
<1>1. Boundary(kind, t, id) \in Event
    BY BoundaryType DEF Boundaries, Kinds
<1>2. sent2 = sent \/ sent2 = Append(sent, Boundary(kind, t, id))
    BY <1>1, EmitFollows
<1> QED
    BY <1>1, <1>2 DEF Boundary

\* A uprobe handler sends the boundary it has read.
LEMMA HandlerSends ==
    ASSUME BpfTypeOK, EntryHeld, NEW t \in Threads, HandlerStep(t),
           NEW sent, NEW sent2, Follows(sent, sent2)
    PROVE  sent2 = sent \/ \E b \in Event : b.tid = t /\ Sends(b) /\ sent2 = Append(sent, b)
<1>1. CASE EntryRejected(t) \/ ReturnUnmatched(t)
  <2>1. Emit(Boundary("VIOLATION", t, 0))
    BY <1>1 DEF EntryRejected, ReturnUnmatched
  <2>2. PICK b \in Event : /\ sent2 = sent \/ sent2 = Append(sent, b)
                           /\ b.kind = "VIOLATION" /\ b.tid = t
                           /\ b.ts = probe[t].at /\ b.call = probe[t].call
    BY <2>1, BoundarySent DEF Boundaries
  <2>3. Sends(b)
    BY <1>1, <2>2 DEF Sends, SendsBoundary, Boundaries
  <2> QED
    BY <2>2, <2>3
<1>2. CASE EntryAnnounced(t)
  <2>1. active[t] # None /\ Emit(Boundary("ENTRY", t, active[t].id))
    BY <1>2 DEF EntryAnnounced, EntryHeld
  <2>2. active[t] \in Active
    BY <2>1 DEF BpfTypeOK
  <2>3. active[t].id \in Nat
    BY <2>2 DEF Active
  <2>4. PICK b \in Event : /\ sent2 = sent \/ sent2 = Append(sent, b)
                           /\ b.kind = "ENTRY" /\ b.tid = t /\ b.id = active[t].id
                           /\ b.ts = probe[t].at /\ b.call = probe[t].call
    BY <2>1, <2>3, BoundarySent DEF Boundaries
  <2>5. Sends(b)
    BY <1>2, <2>1, <2>4 DEF Sends, SendsBoundary, Boundaries, ActiveThreads
  <2> QED
    BY <2>4, <2>5
<1>3. CASE ReturnEmitted(t)
  <2>1. active[t] # None /\ Emit(Boundary("RETURN", t, active[t].id))
    BY <1>3 DEF ReturnEmitted
  <2>2. active[t] \in Active
    BY <2>1 DEF BpfTypeOK
  <2>3. active[t].id \in Nat
    BY <2>2 DEF Active
  <2>4. PICK b \in Event : /\ sent2 = sent \/ sent2 = Append(sent, b)
                           /\ b.kind = "RETURN" /\ b.tid = t /\ b.id = active[t].id
                           /\ b.ts = probe[t].at /\ b.call = probe[t].call
    BY <2>1, <2>3, BoundarySent DEF Boundaries
  <2>5. Sends(b)
    BY <1>3, <2>1, <2>4 DEF Sends, SendsBoundary, Boundaries, ActiveThreads
  <2> QED
    BY <2>4, <2>5
<1>4. CASE EntryInstalled(t) \/ EntryRefused(t) \/ ReturnCleared(t)
    BY <1>4 DEF EntryInstalled, EntryRefused, ReturnCleared, transport, Follows
<1> QED
    BY <1>1, <1>2, <1>3, <1>4 DEF HandlerStep

LEMMA SampleSends ==
    ASSUME BpfTypeOK, SchedInv, NEW t \in Threads, SampleTaken(t),
           NEW sent, NEW sent2, Follows(sent, sent2)
    PROVE  sent2 = sent \/ \E b \in Event : Sends(b) /\ sent2 = Append(sent, b)
<1>1. PICK now \in Readings \ {clock}, stack \in Stacks \cup {NoStack} :
         /\ clock' = now
         /\ IF stack = NoStack
            THEN UNCHANGED transport
            ELSE Emit(StackRecord("SAMPLE", t, now, stack, SamplePeriod))
    BY DEF SampleTaken
<1>2. now \in Nat /\ clock < now
    BY BoundAssumption DEF Readings, BpfTypeOK
<1> DEFINE b == StackRecord("SAMPLE", t, now, stack, SamplePeriod)
<1>3. active[t] # None /\ onCpu[t] /\ Live("perf") /\ offcpu' = offcpu
    BY DEF SampleTaken, maps
<1>4. b \in Event
    BY <1>2, <1>3, StackRecordType, BoundAssumption DEF Kinds
<1>5. b.kind = "SAMPLE" /\ b.tid = t /\ b.ts = now /\ b.id = active[t].id
    BY DEF StackRecord
<1>6. link["sched"] # "gone" => offcpu'[t] = None
    BY <1>3, LinksAreNames DEF SchedInv, OffcpuOnlyWhileOff, NothingOpenYet, Live, BpfTypeOK
<1>7. sent2 = sent \/ sent2 = Append(sent, b)
    BY <1>1, <1>4, EmitFollows DEF transport, Follows
<1> HIDE DEF b
<1>8. Sends(b)
    BY <1>1, <1>2, <1>3, <1>5, <1>6 DEF Sends, SendsStack, ActiveThreads
<1> QED
    BY <1>4, <1>7, <1>8

LEMMA SwitchSends ==
    ASSUME NEW sent, Base(sent), TimeInv(sent), SchedInv',
           NEW prev \in Threads \cup {Other}, NEW next \in Threads \cup {Other},
           SchedSwitch(prev, next), NEW sent2, Follows(sent, sent2)
    PROVE  sent2 = sent \/ \E b \in Event : Sends(b) /\ sent2 = Append(sent, b)
<1>0. BpfTypeOK /\ MapsMirror
    BY DEF Base
<1>1. UNCHANGED transport => sent2 = sent
    BY DEF transport, Follows
<1>2. ASSUME SwitchEmits(next)
      PROVE  sent2 = sent \/ \E b \in Event : Sends(b) /\ sent2 = Append(sent, b)
  <2> DEFINE b == OffcpuRecord(next, clock')
  <2>1. next \in ActiveThreads /\ offcpu[next] # None /\ Live("sched") /\ Emit(b)
    BY <1>2 DEF SwitchEmits, ActiveThreads
  <2>2. clock' \in Nat /\ clock' # clock /\ clock <= clock' /\ clock \in Nat
    <3>1. PICK now \in Readings \ {clock} : clock' = now
        BY <2>1 DEF SchedSwitch, SwitchHandler
    <3> QED
        BY <1>0, <3>1, BoundAssumption DEF Readings, BpfTypeOK
  <2>3. offcpu[next].at <= clock
    BY <2>1 DEF TimeInv, ThreadTimes
  <2>4. /\ b \in Event /\ b.kind = "OFFCPU" /\ b.id = active[next].id /\ b.tid = next
        /\ b.ts = clock' /\ offcpu[next].at \in Nat
        /\ offcpu[next].at <= clock' => clock' - b.weight = offcpu[next].at
    BY <1>0, <2>1, <2>2, OffcpuRecordType DEF ActiveThreads
  <2>5. offcpu'[next] = None
    <3>1. next \in Threads /\ onCpu'[next] = TRUE /\ link' = link
        BY <1>2 DEF SwitchEmits, SchedSwitch
    <3> QED
        BY <2>1, <3>1 DEF SchedInv, OffcpuOnlyWhileOff, Live
  <2> HIDE DEF b
  <2>6. Sends(b)
    BY <2>1, <2>2, <2>3, <2>4, <2>5 DEF Sends, SendsStack
  <2> QED
    BY <2>1, <2>4, <2>6, EmitFollows
<1> QED
    BY <1>0, <1>1, <1>2, SwitchRecord

\* A step adds one record at most, the one its handler sends.
LEMMA StepSends ==
    ASSUME NEW sent, Base(sent), TimeInv(sent), SchedInv', BpfNext,
           NEW sent2, Follows(sent, sent2)
    PROVE  sent2 = sent \/ \E b \in Event : Sends(b) /\ sent2 = Append(sent, b)
<1>0. BpfTypeOK /\ EntryHeld /\ SchedInv
    BY DEF Base
<1>1. UNCHANGED transport => sent2 = sent
    BY DEF transport, Follows
<1>2. ASSUME NEW t \in Threads, ProgramStep(t) PROVE sent2 = sent
    BY <1>1, <1>2 DEF ProgramStep, Call, Return, ThreadExit
<1>3. ASSUME NEW l \in LinkNames, Attach(l) \/ Detach(l) PROVE sent2 = sent
    BY <1>1, <1>3 DEF Attach, Detach
<1>4. Consume => sent2 = sent
    BY DEF Follows
<1> QED
    BY <1>0, <1>2, <1>3, <1>4, HandlerSends, SampleSends, SwitchSends DEF BpfNext, KernelStep

\* Records after a step.
Appended(sent, sent2, b) ==
    /\ Records(sent2) = Records(sent) \cup {b}
    /\ Len(sent) \in Nat /\ DOMAIN sent = 1..Len(sent)
    /\ DOMAIN sent2 = 1..(Len(sent) + 1)
    /\ \A i \in DOMAIN sent : i \in DOMAIN sent2 /\ sent2[i] = sent[i]
    /\ Len(sent) + 1 \in DOMAIN sent2 /\ sent2[Len(sent) + 1] = b

LEMMA AppendedRecords ==
    ASSUME NEW sent \in Seq(Event), NEW b \in Event, NEW sent2, sent2 = Append(sent, b)
    PROVE  Appended(sent, sent2, b)
<1>1. /\ Len(sent) \in Nat /\ DOMAIN sent = 1..Len(sent)
      /\ DOMAIN sent2 = 1..(Len(sent) + 1)
      /\ \A i \in DOMAIN sent : i \in DOMAIN sent2 /\ sent2[i] = sent[i]
      /\ Len(sent) + 1 \in DOMAIN sent2 /\ sent2[Len(sent) + 1] = b
    OBVIOUS
<1>2. \A i \in DOMAIN sent2 : i \in DOMAIN sent \/ i = Len(sent) + 1
    BY <1>1
<1>3. Records(sent2) = Records(sent) \cup {b}
    BY <1>1, <1>2 DEF Records
<1> QED
    BY <1>1, <1>3 DEF Appended

-----------------------------------------------------------------------------
(* Where a step leaves the threads *)

Quiet == UNCHANGED <<frames, calls, pc, probe, active, nextId>>

\* The links, the interrupts, the scheduler and the consumer leave the calls
\* and handlers of the program alone.
LEMMA StepKinds ==
    ASSUME BpfNext
    PROVE  Quiet \/ \E t \in Threads : ProgramStep(t) \/ HandlerStep(t)
<1>1. ASSUME NEW t \in Threads, SampleTaken(t) PROVE Quiet
    BY <1>1 DEF SampleTaken, Quiet, program, handlers, maps
<1>2. ASSUME NEW prev \in Threads \cup {Other}, NEW next \in Threads \cup {Other},
             SchedSwitch(prev, next)
      PROVE  Quiet
    BY <1>2 DEF SchedSwitch, Quiet, handlers
<1>3. ASSUME NEW l \in LinkNames, Attach(l) \/ Detach(l) PROVE Quiet
    BY <1>3 DEF Attach, Detach, Quiet, program, handlers, maps
<1>4. Consume => Quiet
    BY DEF Consume, Quiet, program, handlers, maps
<1> QED
    BY <1>1, <1>2, <1>3, <1>4 DEF BpfNext, KernelStep

\* A handler of t works on t alone, and takes one of these ways.
HandlerWay(t) ==
    /\ UNCHANGED <<frames, calls, probe>>
    /\ \/ /\ pc[t] = "entry" /\ active[t] # None /\ pc' = [pc EXCEPT ![t] = "user"]
          /\ UNCHANGED <<active, nextId>>
       \/ /\ pc[t] = "entry" /\ active[t] = None /\ pc' = [pc EXCEPT ![t] = "announce"]
          /\ active' = [active EXCEPT ![t] = [id |-> nextId + 1, start |-> probe[t].at]]
          /\ nextId' = nextId + 1
       \/ /\ pc[t] = "entry" /\ active[t] = None /\ pc' = [pc EXCEPT ![t] = "user"]
          /\ active' = active /\ nextId' = nextId + 1
       \/ /\ pc[t] = "announce" /\ pc' = [pc EXCEPT ![t] = "user"]
          /\ UNCHANGED <<active, nextId>>
       \/ /\ pc[t] = "return" /\ active[t] = None /\ pc' = [pc EXCEPT ![t] = "user"]
          /\ UNCHANGED <<active, nextId>>
       \/ /\ pc[t] = "return" /\ active[t] # None /\ pc' = [pc EXCEPT ![t] = "clear"]
          /\ UNCHANGED <<active, nextId>>
       \/ /\ pc[t] = "clear" /\ pc' = [pc EXCEPT ![t] = "user"]
          /\ active' = [active EXCEPT ![t] = None] /\ nextId' = nextId

LEMMA HandlerWays ==
    ASSUME NEW t \in Threads, HandlerStep(t)
    PROVE  HandlerWay(t)
<1>1. UNCHANGED <<frames, calls, probe>>
    BY DEF HandlerStep, EntryRejected, EntryInstalled, EntryRefused, EntryAnnounced,
           ReturnUnmatched, ReturnEmitted, ReturnCleared, Goto, program
<1>2. CASE EntryRejected(t)
    BY <1>1, <1>2 DEF EntryRejected, Occupied, Goto, maps, HandlerWay
<1>3. CASE EntryInstalled(t)
    BY <1>1, <1>3 DEF EntryInstalled, Occupied, AdvanceId, Goto, HandlerWay
<1>4. CASE EntryRefused(t)
    BY <1>1, <1>4 DEF EntryRefused, Occupied, AdvanceId, Goto, maps, HandlerWay
<1>5. CASE EntryAnnounced(t)
    BY <1>1, <1>5 DEF EntryAnnounced, Goto, maps, HandlerWay
<1>6. CASE ReturnUnmatched(t)
    BY <1>1, <1>6 DEF ReturnUnmatched, Goto, maps, HandlerWay
<1>7. CASE ReturnEmitted(t)
    BY <1>1, <1>7 DEF ReturnEmitted, Goto, maps, HandlerWay
<1>8. CASE ReturnCleared(t)
    BY <1>1, <1>8 DEF ReturnCleared, WithoutActive, Goto, HandlerWay
<1> QED
    BY <1>2, <1>3, <1>4, <1>5, <1>6, <1>7, <1>8 DEF HandlerStep

\* Without a handler's step the maps stand still.
LEMMA ProgramKeeps ==
    ASSUME NEW t \in Threads, ProgramStep(t)
    PROVE  UNCHANGED <<active, nextId, link>>
BY DEF ProgramStep, Call, Return, ThreadExit, maps

\* What may become of an entry of active_by_tid.
LEMMA ActiveMoves ==
    ASSUME BpfTypeOK, BpfNext, NEW t \in Threads
    PROVE  /\ \/ active'[t] = active[t] \/ active'[t] = None
              \/ /\ active'[t].id = nextId + 1 /\ nextId' = nextId + 1
                 /\ active[t] = None /\ pc[t] = "entry" /\ pc'[t] = "announce"
           /\ nextId' \in {nextId, nextId + 1}
<1>1. CASE Quiet
    BY <1>1 DEF Quiet
<1>2. ASSUME NEW s \in Threads, ProgramStep(s)
      PROVE  active'[t] = active[t] /\ nextId' = nextId
    BY <1>2, ProgramKeeps
<1>3. ASSUME NEW s \in Threads, HandlerWay(s)
      PROVE  /\ \/ active'[t] = active[t] \/ active'[t] = None
                \/ /\ active'[t].id = nextId + 1 /\ nextId' = nextId + 1
                   /\ active[t] = None /\ pc[t] = "entry" /\ pc'[t] = "announce"
             /\ nextId' \in {nextId, nextId + 1}
    BY <1>3 DEF HandlerWay, BpfTypeOK
<1> QED
    BY <1>1, <1>2, <1>3, StepKinds, HandlerWays

-----------------------------------------------------------------------------
(* Whose invocation a record is about *)

LEMMA OwnersStep ==
    ASSUME NEW sent \in Seq(Event), NEW sent2, Follows(sent, sent2),
           Base(sent), TimeInv(sent), SchedInv', OwnersInv(sent), BpfNext
    PROVE  OwnersInv(sent2)'
<1>0. /\ BpfTypeOK /\ OneOwnerPerId /\ nextId \in Nat
      /\ \A e \in Records(sent) : e.id <= nextId /\ e.id \in Nat
    BY RecordType DEF Base, BpfTypeOK, IdsInv, Event
<1>1. \A t \in Threads :
         /\ \/ active'[t] = active[t] \/ active'[t] = None
            \/ active'[t].id = nextId + 1 /\ nextId' = nextId + 1
         /\ nextId' \in {nextId, nextId + 1}
    BY <1>0, ActiveMoves
<1>2. nextId' >= 1
    <2>1. nextId' \in {nextId, nextId + 1}
        <3>1. CASE Quiet
            BY <3>1 DEF Quiet
        <3>2. ASSUME NEW t \in Threads, ProgramStep(t) PROVE nextId' = nextId
            BY <3>2, ProgramKeeps
        <3>3. ASSUME NEW t \in Threads, HandlerStep(t) PROVE nextId' \in {nextId, nextId + 1}
            BY <1>1
        <3> QED
            BY <3>1, <3>2, <3>3, StepKinds
    <2> QED
        BY <1>0, <2>1 DEF OwnersInv
<1>3. ASSUME NEW t \in ActiveThreads'
      PROVE  /\ active'[t].id >= 2
             /\ \A e \in Records(sent) : (e.kind # "VIOLATION" /\ e.id = active'[t].id) => e.tid = t
  <2>1. t \in Threads /\ active'[t] # None
    BY <1>3 DEF ActiveThreads
  <2>2. CASE active'[t] = active[t]
    BY <2>1, <2>2 DEF OwnersInv, ActiveThreads
  <2>3. CASE active'[t].id = nextId + 1
    BY <1>0, <2>3 DEF OwnersInv
  <2> QED
    BY <1>1, <2>1, <2>2, <2>3
<1>4. CASE sent2 = sent
    BY <1>2, <1>3, <1>4 DEF OwnersInv
<1>5. ASSUME NEW b \in Event, Sends(b), sent2 = Append(sent, b)
      PROVE  OwnersInv(sent2)'
  <2>1. Records(sent2) = Records(sent) \cup {b}
    BY <1>5, AppendedRecords DEF Appended
  <2>2. b.kind # "VIOLATION" => b.tid \in ActiveThreads /\ b.id = active[b.tid].id
    BY <1>5 DEF Sends
  <2>3. b.kind # "VIOLATION" =>
           /\ b.id >= 2
           /\ \A e \in Records(sent) : (e.kind # "VIOLATION" /\ e.id = b.id) => e.tid = b.tid
    BY <2>2 DEF OwnersInv
  <2>4. ASSUME NEW t \in ActiveThreads', b.kind # "VIOLATION", b.id = active'[t].id
        PROVE  b.tid = t
    <3>1. t \in Threads /\ active'[t] # None
        BY <2>4 DEF ActiveThreads
    <3>2. CASE active'[t] = active[t]
        BY <1>0, <2>2, <2>4, <3>1, <3>2 DEF OneOwnerPerId, ActiveThreads
    <3>3. CASE active'[t].id = nextId + 1
        BY <1>0, <2>2, <2>4, <3>3 DEF OneOwnerPerId
    <3> QED
        BY <1>1, <3>1, <3>2, <3>3
  <2> QED
    BY <1>2, <1>3, <2>1, <2>3, <2>4 DEF OwnersInv
<1> QED
    BY <1>4, <1>5, StepSends

\* Ids are spent on calls.
LEMMA SpendsStep ==
    ASSUME BpfTypeOK, SpendsInv, BpfNext
    PROVE  SpendsInv'
<1>0. /\ IsFiniteSet(Entering) /\ Cardinality(Entering) \in Nat
      /\ nextId + Cardinality(Entering) <= calls + 1 /\ calls <= MaxCalls
      /\ nextId \in Nat /\ calls \in Nat /\ MaxCalls \in Nat
    BY FS_CardinalityType, BoundAssumption DEF SpendsInv, BpfTypeOK
<1>1. ASSUME UNCHANGED <<calls, nextId>>, Entering' = Entering PROVE SpendsInv'
    BY <1>0, <1>1 DEF SpendsInv
<1>2. CASE Quiet
  <2>1. Entering' = Entering
    BY <1>2 DEF Quiet, Entering
  <2> QED
    BY <1>1, <1>2, <2>1 DEF Quiet
<1>3. ASSUME NEW t \in Threads, Call(t) PROVE SpendsInv'
  <2>1. calls' = calls + 1 /\ nextId' = nextId /\ calls < MaxCalls /\ pc[t] = "user"
    BY <1>3 DEF Call, InUser
  <2>2. pc' = pc \/ pc' = [pc EXCEPT ![t] = "entry"]
    BY <1>3 DEF Call, handlers
  <2>3. CASE pc' = pc
    <3>1. Entering' = Entering
        BY <2>3 DEF Entering
    <3> QED
        BY <1>0, <2>1, <3>1 DEF SpendsInv
  <2>4. CASE pc' = [pc EXCEPT ![t] = "entry"]
    <3>1. Entering' = Entering \cup {t} /\ t \notin Entering
        BY <2>1, <2>4 DEF Entering, BpfTypeOK
    <3>2. IsFiniteSet(Entering \cup {t}) /\ Cardinality(Entering \cup {t}) = Cardinality(Entering) + 1
        BY <1>0, <3>1, FS_AddElement
    <3> QED
        BY <1>0, <2>1, <3>1, <3>2 DEF SpendsInv
  <2> QED
    BY <2>2, <2>3, <2>4
<1>4. ASSUME NEW t \in Threads, Return(t) \/ ThreadExit(t) PROVE SpendsInv'
  <2>1. UNCHANGED <<calls, nextId>> /\ pc[t] = "user"
    BY <1>4 DEF Return, ThreadExit, InUser
  <2>2. pc' = pc \/ pc' = [pc EXCEPT ![t] = "return"]
    BY <1>4 DEF Return, ThreadExit, handlers
  <2>3. Entering' = Entering
    BY <2>1, <2>2 DEF Entering, BpfTypeOK
  <2> QED
    BY <1>1, <2>1, <2>3
<1>5. ASSUME NEW t \in Threads, HandlerWay(t) PROVE SpendsInv'
  <2>1. calls' = calls /\ nextId' \in {nextId, nextId + 1}
    BY <1>5 DEF HandlerWay
  <2>2. CASE pc[t] # "entry"
    <3>1. nextId' = nextId /\ \E p \in {"user", "clear"} : pc' = [pc EXCEPT ![t] = p]
        BY <1>5, <2>2 DEF HandlerWay
    <3>2. Entering' = Entering
        BY <2>2, <3>1 DEF Entering, BpfTypeOK
    <3> QED
        BY <1>1, <2>1, <3>1, <3>2
  <2>3. CASE pc[t] = "entry"
    <3>1. \E p \in {"user", "announce"} : pc' = [pc EXCEPT ![t] = p]
        BY <1>5, <2>3 DEF HandlerWay
    <3>2. Entering' = Entering \ {t} /\ t \in Entering
        BY <2>3, <3>1 DEF Entering, BpfTypeOK
    <3>3. IsFiniteSet(Entering \ {t}) /\ Cardinality(Entering \ {t}) = Cardinality(Entering) - 1
        BY <1>0, <3>2, FS_RemoveElement
    <3> QED
        BY <1>0, <2>1, <3>2, <3>3 DEF SpendsInv
  <2> QED
    BY <2>2, <2>3
<1> QED
    BY <1>2, <1>3, <1>4, <1>5, StepKinds, HandlerWays DEF ProgramStep

-----------------------------------------------------------------------------
(* The order of an invocation's times *)

LEMMA EndsStep ==
    ASSUME NEW sent \in Seq(Event), NEW sent2, Follows(sent, sent2),
           Base(sent), TimeInv(sent), SchedInv', EndsInv(sent), BpfNext
    PROVE  EndsInv(sent2)'
<1>0. /\ BpfTypeOK /\ clock \in Nat
      /\ \A t \in ActiveThreads : active[t].start \in Nat
      /\ \A t \in Threads : probe[t].at \in Nat
    BY DEF Base, BpfTypeOK, ActiveThreads, Active, Probe
<1>1. ASSUME NEW t \in ActiveThreads', pc'[t] = "return"
      PROVE  active'[t].start <= probe'[t].at
  <2>1. t \in Threads /\ active'[t] # None
    BY <1>1 DEF ActiveThreads
  <2>2. active'[t] = active[t]
    BY <1>0, <1>1, <2>1, ActiveMoves
  <2>3. t \in ActiveThreads /\ active[t].start <= clock
    BY <2>1, <2>2 DEF ActiveThreads, TimeInv, ThreadTimes
  <2>4. CASE pc[t] = "return" /\ probe'[t] = probe[t]
    BY <2>2, <2>3, <2>4 DEF EndsInv
  <2>5. CASE Quiet
    BY <1>1, <2>4, <2>5 DEF Quiet
  <2>6. ASSUME NEW s \in Threads, HandlerWay(s)
        PROVE  pc[t] = "return" /\ probe'[t] = probe[t]
    BY <1>0, <1>1, <2>1, <2>6 DEF HandlerWay, BpfTypeOK
  <2>7. ASSUME NEW s \in Threads, ProgramStep(s)
        PROVE  \/ pc[t] = "return" /\ probe'[t] = probe[t]
               \/ probe'[t].at \in Nat /\ clock <= probe'[t].at
    <3>1. CASE s # t
        BY <1>0, <1>1, <2>1, <2>7, <3>1
        DEF ProgramStep, Call, Return, ThreadExit, handlers, BpfTypeOK
    <3>2. CASE s = t
        <4>1. pc[t] = "user"
            BY <2>7, <3>2 DEF ProgramStep, Call, Return, ThreadExit, InUser
        <4>2. Return(t)
            BY <1>0, <1>1, <2>1, <2>7, <3>2, <4>1 DEF ProgramStep, Call, ThreadExit, handlers, BpfTypeOK
        <4>3. PICK now \in Readings, call \in {frames[t][Len(frames[t])].call}, depth \in {Len(frames[t])} :
                 probe' = [probe EXCEPT ![t] = [at |-> now, call |-> call, depth |-> depth]]
            BY <1>1, <4>1, <4>2 DEF Return, handlers
        <4>4. probe'[t].at = now
            BY <1>0, <2>1, <4>3 DEF BpfTypeOK
        <4> QED
            BY <1>0, <4>4, BoundAssumption DEF Readings
    <3> QED
        BY <3>1, <3>2
  <2>8. CASE probe'[t].at \in Nat /\ clock <= probe'[t].at
    BY <1>0, <2>2, <2>3, <2>8
  <2> QED
    BY <2>4, <2>5, <2>6, <2>7, <2>8, StepKinds, HandlerWays
<1>2. CASE sent2 = sent
    BY <1>1, <1>2 DEF EndsInv
<1>3. ASSUME NEW b \in Event, Sends(b), sent2 = Append(sent, b)
      PROVE  EndsInv(sent2)'
  <2>1. Records(sent2) = Records(sent) \cup {b}
    BY <1>3, AppendedRecords DEF Appended
  <2>2. ASSUME b.kind = "RETURN", NEW e \in Records(sent), e.kind = "ENTRY", e.id = b.id
        PROVE  e.ts <= b.ts
    <3>1. /\ b.tid \in ActiveThreads /\ b.id = active[b.tid].id
          /\ b.ts = probe[b.tid].at /\ pc[b.tid] = "return"
        BY <1>3, <2>2 DEF Sends, SendsBoundary, SendsStack, ReturnEmitted
    <3>2. e.ts <= active[b.tid].start /\ active[b.tid].start <= b.ts
        BY <2>2, <3>1 DEF TimeInv, RecordTimes, EndsInv
    <3>3. e.ts \in Nat /\ b.ts \in Nat
        BY RecordType DEF Event
    <3> QED
        BY <1>0, <3>1, <3>2, <3>3
  <2>3. ASSUME b.kind = "ENTRY", NEW e \in Records(sent), e.kind = "RETURN", e.id = b.id
        PROVE  FALSE
    <3>1. b.tid \in ActiveThreads /\ b.id = active[b.tid].id /\ pc[b.tid] = "announce"
        BY <1>3, <2>3 DEF Sends, SendsBoundary, SendsStack, EntryAnnounced
    <3>2. OwnRecord(b.tid, e)
        BY <2>3, <3>1 DEF Base, IdsInv
    <3> QED
        BY <2>3, <3>1, <3>2 DEF OwnRecord
  <2> QED
    BY <1>1, <2>1, <2>2, <2>3 DEF EndsInv
<1> QED
    BY <1>2, <1>3, StepSends

-----------------------------------------------------------------------------
(* The order of a thread's times *)

\* The clock never goes back, nor does what a handler has read of it; an
\* off-CPU interval that opens does so now.
LEMMA TimesAdvance ==
    ASSUME NEW sent \in Seq(Event), Base(sent), BpfNext, NEW t \in Threads
    PROVE  /\ clock' \in Nat /\ clock <= clock'
           /\ \/ probe'[t] = probe[t]
              \/ probe'[t].at \in Nat /\ clock <= probe'[t].at
           /\ offcpu'[t] \in {None, offcpu[t]} \/ offcpu'[t].at = clock'
<1> DEFINE Advance == /\ clock' \in Nat /\ clock <= clock'
                      /\ \/ probe'[t] = probe[t]
                         \/ probe'[t].at \in Nat /\ clock <= probe'[t].at
                      /\ offcpu'[t] \in {None, offcpu[t]} \/ offcpu'[t].at = clock'
<1>1. ASSUME TimeMoves, MovesOn PROVE Advance
    BY <1>1 DEF TimeMoves, MovesOn, StaysInHandler, StartsHandler, KeepsInterval
<1>2. ASSUME UNCHANGED <<clock, probe>>, offcpu'[t] \in {None, offcpu[t]} PROVE Advance
    BY <1>2 DEF Base, BpfTypeOK
<1>3. ASSUME NEW s \in Threads, EntryInstalled(s) \/ ReturnCleared(s) PROVE Advance
  <2>1. UNCHANGED <<clock, probe>>
    BY <1>3 DEF EntryInstalled, ReturnCleared, Goto
  <2>2. offcpu' = offcpu \/ offcpu' = [offcpu EXCEPT ![s] = None]
    BY <1>3 DEF EntryInstalled, ReturnCleared
  <2>3. offcpu'[t] \in {None, offcpu[t]}
    BY <2>2 DEF Base, BpfTypeOK
  <2> QED
    BY <1>2, <2>1, <2>3
<1>4. ASSUME Consume PROVE Advance
    BY <1>2, <1>4 DEF Consume, handlers, maps
<1> HIDE DEF Advance
<1>5. Advance
    BY <1>1, <1>3, <1>4, ProgramMoves, HandlerMoves, SampleMoves, SwitchMoves, LinkMoves
    DEF BpfNext, KernelStep
<1> QED
    BY <1>5 DEF Advance

LEMMA OrderStep ==
    ASSUME NEW sent \in Seq(Event), NEW sent2, Follows(sent, sent2),
           Base(sent), TimeInv(sent), SchedInv', OrderInv(sent), BpfNext
    PROVE  OrderInv(sent2)'
<1>0. /\ \A t \in Threads : probe[t].at \in Nat /\ probe[t].at <= clock
      /\ clock \in Nat
    BY DEF Base, BpfTypeOK, Probe, TimeInv
<1>1. \A t \in Threads : probe[t].at <= probe'[t].at /\ probe'[t].at \in Nat
  <2>1. \A t \in Threads : \/ probe'[t] = probe[t]
                           \/ probe'[t].at \in Nat /\ clock <= probe'[t].at
    BY TimesAdvance
  <2> QED
    BY <1>0, <2>1
<1>2. ASSUME NEW e \in Records(sent), e.kind \in Boundaries PROVE e.ts <= probe'[e.tid].at
  <2>1. e.ts \in Nat /\ e.tid \in Threads
    BY RecordType DEF Event
  <2>2. e.ts <= probe[e.tid].at
    BY <1>2 DEF OrderInv
  <2> QED
    BY <1>0, <1>1, <2>1, <2>2
<1>3. CASE sent2 = sent
    BY <1>2, <1>3 DEF OrderInv
<1>4. ASSUME NEW b \in Event, Sends(b), sent2 = Append(sent, b)
      PROVE  OrderInv(sent2)'
  <2>0. Appended(sent, sent2, b)
    BY <1>4, AppendedRecords
  <2>1. /\ Records(sent2) = Records(sent) \cup {b}
        /\ Len(sent) \in Nat /\ DOMAIN sent = 1..Len(sent)
        /\ DOMAIN sent2 = 1..(Len(sent) + 1)
        /\ \A i \in DOMAIN sent : i \in DOMAIN sent2 /\ sent2[i] = sent[i]
        /\ sent2[Len(sent) + 1] = b
    BY <2>0 DEF Appended
  <2>2. b.tid \in Threads /\ (b.kind \in Boundaries => b.ts = probe[b.tid].at)
    BY <1>4 DEF Event, Sends, SendsBoundary, SendsStack, Boundaries
  <2>3. b.kind \in Boundaries => b.ts <= probe'[b.tid].at
    BY <1>1, <2>2
  <2>4. ASSUME NEW i \in DOMAIN sent2, NEW j \in DOMAIN sent2, i < j, sent2[i].tid = sent2[j].tid,
               sent2[i].kind \in Boundaries, sent2[j].kind \in Boundaries
        PROVE  sent2[i].ts <= sent2[j].ts
    <3>1. i \in DOMAIN sent
        BY <2>1, <2>4
    <3>2. CASE j \in DOMAIN sent
        BY <2>1, <2>4, <3>1, <3>2 DEF OrderInv
    <3>3. CASE j = Len(sent) + 1
      <4>1. sent2[i] = sent[i] /\ sent[i] \in Records(sent) /\ sent2[j] = b
        BY <2>1, <3>1, <3>3 DEF Records
      <4>2. sent[i].ts <= probe[b.tid].at
        BY <2>4, <4>1 DEF OrderInv
      <4> QED
        BY <2>2, <2>4, <4>1, <4>2
    <3> QED
        BY <2>1, <3>2, <3>3
  <2>5. \A e \in Records(sent2) : e.kind \in Boundaries => e.ts <= probe'[e.tid].at
    BY <1>2, <2>1, <2>3
  <2> QED
    BY <2>4, <2>5 DEF OrderInv
<1> QED
    BY <1>3, <1>4, StepSends

LEMMA StackStep ==
    ASSUME NEW sent \in Seq(Event), NEW sent2, Follows(sent, sent2),
           Base(sent), TimeInv(sent), SchedInv', SampledInv, StackInv(sent), BpfNext
    PROVE  StackInv(sent2)'
<1>1. ASSUME NEW e \in Records(sent), Stacked(e)
      PROVE  e.ts <= clock' /\ (offcpu'[e.tid] # None => e.ts <= offcpu'[e.tid].at)
  <2>1. e.ts \in Nat /\ e.tid \in Threads
    BY RecordType DEF Event
  <2>2. /\ clock \in Nat /\ clock' \in Nat /\ clock <= clock'
        /\ offcpu'[e.tid] \in {None, offcpu[e.tid]} \/ offcpu'[e.tid].at = clock'
    BY <2>1, TimesAdvance DEF Base, BpfTypeOK
  <2>3. e.ts <= clock /\ (offcpu[e.tid] # None => e.ts <= offcpu[e.tid].at)
    BY <1>1 DEF StackInv
  <2>4. e.ts <= clock'
    BY <2>1, <2>2, <2>3
  <2> QED
    BY <2>2, <2>3, <2>4
<1>2. CASE sent2 = sent
    BY <1>1, <1>2 DEF StackInv
<1>3. ASSUME NEW b \in Event, Sends(b), sent2 = Append(sent, b)
      PROVE  StackInv(sent2)'
  <2>0. Appended(sent, sent2, b)
    BY <1>3, AppendedRecords
  <2>1. /\ Records(sent2) = Records(sent) \cup {b}
        /\ Len(sent) \in Nat /\ DOMAIN sent = 1..Len(sent)
        /\ DOMAIN sent2 = 1..(Len(sent) + 1)
        /\ \A i \in DOMAIN sent : i \in DOMAIN sent2 /\ sent2[i] = sent[i]
        /\ sent2[Len(sent) + 1] = b
    BY <2>0 DEF Appended
  <2>2. Stacked(b) => SendsStack(b)
    BY <1>3 DEF Sends, SendsBoundary, Boundaries, Stacked
  <2>3. Stacked(b) => b.ts = clock' /\ b.ts \in Nat /\ offcpu'[b.tid] = None
    BY <2>2 DEF SendsStack, Stacked, SampledInv, Live, Event
  <2>4. ASSUME NEW i \in DOMAIN sent2, NEW j \in DOMAIN sent2, i < j, sent2[i].tid = sent2[j].tid,
               Stacked(sent2[i]), Stacked(sent2[j])
        PROVE  After(sent2[j], sent2[i])
    <3>1. i \in DOMAIN sent
        BY <2>1, <2>4
    <3>2. CASE j \in DOMAIN sent
        BY <2>1, <2>4, <3>1, <3>2 DEF StackInv
    <3>3. CASE j = Len(sent) + 1
      <4>1. sent2[i] = sent[i] /\ sent[i] \in Records(sent) /\ sent2[j] = b
        BY <2>1, <3>1, <3>3 DEF Records
      <4>2. sent[i].ts <= clock /\ (offcpu[b.tid] # None => sent[i].ts <= offcpu[b.tid].at)
        BY <2>4, <4>1 DEF StackInv
      <4>3. sent[i].ts \in Nat /\ clock \in Nat /\ clock < b.ts /\ b.ts \in Nat
        BY <2>2, <2>4, <4>1, RecordType DEF SendsStack, Event, Base, BpfTypeOK
      <4>4. b.kind = "OFFCPU" => offcpu[b.tid] # None /\ b.ts - b.weight = offcpu[b.tid].at
        BY <2>2, <2>4, <4>1 DEF SendsStack
      <4> QED
        BY <4>1, <4>2, <4>3, <4>4 DEF After
    <3> QED
        BY <2>1, <3>2, <3>3
  <2>5. \A e \in Records(sent2) : Stacked(e) =>
           e.ts <= clock' /\ (offcpu'[e.tid] # None => e.ts <= offcpu'[e.tid].at)
    BY <1>1, <2>1, <2>3
  <2> QED
    BY <2>4, <2>5 DEF StackInv
<1> QED
    BY <1>2, <1>3, StepSends

\* The order of attaching and of detaching keep it so.
LEMMA SampledStep ==
    ASSUME BpfTypeOK, SampledInv, BpfNext
    PROVE  SampledInv'
<1>1. CASE link' = link
    BY <1>1 DEF SampledInv, Live
<1>2. ASSUME NEW l \in LinkNames, Attach(l) PROVE SampledInv'
  <2>1. l = "perf" => Live("sched")
    <3>1. ASSUME l = "perf" PROVE Live("sched")
      <4>1. PICK i \in 1..4 : AttachOrder[i] = l /\ \A j \in 1..(i - 1) : Live(AttachOrder[j])
        BY <1>2 DEF Attach
      <4>2. i = 4 /\ AttachOrder[3] = "sched"
        BY <3>1, <4>1 DEF AttachOrder
      <4> QED
        BY <4>1, <4>2
    <3> QED
        BY <3>1
  <2>2. link' = [link EXCEPT ![l] = "live"]
    BY <1>2 DEF Attach
  <2> QED
    BY <2>1, <2>2, LinksAreNames DEF SampledInv, Live, BpfTypeOK
<1>3. ASSUME NEW l \in LinkNames, Detach(l) PROVE SampledInv'
  <2>1. l = "sched" => link["perf"] = "gone"
    <3>1. ASSUME l = "sched" PROVE link["perf"] = "gone"
      <4>1. PICK i \in 1..4 :
               DetachOrder[i] = l /\ \A j \in 1..(i - 1) : link[DetachOrder[j]] = "gone"
        BY <1>3 DEF Detach
      <4>2. i = 4 /\ DetachOrder[1] = "perf"
        BY <3>1, <4>1 DEF DetachOrder
      <4> QED
        BY <4>1, <4>2
    <3> QED
        BY <3>1
  <2>2. link' = [link EXCEPT ![l] = "gone"]
    BY <1>3 DEF Detach
  <2> QED
    BY <2>1, <2>2, LinksAreNames DEF SampledInv, Live, BpfTypeOK
<1>4. ASSUME NEW t \in Threads, ProgramStep(t) \/ HandlerStep(t) \/ SampleTaken(t)
      PROVE  link' = link
    BY <1>4 DEF ProgramStep, Call, Return, ThreadExit, HandlerStep, EntryRejected, EntryInstalled,
                EntryRefused, EntryAnnounced, ReturnUnmatched, ReturnEmitted, ReturnCleared, SampleTaken
<1>5. ASSUME NEW prev \in Threads \cup {Other}, NEW next \in Threads \cup {Other},
             SchedSwitch(prev, next)
      PROVE  link' = link
    BY <1>5 DEF SchedSwitch
<1>6. Consume => link' = link
    BY DEF Consume
<1> QED
    BY <1>1, <1>2, <1>3, <1>4, <1>5, <1>6 DEF BpfNext, KernelStep

-----------------------------------------------------------------------------
(* Calls *)

\* An id is sent in one ENTRY and in one RETURN: the first record is sent
\* before the thread leaves "announce", the second as it reaches "clear".
LEMMA OnceStep ==
    ASSUME NEW sent \in Seq(Event), NEW sent2, Follows(sent, sent2),
           Base(sent), TimeInv(sent), SchedInv', OnceInv(sent), BpfNext
    PROVE  OnceInv(sent2)'
<1>1. CASE sent2 = sent
    BY <1>1 DEF OnceInv
<1>2. ASSUME NEW b \in Event, Sends(b), sent2 = Append(sent, b)
      PROVE  OnceInv(sent2)'
  <2>0. Appended(sent, sent2, b)
    BY <1>2, AppendedRecords
  <2>1. /\ Len(sent) \in Nat /\ DOMAIN sent = 1..Len(sent)
        /\ DOMAIN sent2 = 1..(Len(sent) + 1)
        /\ \A i \in DOMAIN sent : sent2[i] = sent[i] /\ sent[i] \in Records(sent)
        /\ sent2[Len(sent) + 1] = b
    BY <2>0 DEF Appended, Records
  <2>2. ASSUME NEW e \in Records(sent), b.kind \in {"ENTRY", "RETURN"}, e.kind = b.kind
        PROVE  e.id # b.id
    <3>1. SendsBoundary(b) /\ b.tid \in ActiveThreads /\ b.id = active[b.tid].id
      BY <1>2, <2>2 DEF Sends, SendsStack
    <3>2. e.id = b.id => OwnRecord(b.tid, e)
      BY <3>1 DEF Base, IdsInv
    <3>3. b.kind = "ENTRY" => pc[b.tid] = "announce"
      BY <3>1 DEF SendsBoundary, EntryAnnounced
    <3>4. b.kind = "RETURN" => pc[b.tid] = "return"
      BY <3>1 DEF SendsBoundary, ReturnEmitted
    <3> QED
      BY <2>2, <3>2, <3>3, <3>4 DEF OwnRecord
  <2>3. ASSUME NEW i \in DOMAIN sent2, NEW j \in DOMAIN sent2,
               sent2[i].kind \in {"ENTRY", "RETURN"}, sent2[j].kind = sent2[i].kind,
               sent2[i].id = sent2[j].id
        PROVE  i = j
    <3>1. CASE i \in DOMAIN sent /\ j \in DOMAIN sent
      BY <2>1, <2>3, <3>1 DEF OnceInv
    <3>2. CASE i = Len(sent) + 1 /\ j \in DOMAIN sent
      BY <2>1, <2>2, <2>3, <3>2
    <3>3. CASE i \in DOMAIN sent /\ j = Len(sent) + 1
      BY <2>1, <2>2, <2>3, <3>3
    <3> QED
      BY <2>1, <3>1, <3>2, <3>3
  <2> QED
    BY <2>3 DEF OnceInv
<1> QED
    BY <1>1, <1>2, StepSends

\* No thread comes to be in a call that it was not in.
NoNewCalls ==
    /\ calls' = calls
    /\ \A s \in Threads, call \in Nat : InCall(s, call)' => InCall(s, call)
    /\ \A s \in Threads :
          pc'[s] \in {"entry", "announce"} => pc[s] \in {"entry", "announce"} /\ probe'[s] = probe[s]

\* t comes to be in the next call.
NewCall(t) ==
    /\ calls' = calls + 1
    /\ \A s \in Threads, call \in Nat : InCall(s, call)' => InCall(s, call) \/ (s = t /\ call = calls + 1)
    /\ \A s \in Threads :
          pc'[s] \in {"entry", "announce"} =>
             \/ pc[s] \in {"entry", "announce"} /\ probe'[s] = probe[s]
             \/ probe'[s].call = calls + 1

LEMMA CallMoves ==
    ASSUME BpfTypeOK, BpfNext
    PROVE  NoNewCalls \/ \E t \in Threads : Call(t) /\ NewCall(t)
<1>1. CASE Quiet
    BY <1>1 DEF Quiet, NoNewCalls, InCall
<1>2. ASSUME NEW t \in Threads, HandlerWay(t) PROVE NoNewCalls
  <2>1. /\ UNCHANGED <<frames, calls, probe>> /\ pc[t] # "user"
        /\ \A s \in Threads \ {t} : pc'[s] = pc[s]
        /\ pc'[t] \in {"entry", "announce"} => pc[t] = "entry"
    BY <1>2 DEF HandlerWay, BpfTypeOK
  <2>2. \A s \in Threads : pc[s] = "user" => pc'[s] = "user"
    BY <2>1
  <2>3. \A s \in Threads, call \in Nat : InCall(s, call)' => InCall(s, call)
    BY <2>1, <2>2 DEF InCall
  <2>4. \A s \in Threads :
           pc'[s] \in {"entry", "announce"} => pc[s] \in {"entry", "announce"}
    BY <2>1
  <2> QED
    BY <2>1, <2>3, <2>4 DEF NoNewCalls
<1>3. ASSUME NEW t \in Threads, Call(t) PROVE NewCall(t)
  <2>1. /\ calls' = calls + 1
        /\ frames' = [frames EXCEPT ![t] = Append(@, [call |-> calls + 1, ret |-> Live("return")])]
        /\ \/ /\ pc' = [pc EXCEPT ![t] = "entry"]
              /\ \E at, depth : probe' = [probe EXCEPT ![t] =
                                             [at |-> at, call |-> calls + 1, depth |-> depth]]
           \/ UNCHANGED <<pc, probe>>
    BY <1>3 DEF Call, handlers
  <2>2. frames[t] \in Seq(Frame)
    BY DEF BpfTypeOK
  <2>3. \A s \in Threads \ {t} : frames'[s] = frames[s] /\ pc'[s] = pc[s] /\ probe'[s] = probe[s]
    BY <2>1 DEF BpfTypeOK
  <2>4. frames'[t] = Append(frames[t], [call |-> calls + 1, ret |-> Live("return")])
    BY <2>1 DEF BpfTypeOK
  <2>5. \A m \in DOMAIN frames'[t] :
           (m \in DOMAIN frames[t] /\ frames'[t][m] = frames[t][m]) \/ frames'[t][m].call = calls + 1
    BY <2>2, <2>4
  <2>6. \/ pc'[t] = pc[t] /\ probe'[t] = probe[t]
        \/ pc'[t] = "entry" /\ probe'[t].call = calls + 1
    BY <2>1 DEF BpfTypeOK
  <2> QED
    BY <2>1, <2>3, <2>5, <2>6 DEF NewCall, InCall
<1>4. ASSUME NEW t \in Threads, Return(t) PROVE NoNewCalls
  <2>1. PICK depth : depth = Len(frames[t])
    OBVIOUS
  <2>2. /\ calls' = calls /\ frames[t] # <<>> /\ pc[t] = "user"
        /\ frames' = [frames EXCEPT ![t] = SubSeq(@, 1, depth - 1)]
        /\ \/ /\ pc' = [pc EXCEPT ![t] = "return"]
              /\ \E at, d : probe' = [probe EXCEPT ![t] =
                                         [at |-> at, call |-> frames[t][depth].call, depth |-> d]]
           \/ UNCHANGED <<pc, probe>>
    BY <1>4, <2>1 DEF Return, handlers, InUser
  <2>3. frames[t] \in Seq(Frame) /\ depth \in Nat /\ depth # 0 /\ depth \in DOMAIN frames[t]
    BY <2>1, <2>2 DEF BpfTypeOK
  <2>4. \A s \in Threads \ {t} : frames'[s] = frames[s] /\ pc'[s] = pc[s] /\ probe'[s] = probe[s]
    BY <2>2 DEF BpfTypeOK
  <2>5. frames'[t] = SubSeq(frames[t], 1, depth - 1)
    BY <2>2 DEF BpfTypeOK
  <2>6. \A m \in DOMAIN frames'[t] : m \in DOMAIN frames[t] /\ frames'[t][m] = frames[t][m]
    BY <2>1, <2>3, <2>5
  <2>7. \/ pc'[t] = pc[t] /\ probe'[t] = probe[t]
        \/ pc'[t] = "return" /\ probe'[t].call = frames[t][depth].call
    BY <2>2 DEF BpfTypeOK
  <2> QED
    BY <2>2, <2>3, <2>4, <2>6, <2>7 DEF NoNewCalls, InCall
<1>5. ASSUME NEW t \in Threads, ThreadExit(t) PROVE NoNewCalls
  <2>1. calls' = calls /\ pc' = pc /\ probe' = probe /\ frames' = [frames EXCEPT ![t] = <<>>]
    BY <1>5 DEF ThreadExit, handlers
  <2>2. frames'[t] = <<>> /\ \A s \in Threads \ {t} : frames'[s] = frames[s]
    BY <2>1 DEF BpfTypeOK
  <2>3. \A m : m \notin DOMAIN frames'[t]
    BY <2>2
  <2>4. \A s \in Threads, call \in Nat : InCall(s, call)' => InCall(s, call)
    BY <2>1, <2>2, <2>3 DEF InCall
  <2> QED
    BY <2>1, <2>4 DEF NoNewCalls
<1> QED
    BY <1>1, <1>2, <1>3, <1>4, <1>5, StepKinds, HandlerWays DEF ProgramStep

\* What a step does to the frames of a thread.
FramesMove(t) ==
    \/ frames'[t] = frames[t]
    \/ /\ frames'[t] = Append(frames[t], [call |-> calls + 1, ret |-> Live("return")])
       /\ Call(t)
    \/ frames[t] # <<>> /\ frames'[t] = SubSeq(frames[t], 1, Len(frames[t]) - 1) /\ Return(t)
    \/ frames'[t] = <<>>

LEMMA FramesMoves ==
    ASSUME BpfTypeOK, BpfNext, NEW t \in Threads
    PROVE  FramesMove(t)
<1>1. CASE Quiet
    BY <1>1 DEF Quiet, FramesMove
<1>2. ASSUME NEW s \in Threads, HandlerStep(s) PROVE FramesMove(t)
    BY <1>2, HandlerWays DEF HandlerWay, FramesMove
<1>3. ASSUME NEW s \in Threads, Call(s) PROVE FramesMove(t)
  <2>1. frames' = [frames EXCEPT ![s] = Append(@, [call |-> calls + 1, ret |-> Live("return")])]
    BY <1>3 DEF Call
  <2> QED
    BY <1>3, <2>1 DEF FramesMove, BpfTypeOK
<1>4. ASSUME NEW s \in Threads, Return(s) PROVE FramesMove(t)
  <2>1. frames[s] # <<>> /\ frames' = [frames EXCEPT ![s] = SubSeq(@, 1, Len(frames[s]) - 1)]
    BY <1>4 DEF Return
  <2> QED
    BY <1>4, <2>1 DEF FramesMove, BpfTypeOK
<1>5. ASSUME NEW s \in Threads, ThreadExit(s) PROVE FramesMove(t)
  <2>1. frames' = [frames EXCEPT ![s] = <<>>]
    BY <1>5 DEF ThreadExit
  <2> QED
    BY <2>1 DEF FramesMove, BpfTypeOK
<1> QED
    BY <1>1, <1>2, <1>3, <1>4, <1>5, StepKinds DEF ProgramStep

\* The frames a step leaves, one by one.
LEMMA FrameByFrame ==
    ASSUME BpfTypeOK, NEW t \in Threads, FramesMove(t)
    PROVE  \A m \in DOMAIN frames'[t] :
              \/ m \in DOMAIN frames[t] /\ frames'[t][m] = frames[t][m]
              \/ /\ m = Len(frames[t]) + 1 /\ m = Len(frames'[t]) /\ Call(t)
                 /\ frames'[t][m].call = calls + 1
                 /\ \A n \in DOMAIN frames[t] : n < m
<1>0. frames[t] \in Seq(Frame)
    BY DEF BpfTypeOK
<1>1. CASE frames'[t] = frames[t]
    BY <1>1
<1>2. CASE /\ frames'[t] = Append(frames[t], [call |-> calls + 1, ret |-> Live("return")])
           /\ Call(t)
    BY <1>0, <1>2
<1>3. CASE frames[t] # <<>> /\ frames'[t] = SubSeq(frames[t], 1, Len(frames[t]) - 1)
    BY <1>0, <1>3
<1>4. CASE frames'[t] = <<>>
    BY <1>4
<1> QED
    BY <1>1, <1>2, <1>3, <1>4 DEF FramesMove

\* A boundary is sent from inside its call, on the way out of the handler.
LEMMA BoundaryCall ==
    ASSUME BpfTypeOK, NEW b \in Event, SendsBoundary(b)
    PROVE  /\ b.tid \in Threads /\ b.call \in Nat /\ InCall(b.tid, b.call)
           /\ pc'[b.tid] \notin {"entry", "announce"} /\ NoNewCalls
           /\ \A s \in Threads : pc'[s] \in {"entry", "announce"} => s # b.tid /\ pc'[s] = pc[s]
<1>1. b.tid \in Threads /\ b.call \in Nat
    BY DEF Event
<1>2. PICK t \in Threads : t = b.tid
    BY <1>1
<1>3. /\ HandlerStep(t) /\ pc[t] \in {"entry", "announce", "return"}
      /\ pc' = [pc EXCEPT ![t] = "user"] \/ pc' = [pc EXCEPT ![t] = "clear"]
    BY <1>2 DEF SendsBoundary, HandlerStep, EntryAnnounced, ReturnEmitted, EntryRejected,
                ReturnUnmatched, Goto, Boundaries
<1>4. UNCHANGED <<frames, calls, probe>>
    BY <1>3, HandlerWays DEF HandlerWay
<1>5. /\ \A s \in Threads \ {t} : pc'[s] = pc[s]
      /\ pc'[t] \in {"user", "clear"}
    BY <1>3 DEF BpfTypeOK
<1>6. InCall(b.tid, b.call)
    BY <1>2, <1>3 DEF InCall, SendsBoundary
<1>7. \A s \in Threads : pc'[s] \in {"entry", "announce"} => s # t /\ pc'[s] = pc[s]
    BY <1>5
<1>8. \A s \in Threads, call \in Nat : InCall(s, call)' => InCall(s, call)
  <2>1. \A s \in Threads : pc[s] = "user" => pc'[s] = "user"
    BY <1>3, <1>5
  <2> QED
    BY <1>4, <2>1 DEF InCall
<1>9. NoNewCalls
    BY <1>4, <1>7, <1>8 DEF NoNewCalls
<1> QED
    BY <1>1, <1>2, <1>5, <1>6, <1>7, <1>9

\* Without a new record.
LEMMA CallersKept ==
    ASSUME NEW sent \in Seq(Event), BpfTypeOK, BpfTypeOK', CallersInv(sent), BpfNext
    PROVE  CallersInv(sent)'
<1>0. /\ calls \in Nat
      /\ \A e \in Records(sent) : e.call \in Nat /\ e.tid \in Threads
    BY RecordType DEF BpfTypeOK, Event
<1>1. \A s \in Threads, call \in Nat :
         InCall(s, call)' => InCall(s, call) \/ (call = calls + 1 /\ calls' = calls + 1)
    BY CallMoves DEF NoNewCalls, NewCall
<1>2. calls' = calls \/ calls' = calls + 1
    BY CallMoves DEF NoNewCalls, NewCall
<1>3. \A t \in Threads : \A call \in Nat : InCall(t, call)' => call <= calls'
    BY <1>0, <1>1, <1>2 DEF CallersInv
<1>4. ASSUME NEW s \in Threads, NEW t \in Threads, NEW call \in Nat, InCall(s, call)', InCall(t, call)'
      PROVE  s = t
  <2>1. CASE NoNewCalls
    BY <1>4, <2>1 DEF NoNewCalls, CallersInv
  <2>2. ASSUME NEW u \in Threads, NewCall(u) PROVE s = t
    <3>1. CASE call = calls + 1
      <4>1. ~InCall(s, call) /\ ~InCall(t, call)
        BY <1>0, <3>1 DEF CallersInv
      <4> QED
        BY <1>4, <2>2, <4>1 DEF NewCall
    <3>2. CASE call # calls + 1
      BY <1>4, <2>2, <3>2 DEF NewCall, CallersInv
    <3> QED
      BY <3>1, <3>2
  <2> QED
    BY <2>1, <2>2, CallMoves
<1>5. ASSUME NEW t \in Threads, NEW m \in DOMAIN frames'[t], NEW n \in DOMAIN frames'[t],
             frames'[t][m].call = frames'[t][n].call
      PROVE  m = n
  <2>1. \A k \in DOMAIN frames[t] : frames[t][k].call \in Nat /\ frames[t][k].call # calls + 1
    <3>1. \A k \in DOMAIN frames[t] : frames[t][k].call \in Nat
      <4>1. frames[t] \in Seq(Frame)
        BY DEF BpfTypeOK
      <4>2. \A k \in DOMAIN frames[t] : frames[t][k] \in Frame
        BY <4>1
      <4> QED
        BY <4>2 DEF Frame
    <3>2. \A k \in DOMAIN frames[t] : InCall(t, frames[t][k].call)
      BY DEF InCall
    <3> QED
      BY <1>0, <3>1, <3>2 DEF CallersInv
  <2>2. \A k \in DOMAIN frames'[t] :
           \/ k \in DOMAIN frames[t] /\ frames'[t][k] = frames[t][k]
           \/ k = Len(frames[t]) + 1 /\ frames'[t][k].call = calls + 1
    BY FramesMoves, FrameByFrame
  <2> QED
    BY <1>5, <2>1, <2>2 DEF CallersInv
<1>6. \A t \in Threads, e \in Records(sent) :
         (e.kind \in Boundaries /\ InCall(t, e.call)') => e.tid = t
    BY <1>0, <1>1 DEF CallersInv
<1>7. \A e \in Records(sent) : e.kind \in Boundaries => e.call <= calls'
    BY <1>0, <1>2 DEF CallersInv
<1>8. ASSUME NEW t \in Threads, NEW e \in Records(sent),
             pc'[t] \in {"entry", "announce"}, e.kind \in Boundaries
      PROVE  e.call # probe'[t].call
  <2>1. \/ pc[t] \in {"entry", "announce"} /\ probe'[t] = probe[t]
        \/ probe'[t].call = calls + 1
    BY <1>8, CallMoves DEF NoNewCalls, NewCall
  <2>2. e.call <= calls /\ e.call \in Nat
    BY <1>0, <1>8 DEF CallersInv
  <2>3. pc[t] \in {"entry", "announce"} => e.call # probe[t].call
    BY <1>8 DEF CallersInv
  <2> QED
    BY <1>0, <2>1, <2>2, <2>3
<1> QED
    BY <1>3, <1>4, <1>5, <1>6, <1>7, <1>8 DEF CallersInv

LEMMA CallersStep ==
    ASSUME NEW sent \in Seq(Event), NEW sent2 \in Seq(Event), Follows(sent, sent2),
           Base(sent), TimeInv(sent), BpfTypeOK', SchedInv', CallersInv(sent), BpfNext
    PROVE  CallersInv(sent2)'
<1>0. BpfTypeOK
    BY DEF Base
<1>1. CallersInv(sent)'
    BY <1>0, CallersKept
<1>2. CASE sent2 = sent
    BY <1>1, <1>2
<1>3. ASSUME NEW b \in Event, Sends(b), sent2 = Append(sent, b)
      PROVE  CallersInv(sent2)'
  <2>1. Records(sent2) = Records(sent) \cup {b}
    BY <1>3, AppendedRecords DEF Appended
  <2>2. CASE b.kind \notin Boundaries
    BY <1>1, <2>1, <2>2 DEF CallersInv
  <2>3. CASE b.kind \in Boundaries
    <3>1. SendsBoundary(b)
      BY <1>3, <2>3 DEF Sends, SendsStack, Boundaries
    <3>2. /\ b.tid \in Threads /\ b.call \in Nat /\ InCall(b.tid, b.call)
          /\ pc'[b.tid] \notin {"entry", "announce"} /\ NoNewCalls
      BY <1>0, <3>1, BoundaryCall
    <3>3. \A s \in Threads : pc'[s] \in {"entry", "announce"} => pc[s] # "user" /\ probe'[s] = probe[s]
      BY <3>2 DEF NoNewCalls
    <3>4. b.call <= calls'
      BY <3>2 DEF NoNewCalls, CallersInv
    <3>5. \A t \in Threads : InCall(t, b.call)' => b.tid = t
      BY <3>2 DEF NoNewCalls, CallersInv
    <3>6. ASSUME NEW t \in Threads, pc'[t] \in {"entry", "announce"} PROVE b.call # probe'[t].call
      <4>1. t # b.tid /\ pc[t] # "user" /\ probe'[t] = probe[t]
        BY <3>2, <3>3, <3>6
      <4>2. InCall(t, probe[t].call)
        BY <4>1 DEF InCall
      <4> QED
        BY <3>2, <4>1, <4>2 DEF CallersInv
    <3>7. \A e \in Records(sent2) : e \in Records(sent) \/ e = b
      BY <2>1
    <3>8. \A t \in Threads, e \in Records(sent2) :
             (e.kind \in Boundaries /\ InCall(t, e.call)') => e.tid = t
      BY <1>1, <3>5, <3>7 DEF CallersInv
    <3>9. \A e \in Records(sent2) : e.kind \in Boundaries => e.call <= calls'
      BY <1>1, <3>4, <3>7 DEF CallersInv
    <3>10. \A t \in Threads, e \in Records(sent2) :
             (pc'[t] \in {"entry", "announce"} /\ e.kind \in Boundaries) => e.call # probe'[t].call
      BY <1>1, <3>6, <3>7 DEF CallersInv
    <3> QED
      BY <1>1, <3>8, <3>9, <3>10 DEF CallersInv
  <2> QED
    BY <2>2, <2>3
<1> QED
    BY <1>0, <1>2, <1>3, StepSends

\* A link that is gone stays gone; the program and its handlers move none.
LEMMA LinksStay ==
    ASSUME BpfTypeOK, BpfNext
    PROVE  /\ link'["return"] # "gone" => link["return"] # "gone"
           /\ (\E t \in Threads : ProgramStep(t) \/ HandlerStep(t)) => link' = link
<1>1. ASSUME NEW t \in Threads, ProgramStep(t) \/ HandlerStep(t) \/ SampleTaken(t)
      PROVE  link' = link
    BY <1>1 DEF ProgramStep, Call, Return, ThreadExit, HandlerStep, EntryRejected, EntryInstalled,
                EntryRefused, EntryAnnounced, ReturnUnmatched, ReturnEmitted, ReturnCleared, SampleTaken
<1>2. ASSUME NEW prev \in Threads \cup {Other}, NEW next \in Threads \cup {Other},
             SchedSwitch(prev, next)
      PROVE  link' = link
    BY <1>2 DEF SchedSwitch
<1>3. Consume => link' = link
    BY DEF Consume
<1>4. ASSUME NEW l \in LinkNames, Attach(l) \/ Detach(l)
      PROVE  link'["return"] # "gone" => link["return"] # "gone"
    BY <1>4, LinkStep, LinksAreNames
<1> QED
    BY <1>1, <1>2, <1>3, <1>4 DEF BpfNext, KernelStep

\* What the thread of an announced call may do next.
HoldsAt(t, call) ==
    /\ Hijacked(t) /\ AtTop(t)
    /\ call \in Nat /\ call <= calls
    /\ pc[t] \in {"entry", "announce"} => call # probe[t].call

LEMMA HandlerHolds ==
    ASSUME BpfTypeOK, NEW t \in Threads, NEW id, NEW call, HoldsAt(t, call), Holds(t, id, call),
           HandlerWay(t), link' = link
    PROVE  Holds(t, id, call)'
<1>1. /\ frames' = frames /\ probe' = probe /\ pc'[t] # "return"
      /\ frames[t] \in Seq(Frame)
    BY DEF HandlerWay, BpfTypeOK
<1>2. \/ active'[t] = None
      \/ pc'[t] = "clear"
      \/ active'[t] = active[t] /\ pc[t] \notin {"return", "clear"}
      \/ pc[t] = "entry"
    BY DEF HandlerWay, BpfTypeOK
<1>3. ASSUME link["return"] # "gone", NEW m \in DOMAIN frames[t],
             frames[t][m].call = call, frames[t][m].ret
      PROVE  active'[t] = None \/ active'[t].id = id \/ m < Len(frames[t])
             \/ pc'[t] \in {"return", "clear"}
  <2>1. active[t] = None \/ active[t].id = id \/ m < Len(frames[t]) \/ pc[t] \in {"return", "clear"}
    BY <1>3 DEF Holds
  <2>2. CASE pc[t] = "entry"
    <3>1. m # Len(frames[t])
      BY <1>3, <2>2 DEF HoldsAt, AtTop
    <3>2. m \in 1..Len(frames[t]) /\ Len(frames[t]) \in Nat
      BY <1>1, <1>3
    <3> QED
      BY <3>1, <3>2
  <2> QED
    BY <1>2, <2>1, <2>2
<1> QED
    BY <1>1, <1>3 DEF Holds

LEMMA ProgramHolds ==
    ASSUME BpfTypeOK, NEW t \in Threads, NEW id, NEW call, HoldsAt(t, call), Holds(t, id, call),
           ProgramStep(t), link' = link, FramesMove(t)
    PROVE  Holds(t, id, call)'
<1>0. /\ active' = active /\ pc[t] = "user" /\ frames[t] \in Seq(Frame) /\ calls \in Nat
      /\ Len(frames[t]) \in Nat /\ DOMAIN frames[t] = 1..Len(frames[t])
      /\ link["return"] \in {"new", "live", "gone"}
  <2>1. active' = active /\ pc[t] = "user"
    BY ProgramKeeps DEF ProgramStep, Call, Return, ThreadExit, InUser
  <2>2. frames[t] \in Seq(Frame) /\ calls \in Nat /\ link["return"] \in {"new", "live", "gone"}
    BY LinksAreNames DEF BpfTypeOK
  <2> QED
    BY <2>1, <2>2
<1>1. CASE Call(t)
  <2>1. pc'[t] # "return"
    BY <1>0, <1>1 DEF Call, handlers, BpfTypeOK
  <2>2. frames'[t] = Append(frames[t], [call |-> calls + 1, ret |-> Live("return")])
    BY <1>1 DEF Call, BpfTypeOK
  <2>3. ASSUME NEW m \in DOMAIN frames'[t], frames'[t][m].call = call PROVE m < Len(frames'[t])
    <3>1. m = Len(frames[t]) + 1 => frames'[t][m].call = calls + 1
      BY <1>0, <2>2
    <3>2. m # Len(frames[t]) + 1
      BY <1>0, <2>3, <3>1 DEF HoldsAt
    <3>3. m \in 1..(Len(frames[t]) + 1) /\ Len(frames'[t]) = Len(frames[t]) + 1
      BY <1>0, <2>2
    <3> QED
      BY <1>0, <3>2, <3>3
  <2> QED
    BY <2>1, <2>3 DEF Holds
<1>2. CASE Return(t)
  <2> PICK d : d = Len(frames[t])
    OBVIOUS
  <2>1. /\ frames[t] # <<>> /\ frames'[t] = SubSeq(frames[t], 1, d - 1)
        /\ IF frames[t][d].ret /\ Live("return")
           THEN pc'[t] = "return" /\ probe'[t].call = frames[t][d].call
           ELSE pc'[t] = "user"
    BY <1>0, <1>2 DEF Return, handlers, BpfTypeOK
  <2>2. d \in Nat /\ d \in DOMAIN frames[t]
        /\ \A m \in DOMAIN frames'[t] : m \in DOMAIN frames[t] /\ m < d /\ frames'[t][m] = frames[t][m]
    BY <1>0, <2>1
  <2>3. ASSUME link["return"] # "gone", NEW m \in DOMAIN frames'[t], frames'[t][m].ret
        PROVE  pc'[t] = "return"
    <3>1. frames[t][d].ret /\ link["return"] # "new"
      BY <2>2, <2>3 DEF HoldsAt, Hijacked
    <3> QED
      BY <1>0, <2>1, <2>3, <3>1 DEF Live
  <2>4. ASSUME pc'[t] = "return", probe'[t].call = call
        PROVE  active[t] = None \/ active[t].id = id
    <3>1. frames[t][d].ret /\ Live("return") /\ frames[t][d].call = call
      BY <2>1, <2>4
    <3> QED
      BY <1>0, <2>2, <3>1 DEF Holds, Live
  <2> QED
    BY <1>0, <2>3, <2>4 DEF Holds
<1>3. CASE ThreadExit(t)
  <2>1. frames'[t] = <<>> /\ pc' = pc
    BY <1>3 DEF ThreadExit, handlers, BpfTypeOK
  <2> QED
    BY <1>0, <2>1 DEF Holds
<1> QED
    BY <1>1, <1>2, <1>3 DEF ProgramStep

LEMMA ThreadHolds ==
    ASSUME BpfTypeOK, BpfNext, NEW t \in Threads, NEW id, NEW call, HoldsAt(t, call),
           Holds(t, id, call)
    PROVE  Holds(t, id, call)'
<1>1. CASE /\ frames'[t] = frames[t] /\ pc'[t] = pc[t] /\ probe'[t] = probe[t]
           /\ active'[t] = active[t]
  <2>1. link'["return"] # "gone" => link["return"] # "gone"
    BY LinksStay
  <2> QED
    BY <1>1, <2>1 DEF Holds
<1>2. Quiet => UNCHANGED <<frames, pc, probe, active>>
    BY DEF Quiet
<1>3. ASSUME NEW s \in Threads, s # t, HandlerStep(s)
      PROVE  /\ frames'[t] = frames[t] /\ pc'[t] = pc[t] /\ probe'[t] = probe[t]
             /\ active'[t] = active[t]
  <2>1. HandlerWay(s)
    BY <1>3, HandlerWays
  <2>2. UNCHANGED <<frames, probe>>
    BY <2>1 DEF HandlerWay
  <2>3. pc'[t] = pc[t] /\ active'[t] = active[t]
    BY <1>3, <2>1 DEF HandlerWay, BpfTypeOK
  <2> QED
    BY <2>2, <2>3
<1>4. ASSUME NEW s \in Threads, s # t, ProgramStep(s)
      PROVE  /\ frames'[t] = frames[t] /\ pc'[t] = pc[t] /\ probe'[t] = probe[t]
             /\ active'[t] = active[t]
  <2>1. active' = active
    BY <1>4, ProgramKeeps
  <2>2. frames'[t] = frames[t]
    BY <1>4 DEF ProgramStep, Call, Return, ThreadExit, BpfTypeOK
  <2>3. pc'[t] = pc[t] /\ probe'[t] = probe[t]
    BY <1>4 DEF ProgramStep, Call, Return, ThreadExit, handlers, BpfTypeOK
  <2> QED
    BY <2>1, <2>2, <2>3
<1>5. ASSUME HandlerStep(t) PROVE Holds(t, id, call)'
    BY <1>5, LinksStay, HandlerHolds, HandlerWays
<1>6. ASSUME ProgramStep(t) PROVE Holds(t, id, call)'
    BY <1>6, LinksStay, ProgramHolds, FramesMoves
<1> QED
    BY <1>1, <1>2, <1>3, <1>4, <1>5, <1>6, StepKinds

LEMMA HoldsStep ==
    ASSUME NEW sent \in Seq(Event), NEW sent2 \in Seq(Event), Follows(sent, sent2),
           Base(sent), TimeInv(sent), FrameInv, SchedInv', OwnersInv(sent), CallersInv(sent),
           HoldsInv(sent), BpfNext
    PROVE  HoldsInv(sent2)'
<1>0. BpfTypeOK /\ EntryHeld
    BY DEF Base
<1>1. ASSUME NEW e \in Records(sent), e.kind = "ENTRY" PROVE Holds(e.tid, e.id, e.call)'
  <2>1. e.tid \in Threads /\ e.call \in Nat
    BY RecordType DEF Event
  <2>2. HoldsAt(e.tid, e.call)
    BY <1>1, <2>1 DEF HoldsAt, FrameInv, CallersInv, Boundaries
  <2>3. Holds(e.tid, e.id, e.call)
    BY <1>1 DEF HoldsInv
  <2> QED
    BY <1>0, <2>1, <2>2, <2>3, ThreadHolds
<1>2. CASE sent2 = sent
    BY <1>1, <1>2 DEF HoldsInv
<1>3. ASSUME NEW b \in Event, Sends(b), sent2 = Append(sent, b)
      PROVE  HoldsInv(sent2)'
  <2>0. Records(sent2) = Records(sent) \cup {b}
    BY <1>3, AppendedRecords DEF Appended
  <2>1. \A e \in Records(sent2) : e \in Records(sent) \/ e = b
    BY <2>0
  <2>2. b.tid \in Threads /\ b.call \in Nat
    BY DEF Event
  <2>3. ASSUME b.kind = "ENTRY"
        PROVE  /\ Holds(b.tid, b.id, b.call)'
               /\ \A r \in Records(sent2) : r.kind = "RETURN" => r.call # b.call
    <3>1. EntryAnnounced(b.tid) /\ b.id = active[b.tid].id /\ b.call = probe[b.tid].call
      BY <1>3, <2>3 DEF Sends, SendsBoundary, SendsStack
    <3>2. pc[b.tid] = "announce" /\ pc'[b.tid] = "user" /\ active' = active
      BY <1>0, <2>2, <3>1 DEF EntryAnnounced, Goto, maps, BpfTypeOK
    <3>3. Holds(b.tid, b.id, b.call)'
      BY <3>1, <3>2 DEF Holds
    <3>4. \A r \in Records(sent) : r.kind = "RETURN" => r.call # b.call
      BY <2>2, <3>1, <3>2 DEF CallersInv, Boundaries
    <3> QED
      BY <2>1, <2>3, <3>3, <3>4
  <2>4. ASSUME b.kind = "RETURN", NEW e \in Records(sent), e.kind = "ENTRY", e.call = b.call
        PROVE  e.id = b.id
    <3>1. /\ ReturnEmitted(b.tid) /\ b.id = active[b.tid].id /\ b.call = probe[b.tid].call
          /\ SendsBoundary(b)
      BY <1>3, <2>4 DEF Sends, SendsBoundary, SendsStack
    <3>2. pc[b.tid] = "return" /\ active[b.tid] # None
      BY <3>1 DEF ReturnEmitted
    <3>3. e.tid = b.tid
      BY <1>0, <2>2, <2>4, <3>1, BoundaryCall DEF CallersInv, Boundaries
    <3>4. Holds(b.tid, e.id, e.call)
      BY <2>4, <3>3 DEF HoldsInv
    <3> QED
      BY <2>4, <3>1, <3>2, <3>4 DEF Holds
  <2>5. \A e \in Records(sent2) : e.kind = "ENTRY" => Holds(e.tid, e.id, e.call)'
    BY <1>1, <2>1, <2>3
  <2>6. ASSUME NEW e \in Records(sent2), NEW r \in Records(sent2),
               e.kind = "ENTRY", r.kind = "RETURN", e.call = r.call
        PROVE  e.id = r.id
    <3>1. e # r
      BY <2>6
    <3>2. CASE e \in Records(sent) /\ r \in Records(sent)
      BY <2>6, <3>2 DEF HoldsInv
    <3>3. CASE e = b
      BY <2>3, <2>6, <3>3
    <3>4. CASE r = b /\ e \in Records(sent)
      BY <2>4, <2>6, <3>4
    <3> QED
      BY <2>1, <3>1, <3>2, <3>3, <3>4
  <2> QED
    BY <2>5, <2>6 DEF HoldsInv
<1> QED
    BY <1>0, <1>2, <1>3, StepSends

-----------------------------------------------------------------------------
(* All of it *)

SentInv(sent) ==
    /\ Base(sent) /\ TimeInv(sent) /\ Apart(sent)
    /\ LinkInv(sent) /\ FrameInv /\ CallInv(sent) /\ Reported(sent)
    /\ OwnersInv(sent) /\ SpendsInv /\ EndsInv(sent) /\ OrderInv(sent)
    /\ SampledInv /\ StackInv(sent)
    /\ OnceInv(sent) /\ CallersInv(sent) /\ HoldsInv(sent)

LEMMA SentInit ==
    ASSUME BpfInit, NEW sent, sent = <<>>
    PROVE  SentInv(sent)
<1>1. /\ DOMAIN sent = {} /\ Records(sent) = {} /\ ActiveThreads = {} /\ Entering = {}
      /\ \A t \in Threads : DOMAIN frames[t] = {}
    BY DEF BpfInit, Records, ActiveThreads, Entering
<1>2. Base(sent)
  <2>1. BpfTypeOK /\ EntryHeld /\ MapsMirror
    BY InitHolds
  <2>2. OneOwnerPerId /\ SchedInv /\ IdsInv(sent)
    BY <1>1 DEF BpfInit, OneOwnerPerId, SchedInv, OffcpuOnlyWhileOff, NothingOpenYet, IdsInv
  <2> QED
    BY <2>1, <2>2 DEF Base
<1>3. TimeInv(sent) /\ Apart(sent)
    BY <1>1 DEF BpfInit, TimeInv, Apart, NoProbe
<1>4. LinkInv(sent) /\ FrameInv
    BY <1>1, LinksAreNames DEF BpfInit, LinkInv, FrameInv, Hijacked, AtTop
<1>5. CallInv(sent) /\ Reported(sent)
    BY <1>1 DEF CallInv, Reported
<1>6. OwnersInv(sent) /\ EndsInv(sent) /\ OrderInv(sent) /\ StackInv(sent)
    BY <1>1 DEF BpfInit, OwnersInv, EndsInv, OrderInv, StackInv
<1>7. SpendsInv
    BY <1>1, FS_EmptySet, BoundAssumption DEF BpfInit, SpendsInv
<1>8. SampledInv
    BY LinksAreNames DEF BpfInit, SampledInv
<1>9. OnceInv(sent) /\ HoldsInv(sent)
    BY <1>1 DEF OnceInv, HoldsInv
<1>10. CallersInv(sent)
    BY <1>1 DEF BpfInit, CallersInv, InCall
<1> QED
    BY <1>2, <1>3, <1>4, <1>5, <1>6, <1>7, <1>8, <1>9, <1>10 DEF SentInv

LEMMA SentStep ==
    ASSUME NEW sent \in Seq(Event), NEW sent2 \in Seq(Event), Follows(sent, sent2),
           SentInv(sent), BpfNext
    PROVE  SentInv(sent2)'
<1>1. Grows(sent, sent2)
    BY FollowsGrows
<1>2. /\ Base(sent) /\ TimeInv(sent) /\ Apart(sent)
      /\ BpfTypeOK /\ EntryHeld /\ MapsMirror /\ OneOwnerPerId /\ SchedInv /\ IdsInv(sent)
    BY DEF SentInv, Base
<1>3. BpfTypeOK' /\ EntryHeld' /\ MapsMirror' /\ OneOwnerPerId' /\ SchedInv'
    BY <1>2, TypeStep, EntryHeldStep, MirrorStep, IdStep, SchedStep
<1>4. IdsInv(sent2)'
    BY <1>1, <1>2, IdsStep
<1>5. Base(sent2)'
    BY <1>3, <1>4 DEF Base
<1>6. TimeInv(sent2)' /\ Apart(sent2)
    BY <1>1, <1>2, TimeStep
<1>7. LinkInv(sent2)' /\ FrameInv'
    BY <1>1, <1>2, LinkInvStep, FrameStep DEF SentInv
<1>8. CallInv(sent2)' /\ Reported(sent2)'
    BY <1>1, <1>2, CallStep DEF SentInv
<1>9. OwnersInv(sent2)'
    BY <1>2, <1>3, OwnersStep DEF SentInv
<1>10. SpendsInv'
    BY <1>2, SpendsStep DEF SentInv
<1>11. EndsInv(sent2)'
    BY <1>2, <1>3, EndsStep DEF SentInv
<1>12. OrderInv(sent2)'
    BY <1>2, <1>3, OrderStep DEF SentInv
<1>13. SampledInv'
    BY <1>2, SampledStep DEF SentInv
<1>14. StackInv(sent2)'
    BY <1>2, <1>3, StackStep DEF SentInv
<1>15. Apart(sent2)'
    BY <1>6 DEF Apart, Records, LeavesWhole
<1>16. OnceInv(sent2)'
    BY <1>2, <1>3, OnceStep DEF SentInv
<1>17. CallersInv(sent2)'
    BY <1>2, <1>3, CallersStep DEF SentInv
<1>18. HoldsInv(sent2)'
    BY <1>2, <1>3, HoldsStep DEF SentInv
<1> QED
    BY <1>5, <1>6, <1>7, <1>8, <1>9, <1>10, <1>11, <1>12, <1>13, <1>14, <1>15, <1>16, <1>17, <1>18
    DEF SentInv

LEMMA SentStutter ==
    ASSUME NEW sent \in Seq(Event), SentInv(sent), UNCHANGED bpfVars
    PROVE  SentInv(sent)'
<1>1. UNCHANGED <<clock, link, onCpu, frames, calls, pc, probe, active, offcpu, traceToBpf, bpfToTrace,
                  nextId, ring, droppedEvents, droppedSamples>>
    BY DEF bpfVars, program, handlers, maps, transport
<1>2. BpfTypeOK' /\ EntryHeld' /\ MapsMirror'
    BY StutterHolds DEF SentInv, Base
<1>3. OneOwnerPerId' /\ SchedInv' /\ IdsInv(sent)'
    BY <1>1 DEF SentInv, Base, OneOwnerPerId, ActiveThreads, SchedInv, OffcpuOnlyWhileOff,
                NothingOpenYet, Live, IdsInv, Records, OwnRecord
<1>4. Base(sent)'
    BY <1>2, <1>3 DEF Base
<1>5. TimeInv(sent)' /\ Apart(sent)'
    BY <1>1 DEF SentInv, TimeInv, Apart, ActiveThreads, Records, ThreadTimes, RecordTimes,
                LeavesWhole, Live
<1>6. LinkInv(sent)' /\ FrameInv'
    BY <1>1 DEF SentInv, LinkInv, FrameInv, Hijacked, AtTop, Records
<1>7. CallInv(sent)' /\ Reported(sent)'
    BY <1>1 DEF SentInv, CallInv, Reported, Violated, Matches, ReturnsTo, Live
<1>8. OwnersInv(sent)' /\ SpendsInv' /\ EndsInv(sent)'
    BY <1>1 DEF SentInv, OwnersInv, SpendsInv, EndsInv, Entering, ActiveThreads, Records
<1>9. OrderInv(sent)' /\ SampledInv' /\ StackInv(sent)'
    BY <1>1 DEF SentInv, OrderInv, SampledInv, StackInv, Records, Live
<1>10. OnceInv(sent)' /\ CallersInv(sent)' /\ HoldsInv(sent)'
    BY <1>1 DEF SentInv, OnceInv, CallersInv, InCall, HoldsInv, Holds, Records
<1> QED
    BY <1>4, <1>5, <1>6, <1>7, <1>8, <1>9, <1>10 DEF SentInv

=============================================================================
