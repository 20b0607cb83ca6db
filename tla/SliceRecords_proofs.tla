------------------------ MODULE SliceRecords_proofs ------------------------
(***************************************************************************)
(* What the records in the ring say, for every set of threads and every    *)
(* capacity and bound: which invocation a record belongs to, in what order *)
(* the records of a thread follow each other, and what time they account   *)
(* for.  The types and the maps are those of SliceBpf_proofs.              *)
(***************************************************************************)
EXTENDS SliceBpf_proofs

(* What was sent.  `sent` stands for a sequence of records that follows the     *)
(* ring: the ring itself, which loses its head to the consumer, or all that    *)
(* was ever submitted, received or not.                                        *)

Grows(sent, sent2) ==
    /\ \A e \in Event : ring' = Append(ring, e) => sent2 = Append(sent, e)
    /\ ring' = ring => sent2 = sent
    /\ Consume => sent2 = sent \/ (sent # <<>> /\ sent2 = Tail(sent))

\* The ring follows itself.
LEMMA RingGrows ==
    ASSUME NEW sent, sent = ring, NEW sent2, sent2 = ring'
    PROVE  Grows(sent, sent2)
BY DEF Grows, Consume

Records(sent) == {sent[i] : i \in DOMAIN sent}

\* A record is a struct slice_event.
LEMMA RecordType == ASSUME NEW sent \in Seq(Event) PROVE Records(sent) \subseteq Event
<1>1. \A i \in DOMAIN sent : sent[i] \in Event
    OBVIOUS
<1> QED
    BY <1>1 DEF Records

LEMMA TransportKept ==
    ASSUME NEW sent, NEW sent2, Grows(sent, sent2), UNCHANGED transport
    PROVE  sent2 = sent /\ Records(sent2) = Records(sent) /\ droppedEvents' = droppedEvents
BY DEF Grows, transport, Records

\* emit() adds at most the one record.
LEMMA EmitAdds ==
    ASSUME NEW sent \in Seq(Event), NEW sent2, Grows(sent, sent2), NEW e \in Event, Emit(e)
    PROVE  Records(sent2) \subseteq Records(sent) \cup {e}
<1>1. CASE sent2 = Append(sent, e)
  <2>1. \A i \in DOMAIN sent2 : sent2[i] = e \/ (i \in DOMAIN sent /\ sent2[i] = sent[i])
    BY <1>1
  <2> QED
    BY <2>1 DEF Records
<1>2. CASE sent2 = sent
    BY <1>2 DEF Records
<1> QED
    BY <1>1, <1>2 DEF Emit, Grows

\* The consumer only takes records away.
LEMMA ConsumeTakes ==
    ASSUME NEW sent \in Seq(Event), NEW sent2, Grows(sent, sent2), Consume
    PROVE  Records(sent2) \subseteq Records(sent)
<1>1. CASE sent2 = sent
    BY <1>1 DEF Records
<1>2. CASE sent # <<>> /\ sent2 = Tail(sent)
  <2>1. \A i \in DOMAIN sent2 : i + 1 \in DOMAIN sent /\ sent2[i] = sent[i + 1]
    BY <1>2
  <2> QED
    BY <2>1 DEF Records
<1> QED
    BY <1>1, <1>2 DEF Grows

\* The record of slice_sched_switch for the incoming thread.
OffcpuRecord(t, now) ==
    StackRecord("OFFCPU", t, now, offcpu[t].stack, OffcpuWeight(now, offcpu[t].at))

\* slice_sched_switch emits for the incoming thread alone, and only the
\* interval that thread's own switch-out opened.
SwitchEmits(next) ==
    /\ next \in Threads /\ active[next] # None /\ offcpu[next] # None
    /\ Live("sched") /\ clock' \in Nat /\ clock <= clock'
    /\ Emit(OffcpuRecord(next, clock'))

LEMMA SwitchRecord ==
    ASSUME BpfTypeOK, MapsMirror, NEW prev \in Threads \cup {Other},
           NEW next \in Threads \cup {Other}, SchedSwitch(prev, next)
    PROVE  UNCHANGED transport \/ SwitchEmits(next)
<1>1. CASE ~Live("sched")
    BY <1>1 DEF SchedSwitch
<1>2. CASE Live("sched")
  <2>1. PICK now \in Readings, stack \in Stacks \cup {NoStack} :
          /\ clock' = now
          /\ bpfToTrace' = IF Recorded(prev)
                           THEN [bpfToTrace EXCEPT ![prev] = TraceTid[prev]] ELSE bpfToTrace
          /\ SwitchIn(next, now, TracedAfterSwitchOut(prev),
                      OffcpuAfterSwitchOut(prev, now, stack))
    BY <1>2 DEF SchedSwitch, SwitchHandler
  <2> DEFINE traced == TracedAfterSwitchOut(prev)
             started == OffcpuAfterSwitchOut(prev, now, stack)
             tid == Incoming(traced, next)
  <2>2. now \in Nat /\ clock <= now /\ prev # next
    BY BoundAssumption DEF SchedSwitch, Readings, BpfTypeOK
  <2>3. /\ \A t \in Threads : bpfToTrace'[t] \in {None, TraceTid[t]}
        /\ \A t \in Threads, x \in TraceTids : traced[x] = t <=> bpfToTrace'[t] = x
    BY <2>1, <2>2, SwitchOutMirror
  <2>4. traced \in [TraceTids -> Threads \cup {None}]
    BY <2>2, SwitchOutType
  <2>5. CASE tid = None \/ started[tid] = None \/ active[tid] = None
    BY <2>1, <2>5 DEF SwitchIn
  <2>6. CASE tid # None /\ started[tid] # None /\ active[tid] # None
    <3>1. next \in Threads /\ tid \in Threads /\ traced[TraceTid[next]] = tid
        BY <2>4, <2>6, TidAssumption DEF Incoming
    <3>2. TraceTid[next] \in TraceTids /\ TraceTid[next] # None
        BY <3>1, TidAssumption
    <3>3. bpfToTrace'[tid] = TraceTid[next]
        BY <2>3, <3>1, <3>2
    <3>4. tid = next
        BY <2>3, <3>1, <3>2, <3>3, TidAssumption
    <3>5. started[next] = offcpu[next]
        BY <2>2, <3>1 DEF OffcpuAfterSwitchOut, BpfTypeOK
    <3>6. Emit(StackRecord("OFFCPU", tid, now, started[tid].stack,
                           OffcpuWeight(now, started[tid].at)))
        BY <2>1, <2>6 DEF SwitchIn
    <3> QED
        BY <1>2, <2>1, <2>2, <2>6, <3>1, <3>4, <3>5, <3>6 DEF SwitchEmits, OffcpuRecord
  <2> QED
    BY <2>5, <2>6
<1> QED
    BY <1>1, <1>2

\* Its weight is the whole interval.
LEMMA OffcpuRecordType ==
    ASSUME BpfTypeOK, NEW t \in Threads, active[t] # None, offcpu[t] # None,
           NEW now \in Nat
    PROVE  /\ OffcpuRecord(t, now) \in Event
           /\ OffcpuRecord(t, now).kind = "OFFCPU"
           /\ OffcpuRecord(t, now).id = active[t].id
           /\ OffcpuRecord(t, now).tid = t
           /\ OffcpuRecord(t, now).ts = now
           /\ offcpu[t].at \in Nat
           /\ offcpu[t].at <= now => now - OffcpuRecord(t, now).weight = offcpu[t].at
<1>1. offcpu[t] \in OffcpuStart
    BY DEF BpfTypeOK
<1>2. offcpu[t].at \in Nat /\ offcpu[t].stack \in Stacks \cup {NoStack}
    BY <1>1 DEF OffcpuStart
<1>3. OffcpuWeight(now, offcpu[t].at) \in Nat
    BY <1>2 DEF OffcpuWeight
<1>4. OffcpuRecord(t, now) \in Event
    BY <1>2, <1>3, StackRecordType DEF OffcpuRecord, Kinds
<1>5. offcpu[t].at <= now => now - OffcpuWeight(now, offcpu[t].at) = offcpu[t].at
    BY <1>2 DEF OffcpuWeight
<1>6. OffcpuRecord(t, now).weight = OffcpuWeight(now, offcpu[t].at)
    BY DEF OffcpuRecord, StackRecord
<1> QED
    BY <1>2, <1>4, <1>5, <1>6 DEF OffcpuRecord, StackRecord

-----------------------------------------------------------------------------
(* Whose records they are *)

\* A record of an invocation a thread is still inside: its ENTRY is the
\* thread's own and comes after "announce", its RETURN is followed by "clear".
OwnRecord(t, e) ==
    /\ e.kind = "ENTRY" => e.tid = t /\ pc[t] # "announce"
    /\ e.kind = "RETURN" => pc[t] = "clear" /\ e.ts = probe[t].at

IdsInv(sent) ==
    /\ \A e \in Records(sent) : e.id <= nextId
    /\ \A t \in ActiveThreads, e \in Records(sent) : e.id = active[t].id => OwnRecord(t, e)

\* The threads keep the phase their records were sent in.
SamePhase ==
    \A t \in Threads : /\ pc'[t] = "announce" => pc[t] = "announce"
                       /\ pc[t] = "clear" => pc'[t] = "clear" /\ probe'[t] = probe[t]

\* The step adds no boundary record but VIOLATION.
QuietlyAdds(sent, sent2, Added) ==
    /\ Records(sent2) \subseteq Records(sent) \cup Added
    /\ Added \subseteq Event
    /\ \A e \in Added : e.kind \notin {"ENTRY", "RETURN"} /\ e.id <= nextId

\* Such a step, if it starts and ends no invocation.
LEMMA QuietIds ==
    ASSUME NEW sent \in Seq(Event), NEW sent2 \in Seq(Event), Grows(sent, sent2),
           BpfTypeOK, IdsInv(sent), active' = active, nextId' \in {nextId, nextId + 1}, SamePhase,
           NEW Added, QuietlyAdds(sent, sent2, Added)
    PROVE  IdsInv(sent2)'
<1> USE DEF QuietlyAdds
<1>1. nextId \in Nat /\ \A e \in Records(sent2) : e.id \in Nat
    BY RecordType DEF BpfTypeOK, Event
<1>2. \A e \in Records(sent2) : e.id <= nextId'
    BY <1>1 DEF IdsInv
<1>3. ASSUME NEW t \in ActiveThreads', NEW e \in Records(sent2), e.id = active'[t].id
      PROVE  OwnRecord(t, e)'
  <2>1. t \in Threads /\ t \in ActiveThreads /\ e.id = active[t].id
    BY <1>3 DEF ActiveThreads
  <2>2. CASE e \in Records(sent)
    <3>1. OwnRecord(t, e)
        BY <2>1, <2>2 DEF IdsInv
    <3> QED
        BY <2>1, <3>1 DEF OwnRecord, SamePhase
  <2>3. CASE e \in Added
    BY <2>3 DEF OwnRecord
  <2> QED
    BY <2>2, <2>3
<1> QED
    BY <1>2, <1>3 DEF IdsInv

\* slice_entry enters the invocation with an id no record carries.
LEMMA InstallIds ==
    ASSUME NEW sent \in Seq(Event), NEW sent2 \in Seq(Event), Grows(sent, sent2),
           BpfTypeOK, IdsInv(sent), NEW t \in Threads, EntryInstalled(t)
    PROVE  IdsInv(sent2)'
<1>1. nextId \in Nat /\ \A e \in Records(sent) : e.id \in Nat
    BY RecordType DEF BpfTypeOK, Event
<1>2. /\ Records(sent2) = Records(sent) /\ nextId' = nextId + 1
      /\ probe' = probe /\ pc' = [pc EXCEPT ![t] = "announce"] /\ pc[t] = "entry"
      /\ active' = [active EXCEPT ![t] = [id |-> nextId + 1, start |-> probe[t].at]]
    BY TransportKept DEF EntryInstalled, AdvanceId, Goto
<1>3. \A e \in Records(sent2) : e.id <= nextId'
    BY <1>1, <1>2 DEF IdsInv
<1>4. ASSUME NEW s \in ActiveThreads', NEW e \in Records(sent2), e.id = active'[s].id
      PROVE  OwnRecord(s, e)'
  <2>1. s # t
    BY <1>1, <1>2, <1>4 DEF IdsInv, BpfTypeOK
  <2>2. s \in ActiveThreads /\ active'[s] = active[s] /\ pc'[s] = pc[s]
    BY <1>2, <2>1 DEF ActiveThreads, BpfTypeOK
  <2>3. OwnRecord(s, e)
    BY <1>2, <1>4, <2>2 DEF IdsInv
  <2> QED
    BY <1>2, <2>2, <2>3 DEF OwnRecord
<1> QED
    BY <1>3, <1>4 DEF IdsInv

\* ENTRY is sent on the way out of slice_entry.
LEMMA AnnounceIds ==
    ASSUME NEW sent \in Seq(Event), NEW sent2 \in Seq(Event), Grows(sent, sent2),
           BpfTypeOK, EntryHeld, OneOwnerPerId, IdsInv(sent), NEW t \in Threads, EntryAnnounced(t)
    PROVE  IdsInv(sent2)'
<1> DEFINE b == Boundary("ENTRY", t, active[t].id)
<1>1. t \in ActiveThreads /\ active[t] \in Active
    BY DEF EntryAnnounced, EntryHeld, ActiveThreads, BpfTypeOK
<1>2. b \in Event /\ b.kind = "ENTRY" /\ b.tid = t /\ b.id = active[t].id
    BY <1>1, BoundaryType DEF Kinds, Active, Boundary
<1>3. Records(sent2) \subseteq Records(sent) \cup {b}
    BY <1>2, EmitAdds DEF EntryAnnounced
<1>4. /\ active' = active /\ nextId' = nextId /\ probe' = probe
      /\ pc' = [pc EXCEPT ![t] = "user"] /\ pc[t] = "announce"
    BY DEF EntryAnnounced, Goto, maps
<1> HIDE DEF b
<1>5. \A e \in Records(sent2) : e.id <= nextId'
    BY <1>1, <1>2, <1>3, <1>4 DEF IdsInv, OneOwnerPerId
<1>6. ASSUME NEW s \in ActiveThreads', NEW e \in Records(sent2), e.id = active'[s].id
      PROVE  OwnRecord(s, e)'
  <2>1. s \in Threads /\ s \in ActiveThreads /\ e.id = active[s].id
    BY <1>4, <1>6 DEF ActiveThreads
  <2>2. CASE e = b
    <3>1. s = t
        BY <1>1, <1>2, <2>1, <2>2 DEF OneOwnerPerId
    <3>2. pc'[t] = "user"
        BY <1>4 DEF BpfTypeOK
    <3> QED
        BY <1>2, <2>2, <3>1, <3>2 DEF OwnRecord
  <2>3. CASE e # b
    <3>1. OwnRecord(s, e)
        BY <1>3, <2>1, <2>3 DEF IdsInv
    <3>2. pc'[s] = IF s = t THEN "user" ELSE pc[s]
        BY <1>4, <2>1 DEF BpfTypeOK
    <3> QED
        BY <1>4, <3>1, <3>2 DEF OwnRecord
  <2> QED
    BY <2>2, <2>3
<1> QED
    BY <1>5, <1>6 DEF IdsInv

\* RETURN is sent before the entry is cleared.
LEMMA ReturnIds ==
    ASSUME NEW sent \in Seq(Event), NEW sent2 \in Seq(Event), Grows(sent, sent2),
           BpfTypeOK, OneOwnerPerId, IdsInv(sent), NEW t \in Threads, ReturnEmitted(t)
    PROVE  IdsInv(sent2)'
<1> DEFINE b == Boundary("RETURN", t, active[t].id)
<1>1. t \in ActiveThreads /\ active[t] \in Active
    BY DEF ReturnEmitted, ActiveThreads, BpfTypeOK
<1>2. b \in Event /\ b.kind = "RETURN" /\ b.id = active[t].id /\ b.ts = probe[t].at
    BY <1>1, BoundaryType DEF Kinds, Active, Boundary
<1>3. Records(sent2) \subseteq Records(sent) \cup {b}
    BY <1>2, EmitAdds DEF ReturnEmitted
<1>4. /\ active' = active /\ nextId' = nextId /\ probe' = probe
      /\ pc' = [pc EXCEPT ![t] = "clear"] /\ pc[t] = "return"
    BY DEF ReturnEmitted, Goto, maps
<1> HIDE DEF b
<1>5. \A e \in Records(sent2) : e.id <= nextId'
    BY <1>1, <1>2, <1>3, <1>4 DEF IdsInv, OneOwnerPerId
<1>6. ASSUME NEW s \in ActiveThreads', NEW e \in Records(sent2), e.id = active'[s].id
      PROVE  OwnRecord(s, e)'
  <2>1. s \in Threads /\ s \in ActiveThreads /\ e.id = active[s].id
    BY <1>4, <1>6 DEF ActiveThreads
  <2>2. pc'[s] = IF s = t THEN "clear" ELSE pc[s]
    BY <1>4, <2>1 DEF BpfTypeOK
  <2>3. CASE e = b
    <3>1. s = t
        BY <1>1, <1>2, <2>1, <2>3 DEF OneOwnerPerId
    <3> QED
        BY <1>2, <1>4, <2>2, <2>3, <3>1 DEF OwnRecord
  <2>4. CASE e # b
    <3>1. OwnRecord(s, e)
        BY <1>3, <2>1, <2>4 DEF IdsInv
    <3> QED
        BY <1>4, <2>2, <3>1 DEF OwnRecord
  <2> QED
    BY <2>3, <2>4
<1> QED
    BY <1>5, <1>6 DEF IdsInv

\* A thread outside every invocation has no records to be held to.
LEMMA ClearIds ==
    ASSUME NEW sent \in Seq(Event), NEW sent2 \in Seq(Event), Grows(sent, sent2),
           BpfTypeOK, IdsInv(sent), NEW t \in Threads, ReturnCleared(t)
    PROVE  IdsInv(sent2)'
<1>1. /\ Records(sent2) = Records(sent) /\ nextId' = nextId /\ probe' = probe
      /\ pc' = [pc EXCEPT ![t] = "user"]
      /\ active' = [active EXCEPT ![t] = None]
    BY TransportKept DEF ReturnCleared, WithoutActive, Goto
<1>2. \A s \in ActiveThreads' : s \in ActiveThreads /\ active'[s] = active[s] /\ pc'[s] = pc[s]
    BY <1>1 DEF ActiveThreads, BpfTypeOK
<1> QED
    BY <1>1, <1>2 DEF IdsInv, OwnRecord

LEMMA IdsStep ==
    ASSUME NEW sent \in Seq(Event), NEW sent2 \in Seq(Event), Grows(sent, sent2),
           BpfTypeOK, EntryHeld, MapsMirror, OneOwnerPerId, IdsInv(sent), BpfNext
    PROVE  IdsInv(sent2)'
<1>1. ASSUME active' = active, nextId' \in {nextId, nextId + 1}, SamePhase,
             Records(sent2) \subseteq Records(sent)
      PROVE  IdsInv(sent2)'
  <2>1. QuietlyAdds(sent, sent2, {})
    BY <1>1 DEF QuietlyAdds
  <2> QED
    BY <1>1, <2>1, QuietIds
<1>2. UNCHANGED transport => Records(sent2) = Records(sent)
    BY TransportKept
<1>3. UNCHANGED handlers => SamePhase
    BY DEF SamePhase, handlers
<1>4. ASSUME NEW t \in Threads, ProgramStep(t) PROVE IdsInv(sent2)'
  <2>1. SamePhase
    BY <1>4 DEF ProgramStep, Call, Return, ThreadExit, InUser, SamePhase, handlers, BpfTypeOK
  <2> QED
    BY <1>1, <1>2, <1>4, <2>1 DEF ProgramStep, Call, Return, ThreadExit, maps
<1>5. ASSUME NEW t \in Threads, HandlerStep(t) PROVE IdsInv(sent2)'
  <2>1. CASE EntryRejected(t) \/ ReturnUnmatched(t)
    <3> DEFINE b == Boundary("VIOLATION", t, 0)
    <3>1. b \in Event /\ b.kind = "VIOLATION" /\ b.id = 0
        BY BoundaryType DEF Kinds, Boundary
    <3>2. Records(sent2) \subseteq Records(sent) \cup {b}
        BY <2>1, <3>1, EmitAdds DEF EntryRejected, ReturnUnmatched
    <3>3. SamePhase /\ active' = active /\ nextId' = nextId
        BY <2>1 DEF EntryRejected, ReturnUnmatched, SamePhase, Goto, maps, BpfTypeOK
    <3>4. nextId \in Nat
        BY DEF BpfTypeOK
    <3> HIDE DEF b
    <3>5. QuietlyAdds(sent, sent2, {b})
        BY <3>1, <3>2, <3>4 DEF QuietlyAdds
    <3> QED
        BY <3>3, <3>5, QuietIds
  <2>2. CASE EntryRefused(t)
    <3>1. SamePhase
        BY <2>2 DEF EntryRefused, SamePhase, Goto, BpfTypeOK
    <3> QED
        BY <1>1, <1>2, <2>2, <3>1 DEF EntryRefused, AdvanceId, maps
  <2> QED
    BY <1>5, <2>1, <2>2, InstallIds, AnnounceIds, ReturnIds, ClearIds DEF HandlerStep
<1>6. ASSUME NEW t \in Threads, SampleTaken(t) PROVE IdsInv(sent2)'
  <2>1. PICK now \in Readings, stack \in Stacks \cup {NoStack} :
           IF stack = NoStack
           THEN UNCHANGED transport
           ELSE Emit(StackRecord("SAMPLE", t, now, stack, SamplePeriod))
    BY <1>6 DEF SampleTaken
  <2> DEFINE b == StackRecord("SAMPLE", t, now, stack, SamplePeriod)
  <2>2. active' = active /\ nextId' = nextId /\ SamePhase /\ t \in ActiveThreads
    BY <1>3, <1>6 DEF SampleTaken, maps, ActiveThreads
  <2>3. b \in Event /\ b.kind = "SAMPLE" /\ b.id = active[t].id
    BY <2>2, ReadingsType, StackRecordType, BoundAssumption
    DEF Kinds, StackRecord, ActiveThreads
  <2>4. Records(sent2) \subseteq Records(sent) \cup {b}
    BY <1>2, <2>1, <2>3, EmitAdds
  <2> HIDE DEF b
  <2>5. QuietlyAdds(sent, sent2, {b})
    BY <2>2, <2>3, <2>4 DEF OneOwnerPerId, QuietlyAdds
  <2> QED
    BY <2>2, <2>5, QuietIds
<1>7. ASSUME NEW prev \in Threads \cup {Other}, NEW next \in Threads \cup {Other},
             SchedSwitch(prev, next)
      PROVE  IdsInv(sent2)'
  <2>1. active' = active /\ nextId' = nextId /\ SamePhase
    BY <1>3, <1>7 DEF SchedSwitch
  <2>2. CASE UNCHANGED transport
    BY <1>1, <1>2, <2>1, <2>2
  <2>3. CASE SwitchEmits(next)
    <3> DEFINE b == OffcpuRecord(next, clock')
    <3>1. b \in Event /\ b.kind = "OFFCPU" /\ b.id = active[next].id
        BY <2>3, OffcpuRecordType DEF SwitchEmits
    <3>2. Records(sent2) \subseteq Records(sent) \cup {b}
        BY <2>3, <3>1, EmitAdds DEF SwitchEmits
    <3>3. next \in ActiveThreads
        BY <2>3 DEF SwitchEmits, ActiveThreads
    <3> HIDE DEF b
    <3>4. QuietlyAdds(sent, sent2, {b})
        BY <3>1, <3>2, <3>3 DEF OneOwnerPerId, QuietlyAdds
    <3> QED
        BY <2>1, <3>4, QuietIds
  <2> QED
    BY <1>7, <2>2, <2>3, SwitchRecord
<1>8. ASSUME NEW l \in LinkNames, Attach(l) \/ Detach(l) PROVE IdsInv(sent2)'
    BY <1>1, <1>2, <1>3, <1>8 DEF Attach, Detach, maps
<1>9. ASSUME Consume PROVE IdsInv(sent2)'
    BY <1>1, <1>3, <1>9, ConsumeTakes DEF Consume, maps
<1> QED
    BY <1>4, <1>5, <1>6, <1>7, <1>8, <1>9 DEF BpfNext, KernelStep

\* What the inductions below assume: everything the maps and ids promise.
Base(sent) ==
    /\ BpfTypeOK /\ EntryHeld /\ MapsMirror /\ OneOwnerPerId /\ SchedInv /\ IdsInv(sent)

\* What holds of any sequence that follows the ring holds of the ring.
LEMMA RingRecords ==
    ASSUME BpfTypeOK, BpfTypeOK'
    PROVE  \E sent, sent2 \in Seq(Event) : sent = ring /\ sent2 = ring' /\ Grows(sent, sent2)
<1>1. PICK sent : sent = ring
    OBVIOUS
<1>2. PICK sent2 : sent2 = ring'
    OBVIOUS
<1>3. sent \in Seq(Event) /\ sent2 \in Seq(Event)
    BY <1>1, <1>2 DEF BpfTypeOK
<1> QED
    BY <1>1, <1>2, <1>3, RingGrows

LEMMA IdsHold == BpfSpec => []IdsInv(ring)
<1>1. BpfInit => IdsInv(ring)
    BY DEF BpfInit, IdsInv, Records, ActiveThreads
<1>2. BpfTypeOK /\ EntryHeld /\ MapsMirror /\ OneOwnerPerId /\ IdsInv(ring) /\ BpfTypeOK'
      /\ [BpfNext]_bpfVars
         => IdsInv(ring)'
  <2>1. UNCHANGED bpfVars /\ IdsInv(ring) => IdsInv(ring)'
    BY DEF bpfVars, handlers, maps, transport, IdsInv, Records, ActiveThreads, OwnRecord
  <2>2. ASSUME BpfTypeOK, EntryHeld, MapsMirror, OneOwnerPerId, IdsInv(ring), BpfTypeOK', BpfNext
        PROVE  IdsInv(ring)'
    <3>1. PICK sent \in Seq(Event), sent2 \in Seq(Event) :
             sent = ring /\ sent2 = ring' /\ Grows(sent, sent2)
        BY <2>2, RingRecords
    <3>2. IdsInv(sent)
        BY <2>2, <3>1
    <3>3. IdsInv(sent2)'
        BY <2>2, <3>1, <3>2, IdsStep
    <3> QED
        BY <3>1, <3>3 DEF IdsInv, Records, OwnRecord, ActiveThreads
  <2> QED
    BY <2>1, <2>2
<1> QED
    BY <1>1, <1>2, BpfTypeCorrect, MapsMirrorActive, IdsAreUnique, PTL DEF BpfSpec

-----------------------------------------------------------------------------
(* What time the records account for *)

\* What a thread inside an invocation has read of the clock: slice_entry before
\* its switch-outs, and slice_return before or after all of an open one.
ThreadTimes(t) ==
    /\ active[t].start <= clock
    /\ pc[t] = "announce" => probe[t].at = active[t].start
    /\ offcpu[t] # None => active[t].start <= offcpu[t].at /\ offcpu[t].at <= clock
    /\ (pc[t] \in {"return", "clear"} /\ offcpu[t] # None /\ Live("sched"))
          => probe[t].at <= offcpu[t].at

\* The same of the records of its invocation.
RecordTimes(t, e) ==
    /\ e.kind = "ENTRY" => e.ts <= active[t].start
    /\ e.kind = "OFFCPU" => active[t].start <= e.ts - e.weight
    /\ (e.kind = "OFFCPU" /\ pc[t] \in {"return", "clear"})
          => e.ts <= probe[t].at \/ probe[t].at <= e.ts - e.weight

TimeInv(sent) ==
    /\ \A t \in Threads : probe[t].at <= clock
    /\ \A e \in Records(sent) : e.kind = "OFFCPU" => e.ts <= clock
    /\ \A t \in ActiveThreads : ThreadTimes(t)
    /\ \A t \in ActiveThreads, e \in Records(sent) : e.id = active[t].id => RecordTimes(t, e)

\* A step may leave t's handler where it is, or move it on, or start a handler
\* of t, which runs and so has no open interval.
StaysInHandler(t) ==
    /\ probe'[t] = probe[t]
    /\ pc'[t] = "announce" => pc[t] = "announce"
    /\ pc'[t] \in {"return", "clear"} => pc[t] \in {"return", "clear"}

StartsHandler(t) ==
    /\ probe'[t].at \in Nat /\ clock <= probe'[t].at /\ probe'[t].at <= clock'
    /\ pc'[t] # "announce"
    /\ Live("sched") => offcpu[t] = None
    /\ offcpu'[t] = offcpu[t]

\* It may open an interval of t at the time it reads, close one or keep it.
KeepsInterval(t) ==
    /\ offcpu'[t] \in {None, offcpu[t]} \/ offcpu'[t].at = clock'
    /\ Live("sched")' => Live("sched") \/ offcpu'[t] = None

TimeMoves == clock' \in Nat /\ clock <= clock'

MovesOn == \A t \in Threads : (StaysInHandler(t) \/ StartsHandler(t)) /\ KeepsInterval(t)

\* The records it adds account for the time of their invocations.
Accounts(Added) ==
    /\ Added \subseteq Event
    /\ \A e \in Added : e.kind = "OFFCPU" => e.ts <= clock'
    /\ \A t \in ActiveThreads, e \in Added : e.id = active[t].id => RecordTimes(t, e)'

LEMMA ThreadTimesMove ==
    ASSUME NEW sent \in Seq(Event),
           Base(sent), TimeInv(sent), active' = active, TimeMoves, MovesOn, NEW t \in ActiveThreads
    PROVE  ThreadTimes(t)'
<1>1. t \in Threads /\ active[t] \in Active /\ ThreadTimes(t) /\ probe[t].at <= clock
    BY DEF ActiveThreads, Base, BpfTypeOK, TimeInv
<1>2. active[t].start \in Nat /\ clock \in Nat /\ clock' \in Nat /\ clock <= clock'
    BY <1>1 DEF Active, Base, BpfTypeOK, TimeMoves
<1>3. probe[t].at \in Nat /\ (offcpu[t] # None => offcpu[t].at \in Nat)
    BY <1>1 DEF Base, BpfTypeOK, Probe, OffcpuStart
<1>4. StaysInHandler(t) \/ StartsHandler(t)
    BY <1>1 DEF MovesOn
<1>5. KeepsInterval(t)
    BY <1>1 DEF MovesOn
<1>6. CASE StaysInHandler(t)
    BY <1>1, <1>2, <1>3, <1>5, <1>6 DEF StaysInHandler, KeepsInterval, ThreadTimes
<1>7. CASE StartsHandler(t)
    BY <1>1, <1>2, <1>3, <1>5, <1>7 DEF StartsHandler, KeepsInterval, ThreadTimes
<1> QED
    BY <1>4, <1>6, <1>7

LEMMA RecordTimesMove ==
    ASSUME NEW sent \in Seq(Event),
           Base(sent), TimeInv(sent), active' = active, TimeMoves, MovesOn, NEW t \in ActiveThreads,
           NEW e \in Records(sent), e.id = active[t].id
    PROVE  RecordTimes(t, e)'
<1>1. t \in Threads /\ active[t] \in Active /\ RecordTimes(t, e)
    BY DEF ActiveThreads, Base, BpfTypeOK, TimeInv
<1>2. e.ts \in Nat /\ e.weight \in Nat /\ (e.kind = "OFFCPU" => e.ts <= clock)
    BY RecordType DEF Event, Base, TimeInv
<1>3. clock \in Nat /\ probe[t].at \in Nat
    BY <1>1 DEF Base, BpfTypeOK, Probe
<1>4. StaysInHandler(t) \/ StartsHandler(t)
    BY <1>1 DEF MovesOn
<1>5. CASE StaysInHandler(t)
    BY <1>1, <1>5 DEF StaysInHandler, RecordTimes
<1>6. CASE StartsHandler(t)
    BY <1>1, <1>2, <1>3, <1>6 DEF StartsHandler, RecordTimes
<1> QED
    BY <1>4, <1>5, <1>6

LEMMA TimesMove ==
    ASSUME NEW sent \in Seq(Event), NEW sent2 \in Seq(Event), Grows(sent, sent2),
           Base(sent), TimeInv(sent), active' = active, TimeMoves, MovesOn,
           NEW Added, Records(sent2) \subseteq Records(sent) \cup Added, Accounts(Added)
    PROVE  TimeInv(sent2)'
<1>1. ActiveThreads' = ActiveThreads
    BY DEF ActiveThreads
<1>2. ASSUME NEW t \in Threads PROVE probe'[t].at <= clock'
  <2>1. probe[t].at <= clock /\ probe[t].at \in Nat /\ clock \in Nat
    BY DEF TimeInv, Base, BpfTypeOK, Probe
  <2> QED
    BY <2>1 DEF MovesOn, StaysInHandler, StartsHandler, TimeMoves
<1>3. ASSUME NEW e \in Records(sent2), e.kind = "OFFCPU" PROVE e.ts <= clock'
  <2>1. CASE e \in Records(sent)
    <3>1. e.ts <= clock /\ e.ts \in Nat /\ clock \in Nat
        BY <1>3, <2>1, RecordType DEF TimeInv, Base, BpfTypeOK, Event
    <3> QED
        BY <3>1 DEF TimeMoves
  <2> QED
    BY <1>3, <2>1 DEF Accounts
<1>4. \A t \in ActiveThreads : ThreadTimes(t)'
    BY ThreadTimesMove
<1>5. ASSUME NEW t \in ActiveThreads, NEW e \in Records(sent2), e.id = active'[t].id
      PROVE  RecordTimes(t, e)'
  <2>1. e.id = active[t].id
    BY <1>5
  <2>2. CASE e \in Records(sent)
    BY <2>1, <2>2, RecordTimesMove
  <2> QED
    BY <2>1, <2>2 DEF Accounts
<1> QED
    BY <1>1, <1>2, <1>3, <1>4, <1>5 DEF TimeInv

\* A new invocation starts when slice_entry read the clock, which is over.
LEMMA InstallTimes ==
    ASSUME NEW sent \in Seq(Event), NEW sent2 \in Seq(Event), Grows(sent, sent2),
           Base(sent), TimeInv(sent), NEW t \in Threads, EntryInstalled(t)
    PROVE  TimeInv(sent2)'
<1>1. /\ Records(sent2) = Records(sent) /\ clock' = clock /\ link' = link /\ offcpu' = offcpu
      /\ probe' = probe /\ pc' = [pc EXCEPT ![t] = "announce"] /\ active[t] = None
      /\ active' = [active EXCEPT ![t] = [id |-> nextId + 1, start |-> probe[t].at]]
    BY TransportKept DEF EntryInstalled, AdvanceId, Goto, Occupied
<1>2. /\ active'[t] = [id |-> nextId + 1, start |-> probe[t].at] /\ pc'[t] = "announce"
      /\ \A s \in Threads : s # t => active'[s] = active[s] /\ pc'[s] = pc[s]
    BY <1>1 DEF Base, BpfTypeOK
<1>3. offcpu[t] = None
    BY <1>1 DEF Base, MapsMirror
<1>4. \A e \in Records(sent) : e.id # nextId + 1
  <2>1. nextId \in Nat /\ \A e \in Records(sent) : e.id \in Nat /\ e.id <= nextId
    BY RecordType DEF Base, BpfTypeOK, Event, IdsInv
  <2> QED
    BY <2>1
<1>5. ASSUME NEW s \in ActiveThreads' PROVE ThreadTimes(s)'
  <2>1. CASE s = t
    BY <1>1, <1>2, <1>3, <2>1 DEF ThreadTimes, TimeInv
  <2>2. CASE s # t
    <3>1. s \in ActiveThreads /\ active'[s] = active[s] /\ pc'[s] = pc[s]
        BY <1>2, <2>2 DEF ActiveThreads
    <3>2. ThreadTimes(s)
        BY <3>1 DEF TimeInv
    <3> QED
        BY <1>1, <3>1, <3>2 DEF ThreadTimes, Live
  <2> QED
    BY <2>1, <2>2
<1>6. ASSUME NEW s \in ActiveThreads', NEW e \in Records(sent2), e.id = active'[s].id
      PROVE  RecordTimes(s, e)'
  <2>1. s # t
    BY <1>1, <1>2, <1>4, <1>6
  <2>2. s \in ActiveThreads /\ active'[s] = active[s] /\ pc'[s] = pc[s]
    BY <1>2, <2>1 DEF ActiveThreads
  <2>3. RecordTimes(s, e)
    BY <1>1, <1>6, <2>2 DEF TimeInv
  <2> QED
    BY <1>1, <2>2, <2>3 DEF RecordTimes
<1> QED
    BY <1>1, <1>5, <1>6 DEF TimeInv

LEMMA ClearTimes ==
    ASSUME NEW sent \in Seq(Event), NEW sent2 \in Seq(Event), Grows(sent, sent2),
           Base(sent), TimeInv(sent), NEW t \in Threads, ReturnCleared(t)
    PROVE  TimeInv(sent2)'
<1>1. /\ Records(sent2) = Records(sent) /\ clock' = clock /\ link' = link /\ probe' = probe
      /\ pc' = [pc EXCEPT ![t] = "user"]
      /\ active' = [active EXCEPT ![t] = None] /\ offcpu' = [offcpu EXCEPT ![t] = None]
    BY TransportKept DEF ReturnCleared, WithoutActive, Goto
<1>2. \A s \in ActiveThreads' : /\ s \in ActiveThreads /\ active'[s] = active[s]
                                /\ pc'[s] = pc[s] /\ offcpu'[s] = offcpu[s]
    BY <1>1 DEF ActiveThreads, Base, BpfTypeOK
<1>3. ASSUME NEW s \in ActiveThreads' PROVE ThreadTimes(s)'
  <2>1. ThreadTimes(s)
    BY <1>2 DEF TimeInv
  <2> QED
    BY <1>1, <1>2, <2>1 DEF ThreadTimes, Live
<1>4. ASSUME NEW s \in ActiveThreads', NEW e \in Records(sent2), e.id = active'[s].id
      PROVE  RecordTimes(s, e)'
  <2>1. RecordTimes(s, e)
    BY <1>1, <1>2, <1>4 DEF TimeInv
  <2> QED
    BY <1>1, <1>2, <2>1 DEF RecordTimes
<1> QED
    BY <1>1, <1>3, <1>4 DEF TimeInv

\* Which steps move time on, and what they add.
LEMMA StillMoves ==
    ASSUME NEW sent \in Seq(Event),
           Base(sent), UNCHANGED <<offcpu, handlers>>, Live("sched")' => Live("sched")
    PROVE  MovesOn
BY DEF MovesOn, StaysInHandler, KeepsInterval, handlers

LEMMA ReadingMoves ==
    ASSUME NEW sent \in Seq(Event),
           Base(sent), NEW now \in Readings, clock' = now
    PROVE  TimeMoves /\ now \in Nat /\ clock <= now
<1>1. clock \in Nat
    BY DEF Base, BpfTypeOK
<1> QED
    BY <1>1, ReadingsType, BoundAssumption DEF TimeMoves, Readings

LEMMA SameClockMoves == ASSUME NEW sent \in Seq(Event),
           Base(sent), clock' = clock PROVE TimeMoves
BY DEF Base, BpfTypeOK, TimeMoves

\* A thread enters a uprobe handler and reads the clock.
LEMMA HandlerStarts ==
    ASSUME NEW sent \in Seq(Event),
           Base(sent), NEW t \in Threads, InUser(t), NEW now \in Readings, clock' = now,
           NEW p \in {"entry", "return"}, pc' = [pc EXCEPT ![t] = p],
           NEW call \in Nat, NEW depth \in Nat,
           probe' = [probe EXCEPT ![t] = [at |-> now, call |-> call, depth |-> depth]],
           offcpu' = offcpu, link' = link
    PROVE  TimeMoves /\ MovesOn
<1>1. TimeMoves /\ now \in Nat /\ clock <= now
    BY ReadingMoves
<1>2. StartsHandler(t)
  <2>1. probe'[t].at = now /\ pc'[t] = p
    BY DEF Base, BpfTypeOK
  <2>2. Live("sched") => offcpu[t] = None
    BY DEF InUser, Base, SchedInv, OffcpuOnlyWhileOff
  <2> QED
    BY <1>1, <2>1, <2>2 DEF StartsHandler
<1>3. \A s \in Threads : s # t => StaysInHandler(s)
    BY DEF StaysInHandler, Base, BpfTypeOK
<1>4. \A s \in Threads : KeepsInterval(s)
    BY DEF KeepsInterval, Live
<1> QED
    BY <1>1, <1>2, <1>3, <1>4 DEF MovesOn

LEMMA ProgramMoves ==
    ASSUME NEW sent \in Seq(Event),
           Base(sent), NEW t \in Threads, ProgramStep(t)
    PROVE  TimeMoves /\ MovesOn
<1>1. offcpu' = offcpu /\ link' = link
    BY DEF ProgramStep, Call, Return, ThreadExit, maps
<1>2. CASE UNCHANGED <<clock, handlers>>
    BY <1>1, <1>2, StillMoves, SameClockMoves DEF Live
<1>3. CASE Call(t) /\ Live("entry")
  <2>1. calls' \in Nat /\ Len(frames[t]) + 1 \in Nat
    BY <1>3 DEF Call, Base, BpfTypeOK
  <2>2. PICK now \in Readings :
           /\ clock' = now /\ pc' = [pc EXCEPT ![t] = "entry"]
           /\ probe' = [probe EXCEPT ![t] =
                           [at |-> now, call |-> calls', depth |-> Len(frames[t]) + 1]]
    BY <1>3 DEF Call
  <2>3. InUser(t)
    BY <1>3 DEF Call
  <2> QED
    BY <1>1, <2>1, <2>2, <2>3, HandlerStarts
<1>4. CASE Return(t) /\ ~UNCHANGED <<clock, handlers>>
  <2> DEFINE depth == Len(frames[t])
             top == frames[t][depth]
  <2>1. frames[t] \in Seq(Frame) /\ frames[t] # <<>>
    BY <1>4 DEF Return, Base, BpfTypeOK
  <2>2. depth \in Nat /\ top.call \in Nat
    <3>1. depth \in Nat /\ depth >= 1
        BY <2>1
    <3>2. top \in Frame
        BY <2>1, <3>1
    <3> QED
        BY <3>1, <3>2 DEF Frame
  <2>3. PICK now \in Readings :
           /\ clock' = now /\ pc' = [pc EXCEPT ![t] = "return"]
           /\ probe' = [probe EXCEPT ![t] = [at |-> now, call |-> top.call, depth |-> depth]]
    BY <1>4 DEF Return
  <2>4. InUser(t)
    BY <1>4 DEF Return
  <2> HIDE DEF depth, top
  <2> QED
    BY <1>1, <2>2, <2>3, <2>4, HandlerStarts
<1> QED
    BY <1>2, <1>3, <1>4 DEF ProgramStep, Call, ThreadExit

\* The handlers but for the two that start and end an invocation.
LEMMA HandlerMoves ==
    ASSUME NEW sent \in Seq(Event),
           Base(sent), NEW t \in Threads, HandlerStep(t), ~EntryInstalled(t), ~ReturnCleared(t)
    PROVE  TimeMoves /\ MovesOn /\ active' = active
<1>1. /\ clock' = clock /\ offcpu' = offcpu /\ link' = link /\ probe' = probe
      /\ active' = active
    BY DEF HandlerStep, EntryRejected, EntryRefused, EntryAnnounced, ReturnUnmatched,
           ReturnEmitted, Goto, maps
<1>2. \/ pc' = [pc EXCEPT ![t] = "user"]
      \/ pc[t] = "return" /\ pc' = [pc EXCEPT ![t] = "clear"]
    BY DEF HandlerStep, EntryRejected, EntryRefused, EntryAnnounced, ReturnUnmatched,
           ReturnEmitted, Goto
<1>3. \A s \in Threads : StaysInHandler(s)
    BY <1>1, <1>2 DEF StaysInHandler, Base, BpfTypeOK
<1>4. \A s \in Threads : KeepsInterval(s)
    BY <1>1 DEF KeepsInterval, Live
<1> QED
    BY <1>1, <1>3, <1>4, SameClockMoves DEF MovesOn

LEMMA SampleMoves ==
    ASSUME NEW sent \in Seq(Event),
           Base(sent), NEW t \in Threads, SampleTaken(t)
    PROVE  TimeMoves /\ MovesOn /\ active' = active
<1>1. PICK now \in Readings : clock' = now
    BY DEF SampleTaken
<1>2. UNCHANGED <<offcpu, handlers>> /\ active' = active /\ link' = link
    BY DEF SampleTaken, maps
<1> QED
    BY <1>1, <1>2, ReadingMoves, StillMoves DEF Live

LEMMA SwitchMoves ==
    ASSUME NEW sent \in Seq(Event),
           Base(sent), NEW prev \in Threads \cup {Other}, NEW next \in Threads \cup {Other},
           SchedSwitch(prev, next)
    PROVE  TimeMoves /\ MovesOn /\ active' = active
<1>1. UNCHANGED <<link, handlers, active>>
    BY DEF SchedSwitch
<1>2. CASE ~Live("sched")
    BY <1>1, <1>2, StillMoves, SameClockMoves DEF SchedSwitch, Live
<1>3. CASE Live("sched")
  <2>1. PICK now \in Readings, stack \in Stacks \cup {NoStack} :
          /\ clock' = now
          /\ SwitchIn(next, now, TracedAfterSwitchOut(prev),
                      OffcpuAfterSwitchOut(prev, now, stack))
    BY <1>3 DEF SchedSwitch, SwitchHandler
  <2> DEFINE started == OffcpuAfterSwitchOut(prev, now, stack)
  <2>2. TimeMoves /\ now \in Nat
    BY <2>1, ReadingMoves
  <2>3. \A s \in Threads : offcpu'[s] \in {None, started[s]}
    BY <2>1, <2>2, SwitchOutType, SwitchInForgets DEF Base
  <2>4. \A s \in Threads : started[s] = offcpu[s] \/ started[s].at = now
    BY DEF OffcpuAfterSwitchOut, Recorded, Base, BpfTypeOK
  <2>5. \A s \in Threads : KeepsInterval(s)
    BY <1>1, <2>1, <2>3, <2>4 DEF KeepsInterval, Live
  <2>6. \A s \in Threads : StaysInHandler(s)
    BY <1>1 DEF StaysInHandler, handlers
  <2> QED
    BY <1>1, <2>2, <2>5, <2>6 DEF MovesOn
<1> QED
    BY <1>2, <1>3

LEMMA LinkMoves ==
    ASSUME NEW sent \in Seq(Event),
           Base(sent), NEW l \in LinkNames, Attach(l) \/ Detach(l)
    PROVE  TimeMoves /\ MovesOn /\ active' = active
<1>1. UNCHANGED <<clock, offcpu, handlers>> /\ active' = active
    BY DEF Attach, Detach, maps
<1>2. \A s \in Threads : StaysInHandler(s)
    BY <1>1 DEF StaysInHandler, handlers
<1>3. \A s \in Threads : KeepsInterval(s)
  <2>1. CASE link["sched"] = "new"
    BY <1>1, <2>1 DEF KeepsInterval, Base, SchedInv, NothingOpenYet
  <2>2. CASE link["sched"] # "new"
    <3>1. link' = [link EXCEPT ![l] = "gone"] \/ (link[l] = "new" /\ link' = [link EXCEPT ![l] = "live"])
        BY DEF Attach, Detach
    <3>2. link \in [LinkNames -> {"new", "live", "gone"}] /\ "sched" \in LinkNames
        BY DEF Base, BpfTypeOK, LinkNames, AttachOrder
    <3>3. Live("sched")' => Live("sched")
        BY <2>2, <3>1, <3>2 DEF Live
    <3> QED
        BY <1>1, <3>3 DEF KeepsInterval
  <2> QED
    BY <2>1, <2>2
<1> QED
    BY <1>1, <1>2, <1>3, SameClockMoves DEF MovesOn

\* The time o accounts for starts after the ENTRY e of its invocation, and is
\* not cut in two by the RETURN e.
LeavesWhole(e, o) ==
    /\ e.kind = "ENTRY" => e.ts <= o.ts - o.weight
    /\ e.kind = "RETURN" => o.ts <= e.ts \/ e.ts <= o.ts - o.weight

Apart(sent) == \A o, e \in Records(sent) : (o.kind = "OFFCPU" /\ e.id = o.id) => LeavesWhole(e, o)

\* A new record that fits those of its invocation already sent.
Fits(sent, b) ==
    /\ Accounts({b})
    /\ \A e \in Records(sent) : (b.kind = "OFFCPU" /\ e.id = b.id) => LeavesWhole(e, b)
    /\ \A o \in Records(sent) : (o.kind = "OFFCPU" /\ o.id = b.id) => LeavesWhole(b, o)

LEMMA FittingAdded ==
    ASSUME NEW sent \in Seq(Event), NEW sent2 \in Seq(Event), Grows(sent, sent2),
           Base(sent), TimeInv(sent), Apart(sent), active' = active, TimeMoves, MovesOn,
           NEW b, Records(sent2) \subseteq Records(sent) \cup {b}, Fits(sent, b)
    PROVE  TimeInv(sent2)' /\ Apart(sent2)
<1>1. TimeInv(sent2)'
    BY TimesMove DEF Fits
<1>2. LeavesWhole(b, b) \/ b.kind # "OFFCPU"
    BY DEF LeavesWhole
<1>3. ASSUME NEW o \in Records(sent2), NEW e \in Records(sent2), o.kind = "OFFCPU", e.id = o.id
      PROVE  LeavesWhole(e, o)
  <2>1. CASE o \in Records(sent) /\ e \in Records(sent)
    BY <1>3, <2>1 DEF Apart
  <2>2. CASE o = b /\ e # b
    BY <1>3, <2>2 DEF Fits
  <2>3. CASE o # b /\ e = b
    BY <1>3, <2>3 DEF Fits
  <2>4. CASE o = b /\ e = b
    BY <1>2, <1>3, <2>4
  <2> QED
    BY <2>1, <2>2, <2>3, <2>4
<1>4. Apart(sent2)
    BY <1>3 DEF Apart, LeavesWhole
<1> QED
    BY <1>1, <1>4

LEMMA NothingAdded ==
    ASSUME NEW sent \in Seq(Event), NEW sent2 \in Seq(Event), Grows(sent, sent2),
           Base(sent), TimeInv(sent), Apart(sent), active' = active, TimeMoves, MovesOn, Records(sent2) \subseteq Records(sent)
    PROVE  TimeInv(sent2)' /\ Apart(sent2)
<1>1. Accounts({}) /\ Records(sent2) \subseteq Records(sent) \cup {}
    BY DEF Accounts
<1>2. TimeInv(sent2)'
    BY <1>1, TimesMove
<1> QED
    BY <1>2 DEF Apart, LeavesWhole

\* A record without a time of its own always fits.
LEMMA TimelessFits ==
    ASSUME NEW sent \in Seq(Event),
           NEW b \in Event, b.kind \in {"SAMPLE", "VIOLATION"}
    PROVE  Fits(sent, b)
<1>1. Accounts({b})
    BY DEF Accounts, RecordTimes
<1> QED
    BY <1>1 DEF Fits, LeavesWhole

\* ENTRY carries the time the invocation started.
LEMMA EntryTimesFit ==
    ASSUME NEW sent \in Seq(Event),
           Base(sent), TimeInv(sent), NEW t \in ActiveThreads, pc[t] = "announce",
           active' = active, NEW b \in Event, b.kind = "ENTRY", b.id = active[t].id,
           b.ts = probe[t].at
    PROVE  Fits(sent, b)
<1>1. b.ts = active[t].start
    BY DEF TimeInv, ThreadTimes
<1>2. active[t] \in Active
    BY DEF ActiveThreads, Base, BpfTypeOK
<1>3. ASSUME NEW s \in ActiveThreads, b.id = active[s].id PROVE RecordTimes(s, b)'
  <2>1. s = t
    BY <1>3 DEF Base, OneOwnerPerId
  <2> QED
    BY <1>1, <1>2, <2>1 DEF RecordTimes, Active
<1>4. ASSUME NEW o \in Records(sent), o.kind = "OFFCPU", o.id = b.id PROVE LeavesWhole(b, o)
  <2>1. RecordTimes(t, o)
    BY <1>4 DEF TimeInv
  <2> QED
    BY <1>1, <1>4, <2>1 DEF RecordTimes, LeavesWhole
<1>5. Accounts({b})
    BY <1>3 DEF Accounts
<1> QED
    BY <1>4, <1>5 DEF Fits

\* RETURN carries the time slice_return read, before or after every interval.
LEMMA ReturnTimesFit ==
    ASSUME NEW sent \in Seq(Event),
           Base(sent), TimeInv(sent), NEW t \in ActiveThreads, pc[t] = "return",
           NEW b \in Event, b.kind = "RETURN", b.id = active[t].id, b.ts = probe[t].at
    PROVE  Fits(sent, b)
<1>1. Accounts({b})
    BY DEF Accounts, RecordTimes
<1>2. ASSUME NEW o \in Records(sent), o.kind = "OFFCPU", o.id = b.id PROVE LeavesWhole(b, o)
  <2>1. RecordTimes(t, o)
    BY <1>2 DEF TimeInv
  <2> QED
    BY <1>2, <2>1 DEF RecordTimes, LeavesWhole
<1> QED
    BY <1>1, <1>2 DEF Fits

\* OFFCPU carries an interval that opened after slice_entry read the clock
\* and, if slice_return has read it too, after that.
LEMMA OffcpuFits ==
    ASSUME NEW sent \in Seq(Event),
           Base(sent), TimeInv(sent), TimeMoves, UNCHANGED handlers, active' = active,
           NEW t \in Threads, SwitchEmits(t), NEW b, b = OffcpuRecord(t, clock')
    PROVE  Fits(sent, b)
<1>1. t \in ActiveThreads /\ clock' \in Nat /\ clock <= clock' /\ Live("sched")
    BY DEF SwitchEmits, ActiveThreads
<1>2. ThreadTimes(t) /\ offcpu[t] # None
    BY <1>1 DEF TimeInv, SwitchEmits
<1>3. active[t] \in Active /\ clock \in Nat /\ probe[t].at \in Nat
    BY <1>1 DEF ActiveThreads, Base, BpfTypeOK, Probe
<1>4. /\ b \in Event /\ b.kind = "OFFCPU" /\ b.id = active[t].id /\ b.ts = clock'
      /\ offcpu[t].at \in Nat /\ (offcpu[t].at <= clock' => b.ts - b.weight = offcpu[t].at)
    BY OffcpuRecordType DEF SwitchEmits, Base
<1>5. b.ts - b.weight = offcpu[t].at /\ active[t].start <= offcpu[t].at
    BY <1>1, <1>2, <1>3, <1>4 DEF ThreadTimes
<1>6. ASSUME NEW s \in ActiveThreads, b.id = active[s].id PROVE RecordTimes(s, b)'
  <2>1. s = t
    BY <1>1, <1>4, <1>6 DEF Base, OneOwnerPerId
  <2>2. active'[t] = active[t] /\ pc'[t] = pc[t] /\ probe'[t] = probe[t]
    BY DEF handlers
  <2>3. pc[t] \in {"return", "clear"} => probe[t].at <= offcpu[t].at
    BY <1>1, <1>2 DEF ThreadTimes
  <2> QED
    BY <1>4, <1>5, <2>1, <2>2, <2>3 DEF RecordTimes
<1>7. ASSUME NEW e \in Records(sent), e.id = b.id PROVE LeavesWhole(e, b)
  <2>1. RecordTimes(t, e) /\ OwnRecord(t, e) /\ e \in Event
    BY <1>1, <1>4, <1>7, RecordType DEF TimeInv, Base, IdsInv
  <2>2. CASE e.kind = "ENTRY"
    <3>1. e.ts <= active[t].start /\ e.ts \in Nat /\ active[t].start \in Nat
        BY <1>3, <2>1, <2>2 DEF RecordTimes, Event, Active
    <3>2. e.ts <= offcpu[t].at
        BY <1>4, <1>5, <3>1
    <3> QED
        BY <1>5, <2>2, <3>2 DEF LeavesWhole
  <2>3. CASE e.kind = "RETURN"
    BY <1>1, <1>2, <1>5, <2>1, <2>3 DEF OwnRecord, ThreadTimes, LeavesWhole
  <2> QED
    BY <2>2, <2>3 DEF LeavesWhole
<1>8. Accounts({b})
    BY <1>1, <1>4, <1>6 DEF Accounts
<1>9. \A o \in Records(sent) : (o.kind = "OFFCPU" /\ o.id = b.id) => LeavesWhole(b, o)
    BY <1>4 DEF LeavesWhole
<1> QED
    BY <1>7, <1>8, <1>9 DEF Fits

LEMMA TimeStep ==
    ASSUME NEW sent \in Seq(Event), NEW sent2 \in Seq(Event), Grows(sent, sent2),
           Base(sent), TimeInv(sent), Apart(sent), BpfNext
    PROVE  TimeInv(sent2)' /\ Apart(sent2)
<1>0. BpfTypeOK
    BY DEF Base
<1>1. UNCHANGED transport => Records(sent2) = Records(sent)
    BY TransportKept
<1>2. ASSUME NEW t \in Threads, ProgramStep(t) PROVE TimeInv(sent2)' /\ Apart(sent2)
  <2>1. UNCHANGED transport /\ active' = active
    BY <1>2 DEF ProgramStep, Call, Return, ThreadExit, maps
  <2> QED
    BY <1>1, <1>2, <2>1, ProgramMoves, NothingAdded
<1>3. ASSUME NEW t \in Threads, HandlerStep(t) PROVE TimeInv(sent2)' /\ Apart(sent2)
  <2>1. CASE EntryInstalled(t) \/ ReturnCleared(t)
    <3>1. Records(sent2) = Records(sent)
        BY <1>1, <2>1 DEF EntryInstalled, ReturnCleared
    <3>2. Apart(sent2)
        BY <3>1 DEF Apart, LeavesWhole
    <3> QED
        BY <2>1, <3>2, InstallTimes, ClearTimes
  <2>2. CASE ~EntryInstalled(t) /\ ~ReturnCleared(t)
    <3>1. TimeMoves /\ MovesOn /\ active' = active
        BY <1>3, <2>2, HandlerMoves
    <3>2. CASE EntryRejected(t) \/ ReturnUnmatched(t)
      <4> DEFINE b == Boundary("VIOLATION", t, 0)
      <4>1. b \in Event /\ b.kind = "VIOLATION"
        BY <1>0, BoundaryType DEF Kinds, Boundary
      <4>2. Records(sent2) \subseteq Records(sent) \cup {b}
        BY <1>0, <3>2, <4>1, EmitAdds DEF EntryRejected, ReturnUnmatched
      <4> HIDE DEF b
      <4>3. Fits(sent, b)
        BY <4>1, TimelessFits
      <4> QED
        BY <3>1, <4>2, <4>3, FittingAdded
    <3>3. CASE EntryRefused(t)
        BY <1>1, <3>1, <3>3, NothingAdded DEF EntryRefused
    <3>4. CASE EntryAnnounced(t)
      <4> DEFINE b == Boundary("ENTRY", t, active[t].id)
      <4>1. t \in ActiveThreads /\ active[t] \in Active /\ pc[t] = "announce"
        BY <3>4 DEF EntryAnnounced, EntryHeld, ActiveThreads, BpfTypeOK, Base
      <4>2. b \in Event /\ b.kind = "ENTRY" /\ b.id = active[t].id /\ b.ts = probe[t].at
        BY <1>0, <4>1, BoundaryType DEF Kinds, Active, Boundary
      <4>3. Records(sent2) \subseteq Records(sent) \cup {b}
        BY <1>0, <3>4, <4>2, EmitAdds DEF EntryAnnounced
      <4> HIDE DEF b
      <4>4. Fits(sent, b)
        BY <3>1, <4>1, <4>2, EntryTimesFit
      <4> QED
        BY <3>1, <4>3, <4>4, FittingAdded
    <3>5. CASE ReturnEmitted(t)
      <4> DEFINE b == Boundary("RETURN", t, active[t].id)
      <4>1. t \in ActiveThreads /\ active[t] \in Active /\ pc[t] = "return"
        BY <3>5 DEF ReturnEmitted, ActiveThreads, BpfTypeOK, Base
      <4>2. b \in Event /\ b.kind = "RETURN" /\ b.id = active[t].id /\ b.ts = probe[t].at
        BY <1>0, <4>1, BoundaryType DEF Kinds, Active, Boundary
      <4>3. Records(sent2) \subseteq Records(sent) \cup {b}
        BY <1>0, <3>5, <4>2, EmitAdds DEF ReturnEmitted
      <4> HIDE DEF b
      <4>4. Fits(sent, b)
        BY <4>1, <4>2, ReturnTimesFit
      <4> QED
        BY <3>1, <4>3, <4>4, FittingAdded
    <3> QED
        BY <1>3, <2>2, <3>2, <3>3, <3>4, <3>5 DEF HandlerStep
  <2> QED
    BY <2>1, <2>2
<1>4. ASSUME NEW t \in Threads, SampleTaken(t) PROVE TimeInv(sent2)' /\ Apart(sent2)
  <2>1. PICK now \in Readings, stack \in Stacks \cup {NoStack} :
           IF stack = NoStack
           THEN UNCHANGED transport
           ELSE Emit(StackRecord("SAMPLE", t, now, stack, SamplePeriod))
    BY <1>4 DEF SampleTaken
  <2> DEFINE b == StackRecord("SAMPLE", t, now, stack, SamplePeriod)
  <2>2. b \in Event /\ b.kind = "SAMPLE"
    BY <1>0, <1>4, ReadingsType, StackRecordType, BoundAssumption
    DEF Kinds, StackRecord, SampleTaken
  <2>3. Records(sent2) \subseteq Records(sent) \cup {b}
    BY <1>0, <1>1, <2>1, <2>2, EmitAdds
  <2> HIDE DEF b
  <2>4. Fits(sent, b)
    BY <2>2, TimelessFits
  <2> QED
    BY <1>4, <2>3, <2>4, SampleMoves, FittingAdded
<1>5. ASSUME NEW prev \in Threads \cup {Other}, NEW next \in Threads \cup {Other},
             SchedSwitch(prev, next)
      PROVE  TimeInv(sent2)' /\ Apart(sent2)
  <2>1. TimeMoves /\ MovesOn /\ active' = active
    BY <1>5, SwitchMoves
  <2>2. CASE UNCHANGED transport
    BY <1>1, <2>1, <2>2, NothingAdded
  <2>3. CASE SwitchEmits(next)
    <3>0. PICK b : b = OffcpuRecord(next, clock')
        OBVIOUS
    <3>1. b \in Event /\ next \in Threads
        BY <1>0, <2>3, <3>0, OffcpuRecordType DEF SwitchEmits
    <3>2. Records(sent2) \subseteq Records(sent) \cup {b}
        BY <1>0, <2>3, <3>0, <3>1, EmitAdds DEF SwitchEmits
    <3>3. Fits(sent, b)
        BY <1>5, <2>1, <2>3, <3>0, <3>1, OffcpuFits DEF SchedSwitch
    <3> QED
        BY <2>1, <3>2, <3>3, FittingAdded
  <2> QED
    BY <1>5, <2>2, <2>3, SwitchRecord DEF Base
<1>6. ASSUME NEW l \in LinkNames, Attach(l) \/ Detach(l) PROVE TimeInv(sent2)' /\ Apart(sent2)
  <2>1. UNCHANGED transport
    BY <1>6 DEF Attach, Detach
  <2> QED
    BY <1>1, <1>6, <2>1, LinkMoves, NothingAdded
<1>7. ASSUME Consume PROVE TimeInv(sent2)' /\ Apart(sent2)
  <2>1. TimeMoves /\ MovesOn /\ active' = active
    BY <1>7, StillMoves, SameClockMoves DEF Consume, maps, Live
  <2> QED
    BY <1>0, <1>7, <2>1, ConsumeTakes, NothingAdded
<1> QED
    BY <1>2, <1>3, <1>4, <1>5, <1>6, <1>7 DEF BpfNext, KernelStep

\* SchedInv, which SliceBpf_proofs proves on the way to OffcpuOnlyWhileOff.
LEMMA SchedHolds == BpfSpec => []SchedInv
<1>1. BpfInit => SchedInv
    BY DEF BpfInit, SchedInv, OffcpuOnlyWhileOff, NothingOpenYet
<1>2. BpfTypeOK /\ MapsMirror /\ SchedInv /\ [BpfNext]_bpfVars => SchedInv'
  <2>1. UNCHANGED bpfVars /\ SchedInv => SchedInv'
    BY DEF bpfVars, program, maps, SchedInv, OffcpuOnlyWhileOff, NothingOpenYet, Live
  <2> QED
    BY <2>1, SchedStep
<1> QED
    BY <1>1, <1>2, BpfTypeCorrect, MapsMirrorActive, PTL DEF BpfSpec

LEMMA BaseHolds == BpfSpec => []Base(ring)
BY BpfTypeCorrect, MapsMirrorActive, IdsAreUnique, SchedHolds, IdsHold, PTL DEF Base

\* The off-CPU time a record accounts for lies inside its invocation or
\* wholly after its end, for any number of threads, switches and clock steps.
THEOREM OffcpuStaysInside == BpfSpec => []OffcpuInsideInvocation
<1>1. BpfInit => TimeInv(ring) /\ Apart(ring)
    BY DEF BpfInit, TimeInv, Apart, Records, ActiveThreads, NoProbe
<1>2. Base(ring) /\ TimeInv(ring) /\ Apart(ring) /\ BpfTypeOK' /\ [BpfNext]_bpfVars
         => (TimeInv(ring) /\ Apart(ring))'
  <2>1. ASSUME UNCHANGED bpfVars, TimeInv(ring), Apart(ring) PROVE (TimeInv(ring) /\ Apart(ring))'
    <3>1. Records(ring)' = Records(ring) /\ ActiveThreads' = ActiveThreads
        BY <2>1 DEF bpfVars, transport, maps, Records, ActiveThreads
    <3> QED
        BY <2>1, <3>1
        DEF bpfVars, handlers, maps, TimeInv, Apart, ThreadTimes, RecordTimes, LeavesWhole, Live
  <2>2. ASSUME Base(ring), TimeInv(ring), Apart(ring), BpfTypeOK', BpfNext
        PROVE  (TimeInv(ring) /\ Apart(ring))'
    <3>1. PICK sent \in Seq(Event), sent2 \in Seq(Event) :
             sent = ring /\ sent2 = ring' /\ Grows(sent, sent2)
        BY <2>2, RingRecords DEF Base
    <3>2. Base(sent) /\ TimeInv(sent) /\ Apart(sent)
        BY <2>2, <3>1
    <3>3. TimeInv(sent2)' /\ Apart(sent2)
        BY <2>2, <3>1, <3>2, TimeStep
    <3> QED
        BY <3>1, <3>3 DEF TimeInv, Apart, Records, ActiveThreads, RecordTimes, LeavesWhole
  <2> QED
    BY <2>1, <2>2
<1>3. Apart(ring) => OffcpuInsideInvocation
    BY DEF Apart, Records, OffcpuInsideInvocation, Submitted, LeavesWhole
<1> QED
    BY <1>1, <1>2, <1>3, BpfTypeCorrect, BaseHolds, PTL DEF BpfSpec

-----------------------------------------------------------------------------
(* In what order the records follow each other *)

\* Nothing was lost before a step that loses nothing; what emit() was given is
\* then the last record.
LEMMA EmitAppends ==
    ASSUME NEW sent \in Seq(Event), NEW sent2 \in Seq(Event), Grows(sent, sent2),
           BpfTypeOK, NEW e \in Event, Emit(e), droppedEvents' = 0
    PROVE  droppedEvents = 0 /\ sent2 = Append(sent, e)
<1>1. droppedEvents \in Nat
    BY DEF BpfTypeOK
<1> QED
    BY <1>1 DEF Emit, Grows

LEMMA AppendedPositions ==
    ASSUME NEW sent \in Seq(Event), NEW sent2 \in Seq(Event), Grows(sent, sent2),
           BpfTypeOK, NEW e \in Event, sent2 = Append(sent, e)
    PROVE  /\ Len(sent) \in Nat /\ DOMAIN sent = 1..Len(sent)
           /\ DOMAIN sent2 = 1..(Len(sent) + 1)
           /\ \A i \in DOMAIN sent : i \in DOMAIN sent2 /\ sent2[i] = sent[i]
           /\ Len(sent) + 1 \in DOMAIN sent2 /\ sent2[Len(sent) + 1] = e
BY DEF BpfTypeOK

LEMMA TakenPositions ==
    ASSUME NEW sent \in Seq(Event), NEW sent2, sent # <<>>, sent2 = Tail(sent)
    PROVE  /\ DOMAIN sent2 \subseteq Nat /\ DOMAIN sent \subseteq Nat
           /\ \A i \in DOMAIN sent2 : i >= 1 /\ i + 1 \in DOMAIN sent /\ sent2[i] = sent[i + 1]
           /\ \A i \in DOMAIN sent : i >= 2 => i - 1 \in DOMAIN sent2 /\ sent2[i - 1] = sent[i]
OBVIOUS

\* slice_return reported the end of the invocation the record at i is about.
EndReported(r, i) == \E k \in DOMAIN r : k >= i /\ r[k].kind = "RETURN" /\ r[k].id = r[i].id

\* The thread is inside the invocation, announced and not yet ended.
Inside(t, id) == active[t] # None /\ active[t].id = id /\ pc[t] \notin {"announce", "clear"}

OverlapInv(sent) ==
    droppedEvents = 0 =>
       \A i \in DOMAIN sent :
          sent[i].kind = "ENTRY" => EndReported(sent, i) \/ Inside(sent[i].tid, sent[i].id)

\* InvocationsDoNotOverlap, of the records sent.
Separated(sent) ==
    \A i, j \in DOMAIN sent :
       (/\ sent[i].kind = "ENTRY" /\ sent[j].kind = "ENTRY"
        /\ i < j /\ sent[i].tid = sent[j].tid /\ droppedEvents = 0)
          => \E k \in DOMAIN sent :
                k \in i..j /\ sent[k].kind = "RETURN" /\ sent[k].id = sent[i].id

\* A step takes a thread out of an announced invocation only by reporting b,
\* and a reported ENTRY finds its thread outside all of them.
OpensAndCloses(b) ==
    /\ \A t \in Threads : \A id \in Nat :
          Inside(t, id) => Inside(t, id)' \/ (b.kind = "RETURN" /\ b.id = id)
    /\ b.kind = "ENTRY" => /\ Inside(b.tid, b.id)'
                           /\ \A id \in Nat : ~Inside(b.tid, id)

LEMMA OverlapAppended ==
    ASSUME NEW sent \in Seq(Event), NEW sent2 \in Seq(Event), Grows(sent, sent2),
           BpfTypeOK, OverlapInv(sent), Separated(sent), droppedEvents = 0,
           NEW b \in Event, sent2 = Append(sent, b), OpensAndCloses(b)
    PROVE  OverlapInv(sent2)' /\ Separated(sent2)'
<1> PICK last : last = Len(sent) + 1
    OBVIOUS
<1>0. /\ last - 1 \in Nat /\ DOMAIN sent = 1..(last - 1) /\ DOMAIN sent2 = 1..last
      /\ \A i \in DOMAIN sent : i \in DOMAIN sent2 /\ sent2[i] = sent[i]
      /\ last \in DOMAIN sent2 /\ sent2[last] = b
    BY AppendedPositions
<1>1. \A i \in DOMAIN sent : sent[i] \in Event
    BY RecordType DEF Records
<1>2. ASSUME NEW i \in DOMAIN sent, EndReported(sent, i) PROVE EndReported(sent2, i)
  <2>1. PICK k \in DOMAIN sent : k >= i /\ sent[k].kind = "RETURN" /\ sent[k].id = sent[i].id
    BY <1>2 DEF EndReported
  <2> QED
    BY <1>0, <2>1 DEF EndReported
<1>3. ASSUME NEW i \in DOMAIN sent, sent[i].kind = "ENTRY"
      PROVE  EndReported(sent2, i) \/ Inside(sent2[i].tid, sent2[i].id)'
  <2>1. PICK e \in Event : e = sent[i]
    BY <1>1
  <2>2. EndReported(sent, i) \/ Inside(e.tid, e.id)
    BY <1>3, <2>1 DEF OverlapInv
  <2>3. e.tid \in Threads /\ e.id \in Nat /\ sent2[i] = e
    BY <1>0, <2>1 DEF Event
  <2>4. CASE b.kind = "RETURN" /\ b.id = e.id
    BY <1>0, <2>1, <2>4 DEF EndReported
  <2>5. CASE Inside(e.tid, e.id)'
    BY <2>3, <2>5 DEF Inside
  <2> QED
    BY <1>2, <2>2, <2>3, <2>4, <2>5 DEF OpensAndCloses
<1>4. ASSUME b.kind = "ENTRY" PROVE Inside(sent2[last].tid, sent2[last].id)'
  <2>1. Inside(b.tid, b.id)'
    BY <1>4 DEF OpensAndCloses
  <2> QED
    BY <1>0, <2>1 DEF Inside
<1>5. OverlapInv(sent2)'
  <2>1. ASSUME NEW i \in DOMAIN sent2, sent2[i].kind = "ENTRY"
        PROVE  EndReported(sent2, i) \/ Inside(sent2[i].tid, sent2[i].id)'
    <3>1. CASE i \in DOMAIN sent
        BY <1>0, <1>3, <2>1, <3>1
    <3>2. CASE i \notin DOMAIN sent
      <4>1. i = last
        BY <1>0, <3>2
      <4> QED
        BY <1>0, <1>4, <2>1, <4>1
    <3> QED
        BY <3>1, <3>2
  <2> QED
    BY <2>1 DEF OverlapInv
<1>6. ASSUME NEW i \in DOMAIN sent2, NEW j \in DOMAIN sent2, i < j,
             sent2[i].kind = "ENTRY", sent2[j].kind = "ENTRY", sent2[i].tid = sent2[j].tid
      PROVE  \E k \in DOMAIN sent2 : k \in i..j /\ sent2[k].kind = "RETURN"
                                     /\ sent2[k].id = sent2[i].id
  <2>1. i \in DOMAIN sent
    BY <1>0, <1>6
  <2>2. CASE j \in DOMAIN sent
    <3>1. sent[i].kind = "ENTRY" /\ sent[j].kind = "ENTRY" /\ sent[i].tid = sent[j].tid
        BY <1>0, <1>6, <2>1, <2>2
    <3>2. PICK k \in DOMAIN sent : k \in i..j /\ sent[k].kind = "RETURN" /\ sent[k].id = sent[i].id
        BY <1>6, <2>1, <2>2, <3>1 DEF Separated
    <3> QED
        BY <1>0, <2>1, <3>2
  <2>3. CASE j \notin DOMAIN sent
    <3>1. j = last /\ sent[i].kind = "ENTRY" /\ b.kind = "ENTRY" /\ sent[i].tid = b.tid
        BY <1>0, <1>6, <2>1, <2>3
    <3>2. sent[i].id \in Nat
        BY <1>1, <2>1 DEF Event
    <3>3. EndReported(sent, i)
      <4>0. \A id \in Nat : ~Inside(b.tid, id)
        BY <3>1 DEF OpensAndCloses
      <4>1. ~Inside(sent[i].tid, sent[i].id)
        BY <3>1, <3>2, <4>0 DEF Inside
      <4> QED
        BY <2>1, <3>1, <4>1 DEF OverlapInv
    <3>4. PICK k \in DOMAIN sent : k >= i /\ sent[k].kind = "RETURN" /\ sent[k].id = sent[i].id
        BY <3>3 DEF EndReported
    <3>5. k \in i..j
        BY <1>0, <2>1, <3>1, <3>4
    <3> QED
        BY <1>0, <2>1, <3>4, <3>5
  <2> QED
    BY <2>2, <2>3
<1> QED
    BY <1>5, <1>6 DEF Separated

\* A step that reports nothing.
LEMMA OverlapKept ==
    ASSUME NEW sent \in Seq(Event), NEW sent2 \in Seq(Event), OverlapInv(sent), Separated(sent), sent2 = sent, droppedEvents' = droppedEvents, BpfTypeOK,
           \A t \in Threads : \A id \in Nat : Inside(t, id) => Inside(t, id)'
    PROVE  OverlapInv(sent2)' /\ Separated(sent2)'
<1>1. sent2 = sent /\ droppedEvents' = droppedEvents
    OBVIOUS
<1>2. ASSUME droppedEvents = 0, NEW i \in DOMAIN sent, sent[i].kind = "ENTRY"
      PROVE  EndReported(sent, i) \/ Inside(sent2[i].tid, sent2[i].id)'
  <2>1. PICK e \in Event : e = sent[i]
    BY RecordType DEF Records
  <2>2. EndReported(sent, i) \/ Inside(e.tid, e.id)
    BY <1>2, <2>1 DEF OverlapInv
  <2>3. e.tid \in Threads /\ e.id \in Nat /\ sent2[i] = e
    BY <1>1, <2>1 DEF Event
  <2>4. CASE Inside(e.tid, e.id)'
    BY <2>3, <2>4 DEF Inside
  <2> QED
    BY <2>2, <2>3, <2>4
<1>3. OverlapInv(sent2)'
    BY <1>1, <1>2 DEF OverlapInv
<1> QED
    BY <1>1, <1>3 DEF Separated

LEMMA OverlapTaken ==
    ASSUME NEW sent \in Seq(Event), NEW sent2, sent # <<>>, sent2 = Tail(sent),
           OverlapInv(sent), Separated(sent), UNCHANGED <<active, pc, droppedEvents>>
    PROVE  OverlapInv(sent2)' /\ Separated(sent2)'
<1>0. /\ DOMAIN sent2 \subseteq Nat /\ DOMAIN sent \subseteq Nat
      /\ \A i \in DOMAIN sent2 : i >= 1 /\ i + 1 \in DOMAIN sent /\ sent2[i] = sent[i + 1]
      /\ \A i \in DOMAIN sent : i >= 2 => i - 1 \in DOMAIN sent2 /\ sent2[i - 1] = sent[i]
    BY TakenPositions
<1>1. active' = active /\ pc' = pc /\ droppedEvents' = droppedEvents
    OBVIOUS
<1>3. ASSUME droppedEvents = 0, NEW i \in DOMAIN sent2, sent2[i].kind = "ENTRY"
      PROVE  EndReported(sent2, i) \/ Inside(sent2[i].tid, sent2[i].id)'
  <2>1. i + 1 \in DOMAIN sent /\ sent2[i] = sent[i + 1]
    BY <1>0
  <2>2. CASE Inside(sent[i + 1].tid, sent[i + 1].id)
    BY <1>1, <2>1, <2>2 DEF Inside
  <2>3. CASE EndReported(sent, i + 1)
    <3>1. PICK k \in DOMAIN sent : /\ k >= i + 1 /\ sent[k].kind = "RETURN"
                                   /\ sent[k].id = sent[i + 1].id
        BY <2>3 DEF EndReported
    <3>2. k - 1 \in DOMAIN sent2 /\ k - 1 >= i /\ sent2[k - 1] = sent[k]
        BY <1>0, <3>1
    <3> QED
        BY <2>1, <3>1, <3>2 DEF EndReported
  <2> QED
    BY <1>3, <2>1, <2>2, <2>3 DEF OverlapInv
<1>4. OverlapInv(sent2)'
    BY <1>1, <1>3 DEF OverlapInv
<1>5. ASSUME droppedEvents = 0, NEW i \in DOMAIN sent2, NEW j \in DOMAIN sent2, i < j,
             sent2[i].kind = "ENTRY", sent2[j].kind = "ENTRY", sent2[i].tid = sent2[j].tid
      PROVE  \E k \in DOMAIN sent2 : k \in i..j /\ sent2[k].kind = "RETURN"
                                     /\ sent2[k].id = sent2[i].id
  <2>1. /\ i + 1 \in DOMAIN sent /\ sent2[i] = sent[i + 1]
        /\ j + 1 \in DOMAIN sent /\ sent2[j] = sent[j + 1] /\ i + 1 < j + 1
    BY <1>0, <1>5
  <2>2. PICK k \in DOMAIN sent : /\ k \in (i + 1)..(j + 1) /\ sent[k].kind = "RETURN"
                                 /\ sent[k].id = sent[i + 1].id
    BY <1>5, <2>1 DEF Separated
  <2>3. k - 1 \in DOMAIN sent2 /\ k - 1 \in i..j /\ sent2[k - 1] = sent[k]
    BY <1>0, <2>2
  <2> QED
    BY <2>1, <2>2, <2>3
<1> QED
    BY <1>1, <1>4, <1>5 DEF Separated

\* No step but ReturnEmitted takes a thread out of an announced invocation:
\* slice_entry refuses a thread that is inside one.
LEMMA StaysInside ==
    ASSUME BpfTypeOK, NEW s \in Threads,
           ProgramStep(s) \/ (HandlerStep(s) /\ ~ReturnEmitted(s)) \/ SampleTaken(s)
    PROVE  \A t \in Threads : \A id \in Nat : Inside(t, id) => Inside(t, id)'
<1>1. CASE UNCHANGED <<active, pc>>
    BY <1>1 DEF Inside
<1>2. CASE ProgramStep(s)
    BY <1>2 DEF ProgramStep, Call, Return, ThreadExit, InUser, maps, handlers, BpfTypeOK, Inside
<1>3. CASE HandlerStep(s) /\ ~ReturnEmitted(s)
    BY <1>3
    DEF HandlerStep, EntryRejected, EntryInstalled, EntryRefused, EntryAnnounced, ReturnUnmatched,
        ReturnCleared, WithoutActive, Occupied, Goto, maps, BpfTypeOK, Inside
<1> QED
    BY <1>1, <1>2, <1>3 DEF SampleTaken, maps, handlers

\* A record other than ENTRY of a step that keeps threads inside.
LEMMA OverlapReported ==
    ASSUME NEW sent \in Seq(Event), NEW sent2 \in Seq(Event), Grows(sent, sent2),
           BpfTypeOK, OverlapInv(sent), Separated(sent), NEW b \in Event, Emit(b),
           OpensAndCloses(b)
    PROVE  OverlapInv(sent2)' /\ Separated(sent2)'
<1>1. CASE droppedEvents' = 0
    BY <1>1, EmitAppends, OverlapAppended
<1>2. CASE droppedEvents' # 0
    BY <1>2 DEF OverlapInv, Separated
<1> QED
    BY <1>1, <1>2

LEMMA OverlapStep ==
    ASSUME NEW sent \in Seq(Event), NEW sent2 \in Seq(Event), Grows(sent, sent2),
           Base(sent), OverlapInv(sent), Separated(sent), BpfNext
    PROVE  OverlapInv(sent2)' /\ Separated(sent2)'
<1>0. BpfTypeOK
    BY DEF Base
<1>9. UNCHANGED transport => sent2 = sent /\ droppedEvents' = droppedEvents
    BY TransportKept
<1>1. ASSUME NEW t \in Threads, ProgramStep(t) PROVE OverlapInv(sent2)' /\ Separated(sent2)'
  <2>1. UNCHANGED transport
    BY <1>1 DEF ProgramStep, Call, Return, ThreadExit
  <2> QED
    BY <1>0, <1>1, <1>9, <2>1, StaysInside, OverlapKept
<1>2. ASSUME NEW t \in Threads, HandlerStep(t) PROVE OverlapInv(sent2)' /\ Separated(sent2)'
  <2>1. CASE EntryInstalled(t) \/ EntryRefused(t) \/ ReturnCleared(t)
    <3>1. UNCHANGED transport /\ ~ReturnEmitted(t)
        BY <2>1 DEF EntryInstalled, EntryRefused, ReturnCleared, ReturnEmitted
    <3> QED
        BY <1>0, <1>2, <1>9, <3>1, StaysInside, OverlapKept
  <2>2. CASE EntryRejected(t) \/ ReturnUnmatched(t)
    <3> DEFINE b == Boundary("VIOLATION", t, 0)
    <3>1. b \in Event /\ b.kind = "VIOLATION"
        BY <1>0, BoundaryType DEF Kinds, Boundary
    <3>2. Emit(b)
        BY <2>2 DEF EntryRejected, ReturnUnmatched
    <3>3. ~ReturnEmitted(t)
        BY <2>2 DEF EntryRejected, ReturnUnmatched, ReturnEmitted
    <3> HIDE DEF b
    <3>4. OpensAndCloses(b)
        BY <1>0, <1>2, <3>1, <3>3, StaysInside DEF OpensAndCloses
    <3> QED
        BY <1>0, <3>1, <3>2, <3>4, OverlapReported
  <2>3. CASE EntryAnnounced(t)
    <3>1. active[t] \in Active /\ pc[t] = "announce" /\ active[t] # None
        BY <2>3 DEF EntryAnnounced, EntryHeld, BpfTypeOK, Base
    <3>2. PICK b \in Event : b = Boundary("ENTRY", t, active[t].id)
        BY <1>0, <3>1, BoundaryType DEF Kinds, Active
    <3>3. b.kind = "ENTRY" /\ b.id = active[t].id /\ b.tid = t /\ Emit(b)
        BY <2>3, <3>2 DEF EntryAnnounced, Boundary
    <3>4. Inside(b.tid, b.id)'
        BY <1>0, <2>3, <3>1, <3>3 DEF EntryAnnounced, Goto, maps, Inside, BpfTypeOK
    <3>5. \A id \in Nat : ~Inside(b.tid, id)
        BY <3>1, <3>3 DEF Inside
    <3>6. \A s \in Threads : \A id \in Nat : Inside(s, id) => Inside(s, id)'
        BY <1>0, <1>2, <3>1, StaysInside DEF ReturnEmitted
    <3>7. OpensAndCloses(b)
        BY <3>4, <3>5, <3>6 DEF OpensAndCloses
    <3> QED
        BY <1>0, <3>3, <3>7, OverlapReported
  <2>4. CASE ReturnEmitted(t)
    <3>1. active[t] \in Active /\ pc[t] = "return" /\ active[t] # None
        BY <2>4 DEF ReturnEmitted, BpfTypeOK, Base
    <3>2. PICK b \in Event : b = Boundary("RETURN", t, active[t].id)
        BY <1>0, <3>1, BoundaryType DEF Kinds, Active
    <3>3. b.kind = "RETURN" /\ b.id = active[t].id /\ Emit(b)
        BY <2>4, <3>2 DEF ReturnEmitted, Boundary
    <3>4. \A s \in Threads : \A id \in Nat : Inside(s, id) => Inside(s, id)' \/ b.id = id
        BY <1>0, <2>4, <3>3 DEF ReturnEmitted, Goto, maps, Inside, BpfTypeOK
    <3>5. OpensAndCloses(b)
        BY <3>3, <3>4 DEF OpensAndCloses
    <3> QED
        BY <1>0, <3>3, <3>5, OverlapReported
  <2> QED
    BY <1>2, <2>1, <2>2, <2>3, <2>4 DEF HandlerStep
<1>3. ASSUME NEW t \in Threads, SampleTaken(t) PROVE OverlapInv(sent2)' /\ Separated(sent2)'
  <2>1. PICK now \in Readings, stack \in Stacks \cup {NoStack} :
           IF stack = NoStack
           THEN UNCHANGED transport
           ELSE Emit(StackRecord("SAMPLE", t, now, stack, SamplePeriod))
    BY <1>3 DEF SampleTaken
  <2> DEFINE b == StackRecord("SAMPLE", t, now, stack, SamplePeriod)
  <2>2. b \in Event /\ b.kind = "SAMPLE"
    BY <1>0, <1>3, ReadingsType, StackRecordType, BoundAssumption
    DEF Kinds, StackRecord, SampleTaken
  <2>3. UNCHANGED transport \/ Emit(b)
    BY <2>1
  <2> HIDE DEF b
  <2>4. \A s \in Threads : \A id \in Nat : Inside(s, id) => Inside(s, id)'
    BY <1>0, <1>3, StaysInside
  <2>5. OpensAndCloses(b)
    BY <2>2, <2>4 DEF OpensAndCloses
  <2> QED
    BY <1>0, <1>9, <2>2, <2>3, <2>4, <2>5, OverlapKept, OverlapReported
<1>4. ASSUME NEW prev \in Threads \cup {Other}, NEW next \in Threads \cup {Other},
             SchedSwitch(prev, next)
      PROVE  OverlapInv(sent2)' /\ Separated(sent2)'
  <2>1. \A s \in Threads : \A id \in Nat : Inside(s, id) => Inside(s, id)'
    BY <1>4 DEF SchedSwitch, handlers, Inside
  <2>2. CASE UNCHANGED transport
    BY <1>0, <1>9, <2>1, <2>2, OverlapKept
  <2>3. CASE SwitchEmits(next)
    <3>0. PICK b : b = OffcpuRecord(next, clock')
        OBVIOUS
    <3>1. b \in Event /\ b.kind = "OFFCPU" /\ Emit(b)
        BY <1>0, <2>3, <3>0, OffcpuRecordType DEF SwitchEmits
    <3>2. OpensAndCloses(b)
        BY <2>1, <3>1 DEF OpensAndCloses
    <3> QED
        BY <1>0, <3>1, <3>2, OverlapReported
  <2> QED
    BY <1>4, <2>2, <2>3, SwitchRecord DEF Base
<1>5. ASSUME NEW l \in LinkNames, Attach(l) \/ Detach(l)
      PROVE  OverlapInv(sent2)' /\ Separated(sent2)'
  <2>1. UNCHANGED transport
    BY <1>5 DEF Attach, Detach
  <2>2. \A s \in Threads : \A id \in Nat : Inside(s, id) => Inside(s, id)'
    BY <1>5 DEF Attach, Detach, handlers, maps, Inside
  <2> QED
    BY <1>0, <1>9, <2>1, <2>2, OverlapKept
<1>6. ASSUME Consume PROVE OverlapInv(sent2)' /\ Separated(sent2)'
  <2>1. UNCHANGED <<active, pc, droppedEvents>>
    BY <1>6 DEF Consume, maps, handlers
  <2>2. CASE sent2 = sent
    <3>1. \A s \in Threads : \A id \in Nat : Inside(s, id) => Inside(s, id)'
        BY <2>1 DEF Inside
    <3> QED
        BY <1>0, <2>1, <2>2, <3>1, OverlapKept
  <2>3. CASE sent # <<>> /\ sent2 = Tail(sent)
    BY <2>1, <2>3, OverlapTaken
  <2> QED
    BY <1>6, <2>2, <2>3 DEF Grows
<1> QED
    BY <1>1, <1>2, <1>3, <1>4, <1>5, <1>6 DEF BpfNext, KernelStep

\* Between two accepted entries of a thread slice_return reported the end of
\* the first, for any number of threads and calls, unless records were lost.
THEOREM EntriesAreSeparated == BpfSpec => []InvocationsDoNotOverlap
<1>1. BpfInit => OverlapInv(ring) /\ Separated(ring)
    BY DEF BpfInit, OverlapInv, Separated
<1>2. Base(ring) /\ OverlapInv(ring) /\ Separated(ring) /\ BpfTypeOK' /\ [BpfNext]_bpfVars
         => (OverlapInv(ring) /\ Separated(ring))'
  <2>1. ASSUME UNCHANGED bpfVars, OverlapInv(ring), Separated(ring)
        PROVE  (OverlapInv(ring) /\ Separated(ring))'
    BY <2>1
    DEF bpfVars, handlers, maps, transport, OverlapInv, Separated, EndReported, Inside
  <2>2. ASSUME Base(ring), OverlapInv(ring), Separated(ring), BpfTypeOK', BpfNext
        PROVE  (OverlapInv(ring) /\ Separated(ring))'
    <3>1. PICK sent \in Seq(Event), sent2 \in Seq(Event) :
             sent = ring /\ sent2 = ring' /\ Grows(sent, sent2)
        BY <2>2, RingRecords DEF Base
    <3>2. Base(sent) /\ OverlapInv(sent) /\ Separated(sent)
        BY <2>2, <3>1
    <3>3. OverlapInv(sent2)' /\ Separated(sent2)'
        BY <2>2, <3>1, <3>2, OverlapStep
    <3> QED
        BY <3>1, <3>3 DEF OverlapInv, Separated, EndReported, Inside
  <2> QED
    BY <2>1, <2>2
<1>3. Separated(ring) => InvocationsDoNotOverlap
    BY DEF Separated, InvocationsDoNotOverlap, Submitted
<1> QED
    BY <1>1, <1>2, <1>3, BpfTypeCorrect, BaseHolds, PTL DEF BpfSpec

-----------------------------------------------------------------------------
(* Frames, hijacked and not *)

\* The probes on the function come before the records they cause, and
\* slice_return is registered whenever slice_entry is live or was detached.
LinkInv(sent) ==
    /\ link["return"] = "gone" => link["entry"] = "gone"
    /\ link["entry"] = "new" => /\ \A e \in Records(sent) : e.kind # "ENTRY"
                                /\ \A t \in Threads : pc[t] \notin {"entry", "announce"}

\* A frame is hijacked only once the return probe is registered, and then so is
\* every frame above it, while it is.  slice_entry runs for the innermost call.
Hijacked(t) ==
    /\ \A m \in DOMAIN frames[t] : frames[t][m].ret => link["return"] # "new"
    /\ link["return"] # "gone" =>
          \A m, n \in DOMAIN frames[t] : (m < n /\ frames[t][m].ret) => frames[t][n].ret

AtTop(t) ==
    pc[t] \in {"entry", "announce"} =>
       frames[t] # <<>> /\ frames[t][Len(frames[t])].call = probe[t].call

FrameInv == \A t \in Threads : Hijacked(t) /\ AtTop(t)

LEMMA LinksAreNames ==
    /\ "entry" \in LinkNames /\ "return" \in LinkNames
    /\ "sched" \in LinkNames /\ "perf" \in LinkNames
<1>1. AttachOrder[1] = "entry" /\ AttachOrder[2] = "return" /\ AttachOrder[3] = "sched"
      /\ AttachOrder[4] = "perf"
    BY DEF AttachOrder
<1> QED
    BY <1>1 DEF LinkNames

\* The probes are attached and dropped one at a time, slice_entry dropped first.
LEMMA LinkStep ==
    ASSUME BpfTypeOK, NEW l \in LinkNames, Attach(l) \/ Detach(l)
    PROVE  /\ \A m \in LinkNames : m # l => link'[m] = link[m]
           /\ \/ link[l] = "new" /\ link'[l] = "live"
              \/ link[l] = "live" /\ link'[l] = "gone"
           /\ (l = "return" /\ link'[l] = "gone") => link["entry"] = "gone"
<1>1. link \in [LinkNames -> {"new", "live", "gone"}]
    BY DEF BpfTypeOK
<1>2. CASE Attach(l)
    BY <1>1, <1>2 DEF Attach
<1>3. CASE Detach(l)
  <2>1. PICK i \in 1..4 : /\ DetachOrder[i] = l
                          /\ \A j \in 1..(i - 1) : link[DetachOrder[j]] = "gone"
    BY <1>3 DEF Detach
  <2>2. l = "return" => i = 3
    BY <2>1 DEF DetachOrder
  <2>3. l = "return" => link[DetachOrder[2]] = "gone"
    BY <2>1, <2>2
  <2>4. DetachOrder[2] = "entry"
    BY DEF DetachOrder
  <2> QED
    BY <1>1, <1>3, <2>3, <2>4 DEF Detach, Live
<1> QED
    BY <1>2, <1>3

LEMMA LinkInvStep ==
    ASSUME NEW sent \in Seq(Event), NEW sent2 \in Seq(Event), Grows(sent, sent2),
           Base(sent), LinkInv(sent), BpfNext
    PROVE  LinkInv(sent2)'
<1>0. BpfTypeOK
    BY DEF Base
<1>1. ASSUME UNCHANGED link,
             link["entry"] = "new" => /\ Records(sent2) \subseteq Records(sent)
                                      /\ \A t \in Threads : pc'[t] = pc[t] \/ pc'[t] \in {"user", "return", "clear"}
      PROVE  LinkInv(sent2)'
    BY <1>1 DEF LinkInv
<1>2. UNCHANGED transport => Records(sent2) = Records(sent)
    BY TransportKept
<1>3. ASSUME NEW t \in Threads, ProgramStep(t) PROVE LinkInv(sent2)'
  <2>1. UNCHANGED link /\ UNCHANGED transport
    BY <1>3 DEF ProgramStep, Call, Return, ThreadExit
  <2>2. link["entry"] = "new" =>
           \A s \in Threads : pc'[s] = pc[s] \/ pc'[s] \in {"user", "return", "clear"}
    BY <1>0, <1>3 DEF ProgramStep, Call, Return, ThreadExit, Live, handlers, BpfTypeOK
  <2> QED
    BY <1>1, <1>2, <2>1, <2>2
<1>4. ASSUME NEW t \in Threads, HandlerStep(t) PROVE LinkInv(sent2)'
  <2>1. UNCHANGED link
    BY <1>4
    DEF HandlerStep, EntryRejected, EntryInstalled, EntryRefused, EntryAnnounced, ReturnUnmatched,
        ReturnEmitted, ReturnCleared
  <2>2. CASE link["entry"] # "new"
    BY <2>1, <2>2 DEF LinkInv
  <2>3. CASE link["entry"] = "new"
    <3>1. pc[t] \notin {"entry", "announce"} /\ \A e \in Records(sent) : e.kind # "ENTRY"
        BY <2>3 DEF LinkInv
    <3>2. \A s \in Threads : pc'[s] = pc[s] \/ pc'[s] \in {"user", "return", "clear"}
        BY <1>0, <1>4, <3>1
        DEF HandlerStep, EntryRejected, EntryInstalled, EntryRefused, EntryAnnounced,
            ReturnUnmatched, ReturnEmitted, ReturnCleared, Goto, BpfTypeOK
    <3>3. \A e \in Records(sent2) : e.kind # "ENTRY"
      <4>1. CASE ReturnUnmatched(t)
        <5>1. Boundary("VIOLATION", t, 0) \in Event
            BY <1>0, BoundaryType DEF Kinds
        <5>2. Records(sent2) \subseteq Records(sent) \cup {Boundary("VIOLATION", t, 0)}
            BY <1>0, <4>1, <5>1, EmitAdds DEF ReturnUnmatched
        <5> QED
            BY <3>1, <5>2 DEF Boundary
      <4>2. CASE ReturnEmitted(t)
        <5>1. active[t] \in Active
            BY <1>0, <4>2 DEF ReturnEmitted, BpfTypeOK
        <5>2. Boundary("RETURN", t, active[t].id) \in Event
            BY <1>0, <5>1, BoundaryType DEF Kinds, Active
        <5>3. Records(sent2) \subseteq Records(sent) \cup {Boundary("RETURN", t, active[t].id)}
            BY <1>0, <4>2, <5>2, EmitAdds DEF ReturnEmitted
        <5> QED
            BY <3>1, <5>3 DEF Boundary
      <4>3. CASE ReturnCleared(t)
        BY <1>2, <3>1, <4>3 DEF ReturnCleared
      <4> QED
        BY <1>4, <3>1, <4>1, <4>2, <4>3
        DEF HandlerStep, EntryRejected, EntryInstalled, EntryRefused, EntryAnnounced
    <3> QED
        BY <2>1, <3>1, <3>2, <3>3 DEF LinkInv
  <2> QED
    BY <2>2, <2>3
<1>5. ASSUME NEW t \in Threads, SampleTaken(t) PROVE LinkInv(sent2)'
  <2>1. PICK now \in Readings, stack \in Stacks \cup {NoStack} :
           IF stack = NoStack
           THEN UNCHANGED transport
           ELSE Emit(StackRecord("SAMPLE", t, now, stack, SamplePeriod))
    BY <1>5 DEF SampleTaken
  <2> DEFINE b == StackRecord("SAMPLE", t, now, stack, SamplePeriod)
  <2>2. b \in Event /\ b.kind = "SAMPLE"
    BY <1>0, <1>5, ReadingsType, StackRecordType, BoundAssumption
    DEF Kinds, StackRecord, SampleTaken
  <2>3. Records(sent2) \subseteq Records(sent) \cup {b}
    BY <1>0, <1>2, <2>1, <2>2, EmitAdds
  <2> HIDE DEF b
  <2> QED
    BY <1>5, <2>2, <2>3 DEF SampleTaken, handlers, LinkInv
<1>6. ASSUME NEW prev \in Threads \cup {Other}, NEW next \in Threads \cup {Other},
             SchedSwitch(prev, next)
      PROVE  LinkInv(sent2)'
  <2>1. UNCHANGED link /\ UNCHANGED handlers
    BY <1>6 DEF SchedSwitch
  <2>2. CASE UNCHANGED transport
    BY <1>1, <1>2, <2>1, <2>2 DEF handlers
  <2>3. CASE SwitchEmits(next)
    <3>0. PICK b : b = OffcpuRecord(next, clock')
        OBVIOUS
    <3>1. b \in Event /\ b.kind = "OFFCPU"
        BY <1>0, <2>3, <3>0, OffcpuRecordType DEF SwitchEmits
    <3>2. Records(sent2) \subseteq Records(sent) \cup {b}
        BY <1>0, <2>3, <3>0, <3>1, EmitAdds DEF SwitchEmits
    <3> QED
        BY <2>1, <3>1, <3>2 DEF handlers, LinkInv
  <2> QED
    BY <1>6, <2>2, <2>3, SwitchRecord DEF Base
<1>7. ASSUME NEW l \in LinkNames, Attach(l) \/ Detach(l) PROVE LinkInv(sent2)'
  <2>1. UNCHANGED <<transport, handlers>>
    BY <1>7 DEF Attach, Detach
  <2>2. "entry" \in LinkNames /\ "return" \in LinkNames /\ link'["return"] \in {"new", "live", "gone"}
    BY <1>0, <1>7, LinksAreNames, TypeStep DEF BpfNext, Base, BpfTypeOK
  <2>3. /\ \A m \in LinkNames : m # l => link'[m] = link[m]
        /\ \/ link[l] = "new" /\ link'[l] = "live"
           \/ link[l] = "live" /\ link'[l] = "gone"
        /\ (l = "return" /\ link'[l] = "gone") => link["entry"] = "gone"
    BY <1>0, <1>7, LinkStep
  <2> QED
    BY <1>2, <2>1, <2>2, <2>3 DEF LinkInv, handlers
<1>8. ASSUME Consume PROVE LinkInv(sent2)'
    BY <1>0, <1>1, <1>8, ConsumeTakes DEF Consume, handlers
<1> QED
    BY <1>3, <1>4, <1>5, <1>6, <1>7, <1>8 DEF BpfNext, KernelStep

\* A call is hijacked if the frames below it were and the probe is still there.
LEMMA CallFrames ==
    ASSUME NEW sent \in Seq(Event),
           Base(sent), FrameInv, NEW t \in Threads, Call(t)
    PROVE  FrameInv'
<1>0. BpfTypeOK
    BY DEF Base
<1> DEFINE new == [call |-> calls + 1, ret |-> Live("return")]
           depth == Len(frames[t])
<1>1. frames[t] \in Seq(Frame) /\ link' = link
    BY <1>0 DEF BpfTypeOK, Call
<1>2. frames' = [frames EXCEPT ![t] = Append(frames[t], new)] /\ calls' = calls + 1
    BY DEF Call
<1>3. frames'[t] = Append(frames[t], new) /\ \A s \in Threads : s # t => frames'[s] = frames[s]
    BY <1>0, <1>2 DEF BpfTypeOK
<1>4. /\ depth \in Nat /\ DOMAIN frames[t] = 1..depth /\ DOMAIN frames'[t] = 1..(depth + 1)
      /\ \A m \in 1..depth : frames'[t][m] = frames[t][m]
      /\ frames'[t][depth + 1] = new /\ Len(frames'[t]) = depth + 1 /\ frames'[t] # <<>>
    BY <1>1, <1>3
<1>5. new.ret = Live("return") /\ new.call = calls + 1
    OBVIOUS
<1> HIDE DEF new, depth
<1>6. ASSUME NEW s \in Threads PROVE Hijacked(s)'
  <2>1. CASE s = t
    <3>1. \A m \in DOMAIN frames'[t] : frames'[t][m].ret => link["return"] # "new"
      <4>1. new.ret => link["return"] # "new"
        BY <1>5 DEF Live
      <4>2. \A m \in 1..depth : frames[t][m].ret => link["return"] # "new"
        BY <1>4 DEF FrameInv, Hijacked
      <4> QED
        BY <1>4, <4>1, <4>2
    <3>2. ASSUME link["return"] # "gone", NEW m \in DOMAIN frames'[t], NEW n \in DOMAIN frames'[t],
                 m < n, frames'[t][m].ret
          PROVE  frames'[t][n].ret
      <4>1. m \in 1..depth /\ frames[t][m].ret
        BY <1>4, <3>2
      <4>2. CASE n \in 1..depth
        BY <1>4, <3>2, <4>1, <4>2 DEF FrameInv, Hijacked
      <4>3. CASE n = depth + 1
        <5>1. link["return"] # "new"
            BY <1>4, <4>1 DEF FrameInv, Hijacked
        <5>2. link["return"] \in {"new", "live", "gone"}
            BY <1>0, LinksAreNames DEF BpfTypeOK
        <5>3. new.ret
            BY <1>5, <3>2, <5>1, <5>2 DEF Live
        <5> QED
            BY <1>4, <4>3, <5>3
      <4> QED
        BY <1>4, <4>2, <4>3
    <3> QED
        BY <1>1, <2>1, <3>1, <3>2 DEF Hijacked
  <2>2. CASE s # t
    BY <1>1, <1>3, <2>2 DEF FrameInv, Hijacked
  <2> QED
    BY <2>1, <2>2
<1>7. ASSUME NEW s \in Threads PROVE AtTop(s)'
  <2>1. CASE s # t
    <3>1. pc'[s] = pc[s] /\ probe'[s] = probe[s]
        BY <1>0, <2>1 DEF Call, handlers, BpfTypeOK
    <3> QED
        BY <1>3, <2>1, <3>1 DEF FrameInv, AtTop
  <2>2. CASE s = t
    <3>1. pc'[t] \in {"entry", "announce"} => probe'[t].call = calls'
        BY <1>0 DEF Call, InUser, handlers, BpfTypeOK
    <3> QED
        BY <1>2, <1>4, <1>5, <2>2, <3>1 DEF AtTop
  <2> QED
    BY <2>1, <2>2
<1> QED
    BY <1>6, <1>7 DEF FrameInv

LEMMA ReturnPositions ==
    ASSUME BpfTypeOK, NEW t \in Threads, Return(t)
    PROVE  /\ Len(frames[t]) \in Nat /\ Len(frames[t]) >= 1
           /\ DOMAIN frames[t] = 1..Len(frames[t])
           /\ DOMAIN frames'[t] = 1..(Len(frames[t]) - 1)
           /\ \A m \in DOMAIN frames'[t] : m \in DOMAIN frames[t] /\ frames'[t][m] = frames[t][m]
           /\ \A s \in Threads : s # t => frames'[s] = frames[s]
<1>1. frames[t] \in Seq(Frame) /\ frames[t] # <<>>
    BY DEF BpfTypeOK, Return
<1>2. frames' = [frames EXCEPT ![t] = SubSeq(frames[t], 1, Len(frames[t]) - 1)]
    BY DEF Return
<1>3. frames'[t] = SubSeq(frames[t], 1, Len(frames[t]) - 1)
      /\ \A s \in Threads : s # t => frames'[s] = frames[s]
    BY <1>2 DEF BpfTypeOK
<1> QED
    BY <1>1, <1>3

LEMMA FrameStep ==
    ASSUME NEW sent \in Seq(Event),
           Base(sent), LinkInv(sent), FrameInv, BpfNext
    PROVE  FrameInv'
<1>0. BpfTypeOK
    BY DEF Base
<1>1. ASSUME UNCHANGED <<link, frames, probe>>,
             \A s \in Threads : pc'[s] \in {"entry", "announce"} => pc[s] \in {"entry", "announce"}
      PROVE  FrameInv'
    BY <1>1 DEF FrameInv, Hijacked, AtTop
<1>2. ASSUME NEW t \in Threads, Return(t) PROVE FrameInv'
  <2>1. /\ DOMAIN frames'[t] = 1..(Len(frames[t]) - 1)
        /\ \A m \in DOMAIN frames'[t] : m \in DOMAIN frames[t] /\ frames'[t][m] = frames[t][m]
        /\ \A s \in Threads : s # t => frames'[s] = frames[s]
    BY <1>0, <1>2, ReturnPositions
  <2>2. link' = link /\ pc'[t] \notin {"entry", "announce"}
    BY <1>0, <1>2 DEF Return, InUser, handlers, BpfTypeOK
  <2>3. \A s \in Threads : s # t => pc'[s] = pc[s] /\ probe'[s] = probe[s]
    BY <1>0, <1>2 DEF Return, handlers, BpfTypeOK
  <2>4. Hijacked(t)'
    BY <2>1, <2>2 DEF FrameInv, Hijacked
  <2>5. \A s \in Threads : s # t => Hijacked(s)'
    BY <2>1, <2>2 DEF FrameInv, Hijacked
  <2>6. AtTop(t)'
    BY <2>2 DEF AtTop
  <2>7. \A s \in Threads : s # t => AtTop(s)'
    BY <2>1, <2>3 DEF FrameInv, AtTop
  <2> QED
    BY <2>4, <2>5, <2>6, <2>7 DEF FrameInv
<1>3. ASSUME NEW t \in Threads, ThreadExit(t) PROVE FrameInv'
  <2>1. /\ frames'[t] = <<>> /\ \A s \in Threads : s # t => frames'[s] = frames[s]
        /\ link' = link /\ pc' = pc /\ probe' = probe /\ pc[t] = "user"
    BY <1>0, <1>3 DEF ThreadExit, InUser, handlers, BpfTypeOK
  <2>2. DOMAIN frames'[t] = {}
    BY <2>1
  <2>3. Hijacked(t)' /\ AtTop(t)'
    BY <2>1, <2>2 DEF Hijacked, AtTop
  <2>4. \A s \in Threads : s # t => Hijacked(s)' /\ AtTop(s)'
    BY <2>1 DEF FrameInv, Hijacked, AtTop
  <2> QED
    BY <2>3, <2>4 DEF FrameInv
<1>4. ASSUME NEW t \in Threads, HandlerStep(t) PROVE FrameInv'
    BY <1>0, <1>1, <1>4
    DEF HandlerStep, EntryRejected, EntryInstalled, EntryRefused, EntryAnnounced, ReturnUnmatched,
        ReturnEmitted, ReturnCleared, Goto, BpfTypeOK, program
<1>5. ASSUME NEW t \in Threads, SampleTaken(t) PROVE FrameInv'
    BY <1>1, <1>5 DEF SampleTaken, handlers, program
<1>6. ASSUME NEW prev \in Threads \cup {Other}, NEW next \in Threads \cup {Other},
             SchedSwitch(prev, next)
      PROVE  FrameInv'
    BY <1>1, <1>6 DEF SchedSwitch, handlers
<1>7. ASSUME NEW l \in LinkNames, Attach(l) \/ Detach(l) PROVE FrameInv'
  <2>1. UNCHANGED <<program, handlers>>
    BY <1>7 DEF Attach, Detach
  <2>2. /\ link["return"] # "new" => link'["return"] # "new"
        /\ link'["return"] # "gone" => link["return"] # "gone"
    BY <1>0, <1>7, LinkStep, LinksAreNames
  <2> QED
    BY <2>1, <2>2 DEF FrameInv, Hijacked, AtTop, program, handlers
<1>8. ASSUME Consume PROVE FrameInv'
    BY <1>1, <1>8 DEF Consume, handlers, program
<1> QED
    BY <1>2, <1>3, <1>4, <1>5, <1>6, <1>7, <1>8, CallFrames DEF BpfNext, KernelStep, ProgramStep

-----------------------------------------------------------------------------
(* Which call's return ends an invocation *)

\* A VIOLATION of the thread was reported since the record at i.
Violated(r, i) == \E k \in DOMAIN r : k >= i /\ r[k].kind = "VIOLATION" /\ r[k].tid = r[i].tid

\* The next return of the thread that slice_return will see is that of the
\* call: every hijacked frame has the call's own at or above it.
ReturnsTo(t, call) ==
    /\ pc[t] = "user" =>
          \A m \in DOMAIN frames[t] : frames[t][m].ret =>
             \E n \in DOMAIN frames[t] :
                n >= m /\ frames[t][n].ret /\ frames[t][n].call = call
    /\ pc[t] = "return" => probe[t].call = call

Matches(t, id, call) ==
    (active[t] # None /\ active[t].id = id /\ pc[t] \in {"user", "return"}) => ReturnsTo(t, call)

CallInv(sent) ==
    (Live("entry") /\ droppedEvents = 0) =>
       \A i \in DOMAIN sent :
          sent[i].kind = "ENTRY" =>
             Violated(sent, i) \/ Matches(sent[i].tid, sent[i].id, sent[i].call)

\* MismatchIsReported, of the records sent.
Reported(sent) ==
    Live("entry") =>
       \A i, j \in DOMAIN sent :
          (/\ sent[i].kind = "ENTRY" /\ sent[j].kind = "RETURN" /\ sent[i].id = sent[j].id
           /\ sent[i].call # sent[j].call /\ droppedEvents = 0)
             => \E k \in DOMAIN sent :
                   k \in i..j /\ sent[k].kind = "VIOLATION" /\ sent[k].tid = sent[i].tid

\* What a reported record may change of that.
KeepsMatches(sent, b) ==
    /\ \A e \in Records(sent) : (e.kind = "ENTRY" /\ Matches(e.tid, e.id, e.call))
          => Matches(e.tid, e.id, e.call)' \/ (b.kind = "VIOLATION" /\ b.tid = e.tid)
    /\ b.kind = "ENTRY" => /\ Matches(b.tid, b.id, b.call)'
                           /\ \A e \in Records(sent) : e.kind = "RETURN" => e.id # b.id
    /\ b.kind = "RETURN" =>
          \A e \in Records(sent) : (e.kind = "ENTRY" /\ e.id = b.id)
             => e.call = b.call \/ ~Matches(e.tid, e.id, e.call)

LEMMA CallAppended ==
    ASSUME NEW sent \in Seq(Event), NEW sent2 \in Seq(Event), Grows(sent, sent2),
           BpfTypeOK, CallInv(sent), Reported(sent), Live("entry"), droppedEvents = 0,
           NEW b \in Event, sent2 = Append(sent, b), KeepsMatches(sent, b)
    PROVE  CallInv(sent2)' /\ Reported(sent2)'
<1> PICK last : last = Len(sent) + 1
    OBVIOUS
<1>0. /\ last - 1 \in Nat /\ DOMAIN sent = 1..(last - 1) /\ DOMAIN sent2 = 1..last
      /\ \A i \in DOMAIN sent : i \in DOMAIN sent2 /\ sent2[i] = sent[i]
      /\ last \in DOMAIN sent2 /\ sent2[last] = b
    BY AppendedPositions
<1>1. \A i \in DOMAIN sent : sent[i] \in Event /\ sent[i] \in Records(sent)
    BY RecordType DEF Records
<1>2. ASSUME NEW i \in DOMAIN sent, Violated(sent, i) PROVE Violated(sent2, i)
  <2>1. PICK k \in DOMAIN sent : k >= i /\ sent[k].kind = "VIOLATION" /\ sent[k].tid = sent[i].tid
    BY <1>2 DEF Violated
  <2> QED
    BY <1>0, <2>1 DEF Violated
<1>3. ASSUME NEW i \in DOMAIN sent, sent[i].kind = "ENTRY"
      PROVE  Violated(sent2, i) \/ Matches(sent2[i].tid, sent2[i].id, sent2[i].call)'
  <2>1. PICK e : e = sent[i]
    OBVIOUS
  <2>2. e \in Records(sent) /\ e.kind = "ENTRY" /\ sent2[i] = e
    BY <1>0, <1>1, <1>3, <2>1
  <2>3. Violated(sent, i) \/ Matches(e.tid, e.id, e.call)
    BY <1>3, <2>1 DEF CallInv
  <2>4. CASE b.kind = "VIOLATION" /\ b.tid = e.tid
    BY <1>0, <2>1, <2>4 DEF Violated
  <2>5. CASE Matches(e.tid, e.id, e.call)'
    BY <2>2, <2>5 DEF Matches
  <2> QED
    BY <1>2, <2>2, <2>3, <2>4, <2>5 DEF KeepsMatches
<1>4. ASSUME b.kind = "ENTRY" PROVE Matches(sent2[last].tid, sent2[last].id, sent2[last].call)'
  <2>1. Matches(b.tid, b.id, b.call)'
    BY <1>4 DEF KeepsMatches
  <2> QED
    BY <1>0, <2>1 DEF Matches
<1>5. CallInv(sent2)'
  <2>1. ASSUME NEW i \in DOMAIN sent2, sent2[i].kind = "ENTRY"
        PROVE  Violated(sent2, i) \/ Matches(sent2[i].tid, sent2[i].id, sent2[i].call)'
    <3>1. CASE i \in DOMAIN sent
        BY <1>0, <1>3, <2>1, <3>1
    <3>2. CASE i \notin DOMAIN sent
      <4>1. i = last
        BY <1>0, <3>2
      <4> QED
        BY <1>0, <1>4, <2>1, <4>1
    <3> QED
        BY <3>1, <3>2
  <2> QED
    BY <2>1 DEF CallInv
<1>6. ASSUME NEW i \in DOMAIN sent2, NEW j \in DOMAIN sent2, sent2[i].kind = "ENTRY",
             sent2[j].kind = "RETURN", sent2[i].id = sent2[j].id, sent2[i].call # sent2[j].call
      PROVE  \E k \in DOMAIN sent2 : k \in i..j /\ sent2[k].kind = "VIOLATION"
                                     /\ sent2[k].tid = sent2[i].tid
  <2>1. CASE i \in DOMAIN sent /\ j \in DOMAIN sent
    <3>1. /\ sent[i].kind = "ENTRY" /\ sent[j].kind = "RETURN"
          /\ sent[i].id = sent[j].id /\ sent[i].call # sent[j].call
        BY <1>0, <1>6, <2>1
    <3>2. PICK k \in DOMAIN sent : /\ k \in i..j /\ sent[k].kind = "VIOLATION"
                                   /\ sent[k].tid = sent[i].tid
        BY <2>1, <3>1 DEF Reported
    <3> QED
        BY <1>0, <2>1, <3>2
  <2>2. CASE i \in DOMAIN sent /\ j \notin DOMAIN sent
    <3>1. /\ j = last /\ sent[i].kind = "ENTRY" /\ b.kind = "RETURN"
          /\ sent[i].id = b.id /\ sent[i].call # b.call
        BY <1>0, <1>6, <2>2
    <3>2. PICK e : e = sent[i]
        OBVIOUS
    <3>3. ~Matches(e.tid, e.id, e.call)
        BY <1>1, <2>2, <3>1, <3>2 DEF KeepsMatches
    <3>4. Violated(sent, i)
        BY <2>2, <3>1, <3>2, <3>3 DEF CallInv
    <3>5. PICK k \in DOMAIN sent : k >= i /\ sent[k].kind = "VIOLATION" /\ sent[k].tid = sent[i].tid
        BY <3>4 DEF Violated
    <3>6. k \in i..j
        BY <1>0, <2>2, <3>1, <3>5
    <3> QED
        BY <1>0, <2>2, <3>5, <3>6
  <2>3. CASE i \notin DOMAIN sent /\ j \in DOMAIN sent
    <3>1. b.kind = "ENTRY" /\ sent[j].kind = "RETURN" /\ sent[j].id = b.id
        BY <1>0, <1>6, <2>3
    <3> QED
        BY <1>1, <2>3, <3>1 DEF KeepsMatches
  <2>4. CASE i \notin DOMAIN sent /\ j \notin DOMAIN sent
    BY <1>0, <1>6, <2>4
  <2> QED
    BY <2>1, <2>2, <2>3, <2>4
<1> QED
    BY <1>5, <1>6 DEF Reported

\* A step that reports nothing and does not attach slice_entry.
LEMMA CallKept ==
    ASSUME NEW sent \in Seq(Event), NEW sent2 \in Seq(Event), BpfTypeOK, CallInv(sent), Reported(sent), sent2 = sent, droppedEvents' = droppedEvents,
           Live("entry")' => Live("entry"),
           Live("entry") => \A e \in Records(sent) : (e.kind = "ENTRY" /\ Matches(e.tid, e.id, e.call))
                                                  => Matches(e.tid, e.id, e.call)'
    PROVE  CallInv(sent2)' /\ Reported(sent2)'
<1>1. sent2 = sent /\ droppedEvents' = droppedEvents
    OBVIOUS
<1>2. ASSUME Live("entry"), droppedEvents = 0, NEW i \in DOMAIN sent, sent[i].kind = "ENTRY"
      PROVE  Violated(sent, i) \/ Matches(sent2[i].tid, sent2[i].id, sent2[i].call)'
  <2>1. PICK e : e = sent[i]
    OBVIOUS
  <2>2. e \in Records(sent) /\ sent2[i] = e
    BY <1>1, <2>1 DEF Records
  <2>3. Violated(sent, i) \/ Matches(e.tid, e.id, e.call)
    BY <1>2, <2>1 DEF CallInv
  <2>4. CASE Matches(e.tid, e.id, e.call)'
    BY <2>2, <2>4 DEF Matches
  <2> QED
    BY <1>2, <2>1, <2>2, <2>3, <2>4
<1>3. CallInv(sent2)'
    BY <1>1, <1>2 DEF CallInv
<1> QED
    BY <1>1, <1>3 DEF Reported

LEMMA CallTaken ==
    ASSUME NEW sent \in Seq(Event), NEW sent2, sent # <<>>, sent2 = Tail(sent),
           CallInv(sent), Reported(sent),
           UNCHANGED <<active, pc, probe, frames, link, droppedEvents>>
    PROVE  CallInv(sent2)' /\ Reported(sent2)'
<1>0. /\ DOMAIN sent2 \subseteq Nat /\ DOMAIN sent \subseteq Nat
      /\ \A i \in DOMAIN sent2 : i >= 1 /\ i + 1 \in DOMAIN sent /\ sent2[i] = sent[i + 1]
      /\ \A i \in DOMAIN sent : i >= 2 => i - 1 \in DOMAIN sent2 /\ sent2[i - 1] = sent[i]
    BY TakenPositions
<1>1. /\ active' = active /\ pc' = pc /\ probe' = probe /\ frames' = frames /\ link' = link
      /\ droppedEvents' = droppedEvents
    OBVIOUS
<1>3. ASSUME Live("entry"), droppedEvents = 0, NEW i \in DOMAIN sent2, sent2[i].kind = "ENTRY"
      PROVE  Violated(sent2, i) \/ Matches(sent2[i].tid, sent2[i].id, sent2[i].call)'
  <2>1. i + 1 \in DOMAIN sent /\ sent2[i] = sent[i + 1]
    BY <1>0
  <2>2. CASE Matches(sent[i + 1].tid, sent[i + 1].id, sent[i + 1].call)
    BY <1>1, <2>1, <2>2 DEF Matches, ReturnsTo
  <2>3. CASE Violated(sent, i + 1)
    <3>1. PICK k \in DOMAIN sent : /\ k >= i + 1 /\ sent[k].kind = "VIOLATION"
                                   /\ sent[k].tid = sent[i + 1].tid
        BY <2>3 DEF Violated
    <3>2. k - 1 \in DOMAIN sent2 /\ k - 1 >= i /\ sent2[k - 1] = sent[k]
        BY <1>0, <3>1
    <3> QED
        BY <2>1, <3>1, <3>2 DEF Violated
  <2> QED
    BY <1>3, <2>1, <2>2, <2>3 DEF CallInv
<1>4. CallInv(sent2)'
    BY <1>1, <1>3 DEF CallInv, Live
<1>5. ASSUME Live("entry"), droppedEvents = 0, NEW i \in DOMAIN sent2, NEW j \in DOMAIN sent2,
             sent2[i].kind = "ENTRY", sent2[j].kind = "RETURN", sent2[i].id = sent2[j].id,
             sent2[i].call # sent2[j].call
      PROVE  \E k \in DOMAIN sent2 : k \in i..j /\ sent2[k].kind = "VIOLATION"
                                     /\ sent2[k].tid = sent2[i].tid
  <2>1. /\ i + 1 \in DOMAIN sent /\ sent2[i] = sent[i + 1]
        /\ j + 1 \in DOMAIN sent /\ sent2[j] = sent[j + 1]
    BY <1>0
  <2>2. PICK k \in DOMAIN sent : /\ k \in (i + 1)..(j + 1) /\ sent[k].kind = "VIOLATION"
                                 /\ sent[k].tid = sent[i + 1].tid
    BY <1>5, <2>1 DEF Reported
  <2>3. k - 1 \in DOMAIN sent2 /\ k - 1 \in i..j /\ sent2[k - 1] = sent[k]
    BY <1>0, <2>2
  <2> QED
    BY <2>1, <2>2, <2>3
<1>6. Live("entry")' => Live("entry")
    BY <1>1 DEF Live
<1>7. Reported(sent2)'
    BY <1>1, <1>5, <1>6 DEF Reported
<1> QED
    BY <1>4, <1>7

KeepsAll(sent) ==
    \A e \in Records(sent) : (e.kind = "ENTRY" /\ Matches(e.tid, e.id, e.call))
                          => Matches(e.tid, e.id, e.call)'

LEMMA CallReported ==
    ASSUME NEW sent \in Seq(Event), NEW sent2 \in Seq(Event), Grows(sent, sent2),
           BpfTypeOK, CallInv(sent), Reported(sent), link' = link, NEW b \in Event, Emit(b),
           Live("entry") => KeepsMatches(sent, b)
    PROVE  CallInv(sent2)' /\ Reported(sent2)'
<1>1. CASE droppedEvents' = 0 /\ Live("entry")
    BY <1>1, EmitAppends, CallAppended
<1>2. CASE droppedEvents' # 0 \/ ~Live("entry")
    BY <1>2 DEF CallInv, Reported, Live
<1> QED
    BY <1>1, <1>2

\* Only the thread a handler runs in can stop matching.
LEMMA OthersMatch ==
    ASSUME NEW sent \in Seq(Event),
           BpfTypeOK, NEW t \in Threads, active'[t] = None \/ pc'[t] \notin {"user", "return"},
           \A s \in Threads : s # t => /\ active'[s] = active[s] /\ pc'[s] = pc[s]
                                       /\ probe'[s] = probe[s] /\ frames'[s] = frames[s]
    PROVE  KeepsAll(sent)
<1>1. ASSUME NEW e \in Records(sent), Matches(e.tid, e.id, e.call) PROVE Matches(e.tid, e.id, e.call)'
  <2>1. e.tid \in Threads
    BY RecordType DEF Event
  <2> QED
    BY <1>1, <2>1 DEF Matches, ReturnsTo
<1> QED
    BY <1>1 DEF KeepsAll

\* A frame that is popped without slice_return was not hijacked, so no hijacked
\* frame is left below it.
LEMMA ReturnStillMatches ==
    ASSUME NEW sent \in Seq(Event),
           Base(sent), LinkInv(sent), FrameInv, Live("entry"), NEW t \in Threads, Return(t)
    PROVE  KeepsAll(sent)
<1>0. BpfTypeOK
    BY DEF Base
<1> PICK depth : depth = Len(frames[t])
    OBVIOUS
<1>1. /\ depth \in Nat /\ depth >= 1 /\ DOMAIN frames[t] = 1..depth
      /\ DOMAIN frames'[t] = 1..(depth - 1)
      /\ \A m \in DOMAIN frames'[t] : m \in DOMAIN frames[t] /\ frames'[t][m] = frames[t][m]
      /\ \A s \in Threads : s # t => frames'[s] = frames[s]
    BY <1>0, ReturnPositions
<1>2. pc[t] = "user" /\ active' = active
    BY DEF Return, InUser, maps
<1>3. \A s \in Threads : s # t => pc'[s] = pc[s] /\ probe'[s] = probe[s]
    BY <1>0 DEF Return, handlers, BpfTypeOK
<1>4. link["return"] # "gone"
    BY DEF LinkInv, Live
<1>5. ASSUME NEW call, ReturnsTo(t, call) PROVE ReturnsTo(t, call)'
  <2>0. \A m \in DOMAIN frames[t] : frames[t][m].ret =>
           \E n \in DOMAIN frames[t] : n >= m /\ frames[t][n].ret /\ frames[t][n].call = call
    BY <1>2, <1>5 DEF ReturnsTo
  <2>1. CASE frames[t][depth].ret /\ Live("return")
    <3>1. pc'[t] = "return" /\ probe'[t].call = frames[t][depth].call
        BY <1>0, <2>1 DEF Return, BpfTypeOK
    <3>2. PICK n \in DOMAIN frames[t] :
             n >= depth /\ frames[t][n].ret /\ frames[t][n].call = call
        BY <1>1, <2>0, <2>1
    <3>3. n = depth
        BY <1>1, <3>2
    <3> QED
        BY <3>1, <3>2, <3>3 DEF ReturnsTo
  <2>2. CASE ~(frames[t][depth].ret /\ Live("return"))
    <3>1. pc'[t] = "user"
        BY <1>2, <2>2 DEF Return, handlers
    <3>2. CASE ~Live("return")
      <4>1. link["return"] = "new"
        BY <1>0, <1>4, <3>2, LinksAreNames DEF Live, BpfTypeOK
      <4>2. \A m \in DOMAIN frames[t] : ~frames[t][m].ret
        BY <4>1 DEF FrameInv, Hijacked
      <4> QED
        BY <1>1, <3>1, <4>2 DEF ReturnsTo
    <3>3. CASE ~frames[t][depth].ret
      <4>1. ASSUME NEW m \in DOMAIN frames'[t], frames'[t][m].ret
            PROVE  \E n \in DOMAIN frames'[t] :
                      n >= m /\ frames'[t][n].ret /\ frames'[t][n].call = call
        <5>1. PICK n \in DOMAIN frames[t] :
                 n >= m /\ frames[t][n].ret /\ frames[t][n].call = call
            BY <1>1, <2>0, <4>1
        <5>2. n # depth
            BY <3>3, <5>1
        <5>3. n \in DOMAIN frames'[t]
            BY <1>1, <5>2
        <5> QED
            BY <1>1, <5>1, <5>3
      <4> QED
        BY <3>1, <4>1 DEF ReturnsTo
    <3> QED
        BY <2>2, <3>2, <3>3
  <2> QED
    BY <2>1, <2>2
<1>6. ASSUME NEW e \in Records(sent), Matches(e.tid, e.id, e.call) PROVE Matches(e.tid, e.id, e.call)'
  <2>1. e.tid \in Threads
    BY <1>0, RecordType DEF Event
  <2>2. CASE e.tid # t
    BY SMTT(20), <1>1, <1>2, <1>3, <1>6, <2>1, <2>2 DEF Matches, ReturnsTo
  <2>3. CASE e.tid = t
    <3>1. (active[t] # None /\ active[t].id = e.id) => ReturnsTo(t, e.call)
        BY <1>2, <1>6, <2>3 DEF Matches
    <3>2. PICK call : call = e.call
        OBVIOUS
    <3>3. (active[t] # None /\ active[t].id = e.id) => ReturnsTo(t, call)'
        BY <1>5, <3>1, <3>2
    <3> QED
        BY <1>2, <2>3, <3>2, <3>3 DEF Matches
  <2> QED
    BY <2>2, <2>3
<1> QED
    BY <1>6 DEF KeepsAll

\* While slice_entry is live a call enters it, so the question does not arise.
LEMMA ProgramMatches ==
    ASSUME NEW sent \in Seq(Event),
           Base(sent), LinkInv(sent), FrameInv, Live("entry"), NEW t \in Threads, ProgramStep(t)
    PROVE  KeepsAll(sent)
<1>0. BpfTypeOK
    BY DEF Base
<1>1. CASE Call(t)
  <2>1. pc'[t] = "entry"
    BY <1>0, <1>1 DEF Call, BpfTypeOK
  <2>2. \A s \in Threads : s # t => /\ active'[s] = active[s] /\ pc'[s] = pc[s]
                                    /\ probe'[s] = probe[s] /\ frames'[s] = frames[s]
    BY <1>0, <1>1 DEF Call, BpfTypeOK, maps
  <2> QED
    BY <1>0, <2>1, <2>2, OthersMatch
<1>2. CASE ThreadExit(t)
  <2>1. /\ active' = active /\ pc' = pc /\ probe' = probe /\ pc[t] = "user" /\ frames'[t] = <<>>
        /\ \A s \in Threads : s # t => frames'[s] = frames[s]
    BY <1>0, <1>2 DEF ThreadExit, InUser, BpfTypeOK, maps, handlers
  <2>2. DOMAIN frames'[t] = {}
    BY <2>1
  <2>3. ASSUME NEW e \in Records(sent), Matches(e.tid, e.id, e.call) PROVE Matches(e.tid, e.id, e.call)'
    <3>1. e.tid \in Threads
        BY <1>0, RecordType DEF Event
    <3>2. CASE e.tid = t
        BY <2>1, <2>2, <3>2 DEF Matches, ReturnsTo
    <3>3. CASE e.tid # t
        BY <2>1, <2>3, <3>1, <3>3 DEF Matches, ReturnsTo
    <3> QED
        BY <3>2, <3>3
  <2> QED
    BY <2>3 DEF KeepsAll
<1> QED
    BY <1>1, <1>2, ReturnStillMatches DEF ProgramStep

\* What slice_entry and slice_return report.
LEMMA ViolationMatches ==
    ASSUME NEW sent \in Seq(Event),
           Base(sent), NEW t \in Threads, NEW b \in Event, b.kind = "VIOLATION", b.tid = t,
           UNCHANGED <<active, probe, frames>>, \A s \in Threads : s # t => pc'[s] = pc[s]
    PROVE  KeepsMatches(sent, b)
<1>1. ASSUME NEW e \in Records(sent), Matches(e.tid, e.id, e.call), b.tid # e.tid
      PROVE  Matches(e.tid, e.id, e.call)'
  <2>1. e.tid \in Threads
    BY RecordType DEF Base, Event
  <2> QED
    BY <1>1, <2>1 DEF Matches, ReturnsTo
<1> QED
    BY <1>1 DEF KeepsMatches

LEMMA EntryMatches ==
    ASSUME NEW sent \in Seq(Event),
           Base(sent), FrameInv, LinkInv(sent), Live("entry"), NEW t \in Threads, EntryAnnounced(t),
           NEW b \in Event, b = Boundary("ENTRY", t, active[t].id)
    PROVE  KeepsMatches(sent, b)
<1>0. BpfTypeOK
    BY DEF Base
<1>1. /\ pc[t] = "announce" /\ pc' = [pc EXCEPT ![t] = "user"]
      /\ UNCHANGED <<active, probe, frames>> /\ t \in ActiveThreads
    BY <1>0 DEF EntryAnnounced, Goto, maps, program, Base, EntryHeld, ActiveThreads
<1>2. b.kind = "ENTRY" /\ b.tid = t /\ b.id = active[t].id /\ b.call = probe[t].call
    BY DEF Boundary
<1>3. pc'[t] = "user" /\ \A s \in Threads : s # t => pc'[s] = pc[s]
    BY <1>0, <1>1 DEF BpfTypeOK
<1>4. \A e \in Records(sent) : e.id = active[t].id => e.kind \notin {"ENTRY", "RETURN"}
    BY <1>1 DEF Base, IdsInv, OwnRecord
<1>5. ASSUME NEW e \in Records(sent), e.kind = "ENTRY", Matches(e.tid, e.id, e.call)
      PROVE  Matches(e.tid, e.id, e.call)'
  <2>1. e.tid \in Threads
    BY <1>0, RecordType DEF Event
  <2>2. CASE e.tid = t
    BY <1>1, <1>4, <1>5, <2>2 DEF Matches
  <2>3. CASE e.tid # t
    BY <1>1, <1>3, <1>5, <2>1, <2>3 DEF Matches, ReturnsTo
  <2> QED
    BY <2>2, <2>3
<1>6. ASSUME NEW m \in DOMAIN frames[t], frames[t][m].ret
      PROVE  \E n \in DOMAIN frames[t] :
                n >= m /\ frames[t][n].ret /\ frames[t][n].call = b.call
  <2>1. frames[t] \in Seq(Frame)
    BY <1>0 DEF BpfTypeOK
  <2>2. frames[t] # <<>> /\ frames[t][Len(frames[t])].call = probe[t].call
    BY <1>1 DEF FrameInv, AtTop
  <2>3. Len(frames[t]) \in DOMAIN frames[t] /\ m \in Nat /\ m <= Len(frames[t])
    BY <2>1, <2>2
  <2>4. link["return"] # "gone"
    BY DEF LinkInv, Live
  <2>5. frames[t][Len(frames[t])].ret
    <3>1. CASE m = Len(frames[t])
      BY <1>6, <3>1
    <3>2. CASE m < Len(frames[t])
      BY <1>6, <2>3, <2>4, <3>2 DEF FrameInv, Hijacked
    <3> QED
      BY <2>3, <3>1, <3>2
  <2> QED
    BY <1>2, <2>2, <2>3, <2>5
<1>7. Matches(b.tid, b.id, b.call)'
  <2>1. \A m \in DOMAIN frames'[t] : frames'[t][m].ret =>
           \E n \in DOMAIN frames'[t] :
              n >= m /\ frames'[t][n].ret /\ frames'[t][n].call = b.call
    BY <1>1, <1>6
  <2> QED
    BY <1>2, <1>3, <2>1 DEF Matches, ReturnsTo
<1> QED
    BY <1>2, <1>4, <1>5, <1>7 DEF KeepsMatches

LEMMA ReturnReported ==
    ASSUME NEW sent \in Seq(Event),
           Base(sent), NEW t \in Threads, ReturnEmitted(t),
           NEW b \in Event, b = Boundary("RETURN", t, active[t].id)
    PROVE  KeepsMatches(sent, b)
<1>0. BpfTypeOK
    BY DEF Base
<1>1. b.kind = "RETURN" /\ b.id = active[t].id /\ b.call = probe[t].call
    BY DEF Boundary
<1>2. pc[t] = "return" /\ t \in ActiveThreads
    BY DEF ReturnEmitted, ActiveThreads
<1>3. KeepsAll(sent)
  <2>1. pc'[t] = "clear"
    BY <1>0 DEF ReturnEmitted, Goto, BpfTypeOK
  <2>2. \A s \in Threads : s # t => /\ active'[s] = active[s] /\ pc'[s] = pc[s]
                                    /\ probe'[s] = probe[s] /\ frames'[s] = frames[s]
    BY <1>0 DEF ReturnEmitted, Goto, BpfTypeOK, maps, program
  <2> QED
    BY <1>0, <2>1, <2>2, OthersMatch
<1>4. ASSUME NEW e \in Records(sent), e.kind = "ENTRY", e.id = b.id, Matches(e.tid, e.id, e.call)
      PROVE  e.call = b.call
  <2>1. e.tid = t
    BY <1>1, <1>2, <1>4 DEF Base, IdsInv, OwnRecord
  <2>2. active[t] # None
    BY <1>2 DEF ActiveThreads
  <2> QED
    BY <1>1, <1>2, <1>4, <2>1, <2>2 DEF Matches, ReturnsTo
<1> QED
    BY <1>1, <1>3, <1>4 DEF KeepsMatches, KeepsAll

LEMMA CallStep ==
    ASSUME NEW sent \in Seq(Event), NEW sent2 \in Seq(Event), Grows(sent, sent2),
           Base(sent), LinkInv(sent), FrameInv, CallInv(sent), Reported(sent), BpfNext
    PROVE  CallInv(sent2)' /\ Reported(sent2)'
<1>0. BpfTypeOK
    BY DEF Base
<1>10. UNCHANGED transport => sent2 = sent /\ droppedEvents' = droppedEvents
    BY TransportKept
<1>1. ASSUME UNCHANGED <<transport, link>>, Live("entry") => KeepsAll(sent)
      PROVE  CallInv(sent2)' /\ Reported(sent2)'
    BY <1>0, <1>1, <1>10, CallKept DEF KeepsAll, Live
<1>2. ASSUME UNCHANGED <<active, pc, probe, frames>> PROVE KeepsAll(sent)
    BY <1>2 DEF KeepsAll, Matches, ReturnsTo
<1>3. ASSUME NEW b \in Event, b.kind \in {"SAMPLE", "OFFCPU"}, KeepsAll(sent) PROVE KeepsMatches(sent, b)
    BY <1>3 DEF KeepsAll, KeepsMatches
<1>4. ASSUME NEW t \in Threads, ProgramStep(t) PROVE CallInv(sent2)' /\ Reported(sent2)'
  <2>1. UNCHANGED <<transport, link>>
    BY <1>4 DEF ProgramStep, Call, Return, ThreadExit
  <2> QED
    BY <1>1, <1>4, <2>1, ProgramMatches
<1>5. ASSUME NEW t \in Threads, HandlerStep(t) PROVE CallInv(sent2)' /\ Reported(sent2)'
  <2>0. link' = link
    BY <1>5
    DEF HandlerStep, EntryRejected, EntryInstalled, EntryRefused, EntryAnnounced, ReturnUnmatched,
        ReturnEmitted, ReturnCleared
  <2>1. CASE EntryInstalled(t) \/ EntryRefused(t) \/ ReturnCleared(t)
    <3>1. UNCHANGED transport
        BY <2>1 DEF EntryInstalled, EntryRefused, ReturnCleared
    <3>2. active'[t] = None \/ pc'[t] \notin {"user", "return"}
        BY <1>0, <2>1
        DEF EntryInstalled, EntryRefused, ReturnCleared, WithoutActive, Occupied, Goto, BpfTypeOK,
            maps
    <3>3. \A s \in Threads : s # t => /\ active'[s] = active[s] /\ pc'[s] = pc[s]
                                      /\ probe'[s] = probe[s] /\ frames'[s] = frames[s]
        BY <1>0, <2>1
        DEF EntryInstalled, EntryRefused, ReturnCleared, WithoutActive, Goto, BpfTypeOK, maps,
            program
    <3>4. KeepsAll(sent)
        BY <1>0, <3>2, <3>3, OthersMatch
    <3> QED
        BY <1>1, <2>0, <3>1, <3>4
  <2>2. CASE EntryRejected(t) \/ ReturnUnmatched(t)
    <3>1. PICK b \in Event : b = Boundary("VIOLATION", t, 0)
        BY <1>0, BoundaryType DEF Kinds
    <3>2. b.kind = "VIOLATION" /\ b.tid = t /\ Emit(b)
        BY <2>2, <3>1 DEF EntryRejected, ReturnUnmatched, Boundary
    <3>3. UNCHANGED <<active, probe, frames>> /\ \A s \in Threads : s # t => pc'[s] = pc[s]
        BY <1>0, <2>2 DEF EntryRejected, ReturnUnmatched, Goto, BpfTypeOK, maps, program
    <3>4. KeepsMatches(sent, b)
        BY <3>2, <3>3, ViolationMatches
    <3> QED
        BY <1>0, <2>0, <3>2, <3>4, CallReported
  <2>3. CASE EntryAnnounced(t)
    <3>1. active[t] \in Active
        BY <2>3 DEF EntryAnnounced, EntryHeld, BpfTypeOK, Base
    <3>2. PICK b \in Event : b = Boundary("ENTRY", t, active[t].id)
        BY <1>0, <3>1, BoundaryType DEF Kinds, Active
    <3>3. Emit(b)
        BY <2>3, <3>2 DEF EntryAnnounced
    <3>4. Live("entry") => KeepsMatches(sent, b)
        BY <2>3, <3>2, EntryMatches
    <3> QED
        BY <1>0, <2>0, <3>3, <3>4, CallReported
  <2>4. CASE ReturnEmitted(t)
    <3>1. active[t] \in Active
        BY <2>4 DEF ReturnEmitted, BpfTypeOK, Base
    <3>2. PICK b \in Event : b = Boundary("RETURN", t, active[t].id)
        BY <1>0, <3>1, BoundaryType DEF Kinds, Active
    <3>3. Emit(b)
        BY <2>4, <3>2 DEF ReturnEmitted
    <3>4. KeepsMatches(sent, b)
        BY <2>4, <3>2, ReturnReported
    <3> QED
        BY <1>0, <2>0, <3>3, <3>4, CallReported
  <2> QED
    BY <1>5, <2>1, <2>2, <2>3, <2>4 DEF HandlerStep
<1>6. ASSUME NEW t \in Threads, SampleTaken(t) PROVE CallInv(sent2)' /\ Reported(sent2)'
  <2>1. PICK now \in Readings, stack \in Stacks \cup {NoStack} :
           IF stack = NoStack
           THEN UNCHANGED transport
           ELSE Emit(StackRecord("SAMPLE", t, now, stack, SamplePeriod))
    BY <1>6 DEF SampleTaken
  <2>2. PICK b : b = StackRecord("SAMPLE", t, now, stack, SamplePeriod)
    OBVIOUS
  <2>3. b \in Event /\ b.kind = "SAMPLE"
    BY <1>0, <1>6, <2>2, ReadingsType, StackRecordType, BoundAssumption
    DEF Kinds, StackRecord, SampleTaken
  <2>4. UNCHANGED link /\ KeepsAll(sent)
    BY <1>2, <1>6 DEF SampleTaken, maps, handlers, program
  <2> QED
    BY <1>0, <1>1, <1>3, <2>1, <2>2, <2>3, <2>4, CallReported
<1>7. ASSUME NEW prev \in Threads \cup {Other}, NEW next \in Threads \cup {Other},
             SchedSwitch(prev, next)
      PROVE  CallInv(sent2)' /\ Reported(sent2)'
  <2>1. UNCHANGED link /\ KeepsAll(sent)
    BY <1>2, <1>7 DEF SchedSwitch, handlers
  <2>2. CASE UNCHANGED transport
    BY <1>1, <2>1, <2>2
  <2>3. CASE SwitchEmits(next)
    <3>0. PICK b : b = OffcpuRecord(next, clock')
        OBVIOUS
    <3>1. b \in Event /\ b.kind = "OFFCPU" /\ Emit(b)
        BY <1>0, <2>3, <3>0, OffcpuRecordType DEF SwitchEmits
    <3> QED
        BY <1>0, <1>3, <2>1, <3>1, CallReported
  <2> QED
    BY <1>7, <2>2, <2>3, SwitchRecord DEF Base
<1>8. ASSUME NEW l \in LinkNames, Attach(l) \/ Detach(l) PROVE CallInv(sent2)' /\ Reported(sent2)'
  <2>1. UNCHANGED <<transport, active, pc, probe, frames>>
    BY <1>8 DEF Attach, Detach, maps, handlers, program
  <2>2. CASE link["entry"] = "new"
    <3>1. \A i \in DOMAIN sent : sent[i].kind # "ENTRY"
        BY <2>2 DEF LinkInv, Records
    <3>2. sent2 = sent
        BY <1>10, <2>1
    <3> QED
        BY <3>1, <3>2 DEF CallInv, Reported
  <2>3. CASE link["entry"] # "new"
    <3>1. Live("entry")' => Live("entry")
        BY <1>0, <1>8, <2>3, LinkStep, LinksAreNames DEF Live
    <3> QED
        BY <1>0, <1>2, <1>10, <2>1, <3>1, CallKept DEF KeepsAll
  <2> QED
    BY <2>2, <2>3
<1>9. ASSUME Consume PROVE CallInv(sent2)' /\ Reported(sent2)'
  <2>1. UNCHANGED <<active, pc, probe, frames, link, droppedEvents>>
    BY <1>9 DEF Consume, maps, handlers, program
  <2>2. CASE sent2 = sent
    BY <1>0, <1>2, <2>1, <2>2, CallKept DEF KeepsAll, Live
  <2>3. CASE sent # <<>> /\ sent2 = Tail(sent)
    BY <2>1, <2>3, CallTaken
  <2> QED
    BY <1>9, <2>2, <2>3 DEF Grows
<1> QED
    BY <1>4, <1>5, <1>6, <1>7, <1>8, <1>9 DEF BpfNext, KernelStep

\* While the entry probe is attached, a return that ends an invocation another
\* call began follows a VIOLATION of the thread: for any number of threads, any
\* nesting, exits inside the function and any order of attaching and calls.
THEOREM MismatchesAreReported == BpfSpec => []MismatchIsReported
<1>1. BpfInit => LinkInv(ring) /\ FrameInv /\ CallInv(ring) /\ Reported(ring)
  <2> SUFFICES ASSUME BpfInit PROVE LinkInv(ring) /\ FrameInv /\ CallInv(ring) /\ Reported(ring)
    OBVIOUS
  <2>1. DOMAIN ring = {} /\ \A t \in Threads : DOMAIN frames[t] = {}
    BY DEF BpfInit
  <2>2. LinkInv(ring)
    BY <2>1, LinksAreNames DEF BpfInit, LinkInv, Records
  <2>3. FrameInv
    BY <2>1 DEF BpfInit, FrameInv, Hijacked, AtTop
  <2> QED
    BY <2>1, <2>2, <2>3 DEF CallInv, Reported
<1>2. Base(ring) /\ LinkInv(ring) /\ FrameInv /\ CallInv(ring) /\ Reported(ring) /\ BpfTypeOK'
      /\ [BpfNext]_bpfVars
         => (LinkInv(ring) /\ FrameInv /\ CallInv(ring) /\ Reported(ring))'
  <2>1. ASSUME UNCHANGED bpfVars, LinkInv(ring), FrameInv, CallInv(ring), Reported(ring)
        PROVE  (LinkInv(ring) /\ FrameInv /\ CallInv(ring) /\ Reported(ring))'
    <3>1. UNCHANGED <<link, frames, pc, probe, active, ring, droppedEvents>>
        BY <2>1 DEF bpfVars, program, handlers, maps, transport
    <3>2. LinkInv(ring)' /\ FrameInv'
        BY <2>1, <3>1 DEF LinkInv, FrameInv, Hijacked, AtTop, Records
    <3>3. CallInv(ring)' /\ Reported(ring)'
        BY <2>1, <3>1 DEF CallInv, Violated, Matches, ReturnsTo, Reported, Live
    <3> QED
        BY <3>2, <3>3
  <2>2. ASSUME Base(ring), LinkInv(ring), FrameInv, CallInv(ring), Reported(ring),
               BpfTypeOK', BpfNext
        PROVE  (LinkInv(ring) /\ FrameInv /\ CallInv(ring) /\ Reported(ring))'
    <3>1. PICK sent \in Seq(Event), sent2 \in Seq(Event) :
             sent = ring /\ sent2 = ring' /\ Grows(sent, sent2)
        BY <2>2, RingRecords DEF Base
    <3>2. Base(sent) /\ LinkInv(sent) /\ CallInv(sent) /\ Reported(sent)
        BY <2>2, <3>1
    <3>3. LinkInv(sent2)' /\ FrameInv'
        BY <2>2, <3>1, <3>2, LinkInvStep, FrameStep
    <3>4. CallInv(sent2)' /\ Reported(sent2)'
        BY <2>2, <3>1, <3>2, CallStep
    <3>5. LinkInv(ring)'
        BY <3>1, <3>3 DEF LinkInv, Records
    <3>6. CallInv(ring)' /\ Reported(ring)'
        BY <3>1, <3>4 DEF CallInv, Violated, Matches, ReturnsTo, Reported, Live
    <3> QED
        BY <3>3, <3>5, <3>6
  <2> QED
    BY <2>1, <2>2
<1>3. Reported(ring) => MismatchIsReported
    BY DEF Reported, MismatchIsReported, Submitted
<1> QED
    BY <1>1, <1>2, <1>3, BpfTypeCorrect, BaseHolds, PTL DEF BpfSpec

=============================================================================
