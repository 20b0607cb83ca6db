------------------------ MODULE SliceCapture_proofs ------------------------
(***************************************************************************)
(* The profile capture_pid returns, for every set of threads, every bound  *)
(* and every order in which the program, the kernel and the capturing      *)
(* thread take their steps.  The facts about all records ever submitted    *)
(* (SliceSent_proofs) hold of what was received and what is in the ring    *)
(* together; the correlator (SliceCollector_proofs) is pushed one          *)
(* consistent event for each record received.                              *)
(***************************************************************************)
EXTENDS SliceCapture, SliceSent_proofs, SliceCollector_proofs, SequenceTheorems

(* What the capture does to the records submitted *)

\* All records ever submitted: those received and those still in the ring.
AllSent == received \o ring

LEMMA ConsumeMovesHead ==
    ASSUME NEW r \in Seq(Event), NEW q \in Seq(Event), q # <<>>
    PROVE  Append(r, Head(q)) \o Tail(q) = r \o q
<1>1. Head(q) \in Event /\ Tail(q) \in Seq(Event)
    BY HeadTailProperties
<1>2. <<Head(q)>> \o Tail(q) = q
    OBVIOUS
<1>3. Append(r, Head(q)) = r \o <<Head(q)>>
    BY <1>1, AppendIsConcat
<1>4. <<Head(q)>> \in Seq(Event)
    BY <1>1
<1> QED
    BY <1>1, <1>2, <1>3, <1>4, ConcatAssociative

LEMMA AppendMoves ==
    ASSUME NEW r \in Seq(Event), NEW q \in Seq(Event), NEW e \in Event
    PROVE  r \o Append(q, e) = Append(r \o q, e)
<1>1. <<e>> \in Seq(Event) /\ r \o q \in Seq(Event)
    BY ConcatProperties
<1>2. Append(q, e) = q \o <<e>> /\ Append(r \o q, e) = (r \o q) \o <<e>>
    BY <1>1, AppendIsConcat
<1> QED
    BY <1>1, <1>2, ConcatAssociative

\* The program and the kernel never take a record from the ring.
LEMMA KernelTakesNothing ==
    ASSUME BpfTypeOK, KernelStep
    PROVE  ~Consume
<1>1. ring \in Seq(Event) /\ (Consume => Len(ring') = Len(ring) - 1)
    BY HeadTailProperties DEF BpfTypeOK, Consume
<1>2. UNCHANGED transport => ~Consume
    BY <1>1 DEF transport
<1>3. ASSUME NEW e, Emit(e) PROVE ~Consume
    BY <1>1, <1>3 DEF Emit
<1>4. ASSUME NEW t \in Threads, ProgramStep(t) PROVE ~Consume
    BY <1>2, <1>4 DEF ProgramStep, Call, Return, ThreadExit
<1>5. ASSUME NEW t \in Threads, HandlerStep(t) PROVE ~Consume
    BY <1>2, <1>3, <1>5 DEF HandlerStep, EntryRejected, EntryInstalled, EntryRefused, EntryAnnounced,
                            ReturnUnmatched, ReturnEmitted, ReturnCleared
<1>6. ASSUME NEW t \in Threads, SampleTaken(t) PROVE ~Consume
    BY <1>2, <1>3, <1>6 DEF SampleTaken
<1>7. ASSUME NEW prev \in Threads \cup {Other}, NEW next \in Threads \cup {Other},
             SchedSwitch(prev, next)
      PROVE  ~Consume
    BY <1>2, <1>3, <1>7 DEF SchedSwitch, SwitchHandler, SwitchIn
<1> QED
    BY <1>4, <1>5, <1>6, <1>7 DEF KernelStep

\* A step of the kernel half, or the consumer's, as the records see it.
KernelMoves == BpfNext /\ Follows(AllSent, AllSent')

LEMMA RunsKernel ==
    ASSUME BpfTypeOK, received \in Seq(Event), received' = received,
           KernelStep \/ \E l \in LinkNames : Attach(l) \/ Detach(l)
    PROVE  KernelMoves
<1>0. ring \in Seq(Event)
    BY DEF BpfTypeOK
<1>1. ~Consume
  <2>1. CASE KernelStep
    BY <2>1, KernelTakesNothing
  <2>2. ASSUME NEW l \in LinkNames, Attach(l) \/ Detach(l) PROVE ~Consume
    <3>1. ring' = ring
        BY <2>2 DEF Attach, Detach, transport
    <3> QED
        BY <1>0, <3>1, HeadTailProperties DEF Consume
  <2> QED
    BY <2>1, <2>2
<1>2. ASSUME NEW e \in Event, ring' = Append(ring, e) PROVE AllSent' = Append(AllSent, e)
    BY <1>0, <1>2, AppendMoves DEF AllSent
<1>3. ring' = ring => AllSent' = AllSent
    BY DEF AllSent
<1> QED
    BY <1>1, <1>2, <1>3 DEF KernelMoves, BpfNext, Follows

LEMMA ReceivesKernel ==
    ASSUME BpfTypeOK, received \in Seq(Event), RecordReceived
    PROVE  KernelMoves /\ AllSent' = AllSent /\ received' \in Seq(Event)
<1>0. ring \in Seq(Event) /\ ring # <<>> /\ ring' = Tail(ring)
      /\ received' = Append(received, Head(ring)) /\ Consume
    BY DEF BpfTypeOK, RecordReceived, Consume
<1>1. Len(ring') = Len(ring) - 1 /\ Len(ring) \in Nat /\ Head(ring) \in Event
    BY <1>0, HeadTailProperties
<1>2. ring' # ring /\ \A e \in Event : ring' # Append(ring, e)
  <2>1. PICK n \in Nat : Len(ring) = n /\ Len(ring') = n - 1
    BY <1>1
  <2>2. \A e \in Event : Len(Append(ring, e)) = n + 1
    BY <1>0, <2>1
  <2> QED
    BY <2>1, <2>2
<1>3. AllSent' = AllSent
    BY <1>0, ConsumeMovesHead DEF AllSent
<1>4. received' \in Seq(Event)
    BY <1>0, <1>1
<1> QED
    BY <1>0, <1>2, <1>3, <1>4 DEF KernelMoves, BpfNext, Follows

\* A step of the capture that does not fail is a step of the kernel half, takes
\* a record, or leaves the kernel half alone.
LEMMA CaptureKinds ==
    ASSUME CaptureNext, phase' # "failed"
    PROVE  /\ phase # "failed"
           /\ \/ RecordReceived
              \/ /\ received' = received
                 /\ \/ KernelStep \/ \E l \in LinkNames : Attach(l) \/ Detach(l)
                    \/ UNCHANGED bpfVars
<1>1. ASSUME EnvironmentStep
      PROVE  received' = received /\ phase' = phase /\ (KernelStep \/ UNCHANGED bpfVars)
    BY <1>1 DEF EnvironmentStep, TargetStep, LeaderExits, TargetExits, StopRequested, captureVars
<1>2. ASSUME CaptureStep, ~RecordReceived
      PROVE  /\ received' = received /\ phase # "failed"
             /\ UNCHANGED bpfVars \/ \E l \in LinkNames : Attach(l) \/ Detach(l)
    BY <1>2 DEF CaptureStep, AttachLink, StartPolling, LoopTest, PollReturned, DrainReturned,
                DetachLink, ReadCounters, Replay, FinishProfile, captureVars
<1>3. ASSUME PollInterrupted \/ DrainInterrupted
      PROVE  received' = received /\ phase # "failed" /\ UNCHANGED bpfVars
    BY <1>3 DEF PollInterrupted, DrainInterrupted
<1>4. ~CaptureFails
    BY DEF CaptureFails
<1>5. RecordReceived => phase # "failed"
    BY DEF RecordReceived
<1> QED
    BY <1>1, <1>2, <1>3, <1>4, <1>5 DEF CaptureNext

-----------------------------------------------------------------------------
(* What holds of the records received *)

RecordsInv ==
    /\ received \in Seq(Event)
    /\ \E sent \in Seq(Event) : sent = AllSent /\ SentInv(sent)

LEMMA RecordsInit == CaptureInit => RecordsInv
<1> SUFFICES ASSUME CaptureInit PROVE RecordsInv
    OBVIOUS
<1>1. received = <<>> /\ ring = <<>> /\ BpfInit
    BY DEF CaptureInit, BpfInit
<1>2. received \in Seq(Event) /\ AllSent = <<>> /\ <<>> \in Seq(Event)
    BY <1>1 DEF AllSent
<1>3. \A sent : sent = <<>> => SentInv(sent)
    BY <1>1, SentInit
<1> QED
    BY <1>2, <1>3 DEF RecordsInv

LEMMA RecordsStep ==
    ASSUME RecordsInv, CaptureNext, phase' # "failed"
    PROVE  RecordsInv'
<1>1. PICK sent \in Seq(Event) : sent = AllSent /\ SentInv(sent)
    BY DEF RecordsInv
<1>2. BpfTypeOK /\ received \in Seq(Event)
    BY <1>1 DEF RecordsInv, SentInv, Base
<1>3. CASE UNCHANGED bpfVars /\ received' = received
  <2>1. SentInv(sent)'
    BY <1>1, <1>3, SentStutter
  <2>2. AllSent' = sent
    BY <1>1, <1>3 DEF AllSent, bpfVars, transport
  <2> QED
    BY <1>2, <1>3, <2>1, <2>2 DEF RecordsInv
<1>4. CASE KernelMoves /\ received' \in Seq(Event)
  <2>1. BpfTypeOK'
    BY <1>1, <1>4, TypeStep DEF KernelMoves, SentInv, Base
  <2>2. AllSent' \in Seq(Event)
    BY <1>4, <2>1, ConcatProperties DEF AllSent, BpfTypeOK
  <2>3. PICK sent2 \in Seq(Event) : sent2 = AllSent'
    BY <2>2
  <2>4. Follows(sent, sent2) /\ BpfNext
    BY <1>1, <1>4, <2>3 DEF KernelMoves
  <2>5. SentInv(sent2)'
    BY <1>1, <2>4, SentStep
  <2> QED
    BY <1>4, <2>3, <2>5 DEF RecordsInv
<1> QED
    BY <1>2, <1>3, <1>4, CaptureKinds, RunsKernel, ReceivesKernel

-----------------------------------------------------------------------------
(* The event a record becomes *)

Owns(e) == e.kind # "VIOLATION"

ReceivedFacts ==
    /\ \A i \in DOMAIN received : received[i] \in Event
    /\ \A i \in DOMAIN received : Owns(received[i]) => received[i].id \in Ids
    /\ \A i, j \in DOMAIN received :
          (Owns(received[i]) /\ Owns(received[j]) /\ received[i].id = received[j].id)
             => received[i].tid = received[j].tid
    /\ \A i, j \in DOMAIN received :
          (received[i].kind = "ENTRY" /\ received[j].kind = "RETURN" /\ received[i].id = received[j].id)
             => received[i].ts <= received[j].ts

\* A record received is one of those submitted, at the same place.
LEMMA ReceivedIsSent ==
    ASSUME RecordsInv, NEW sent \in Seq(Event), sent = AllSent
    PROVE  \A i \in DOMAIN received : i \in DOMAIN sent /\ sent[i] = received[i] /\ i \in Nat
<1>1. received \in Seq(Event) /\ ring \in Seq(Event)
    BY DEF RecordsInv, SentInv, Base, BpfTypeOK
<1>2. /\ Len(sent) = Len(received) + Len(ring) /\ Len(received) \in Nat /\ Len(ring) \in Nat
      /\ \A i \in 1..(Len(received) + Len(ring)) :
            sent[i] = IF i <= Len(received) THEN received[i] ELSE ring[i - Len(received)]
    BY <1>1, ConcatProperties DEF AllSent
<1>3. DOMAIN sent = 1..Len(sent) /\ DOMAIN received = 1..Len(received)
    BY <1>1
<1> QED
    BY <1>2, <1>3

LEMMA FactsOfReceived == ASSUME RecordsInv PROVE ReceivedFacts
<1>1. PICK sent \in Seq(Event) : sent = AllSent /\ SentInv(sent)
    BY DEF RecordsInv
<1>2. /\ \A i \in DOMAIN received : i \in DOMAIN sent /\ sent[i] = received[i]
      /\ \A i \in DOMAIN received : received[i] \in Records(sent)
    BY <1>1, ReceivedIsSent DEF Records
<1>3. \A i \in DOMAIN received : received[i] \in Event
    BY <1>2, RecordType
<1>4. ASSUME NEW i \in DOMAIN received, Owns(received[i]) PROVE received[i].id \in Ids
  <2>1. received[i].id >= 2 /\ received[i].id <= nextId /\ received[i].id \in Nat
    BY <1>1, <1>2, <1>3, <1>4 DEF Owns, SentInv, OwnersInv, Base, IdsInv, Event
  <2>2. nextId \in Nat /\ calls \in Nat /\ MaxCalls \in Nat /\ Cardinality(Entering) \in Nat
    BY <1>1, FS_CardinalityType, BoundAssumption DEF SentInv, Base, BpfTypeOK, SpendsInv
  <2>3. nextId <= MaxCalls + 1
    BY <1>1, <2>2 DEF SentInv, SpendsInv
  <2> QED
    BY <2>1, <2>2, <2>3, CaptureAssumption
<1>5. \A i, j \in DOMAIN received :
         (Owns(received[i]) /\ Owns(received[j]) /\ received[i].id = received[j].id)
             => received[i].tid = received[j].tid
    BY <1>1, <1>2 DEF Owns, SentInv, OwnersInv
<1>6. \A i, j \in DOMAIN received :
         (received[i].kind = "ENTRY" /\ received[j].kind = "RETURN" /\ received[i].id = received[j].id)
             => received[i].ts <= received[j].ts
    BY <1>1, <1>2 DEF SentInv, EndsInv
<1> QED
    BY <1>3, <1>4, <1>5, <1>6 DEF ReceivedFacts

\* The kind of the event.
Becomes(kind) ==
    CASE kind = "ENTRY" -> "Entry"
      [] kind = "RETURN" -> "Return"
      [] kind = "VIOLATION" -> "Violation"
      [] OTHER -> "Sample"

\* The event d says what the record r says.
Stands(d, r) ==
    /\ d.kind = Becomes(r.kind) /\ d.tid = r.tid /\ d.ts = r.ts
    /\ Owns(r) => d.id = r.id
    /\ r.kind \in {"ENTRY", "RETURN"} => d.fn = Function
    /\ Stacked(r) => /\ d.state = (IF r.kind = "OFFCPU" THEN "OffCpu" ELSE "OnCpu")
                     /\ d.weight = r.weight

LEMMA TranslatedStands ==
    ASSUME NEW r \in Event, Owns(r) => r.id \in Ids
    PROVE  Translated(r) \in CollectorEvent /\ Stands(Translated(r), r)
<1>1. /\ r.kind \in Kinds /\ r.tid \in Tids /\ r.ts \in Time /\ r.weight \in Nat
      /\ r.stack \in StackFrames /\ Function \in Functions
      /\ "OnCpu" \in States /\ "OffCpu" \in States
    BY CaptureAssumption DEF Event, Time
<1>2. CASE r.kind = "ENTRY"
    BY <1>1, <1>2 DEF Translated, Stands, Becomes, Owns, Stacked, CollectorEvent, BoundaryEvent
<1>3. CASE r.kind = "RETURN"
    BY <1>1, <1>3 DEF Translated, Stands, Becomes, Owns, Stacked, CollectorEvent, BoundaryEvent
<1>4. CASE r.kind = "VIOLATION"
    BY <1>1, <1>4 DEF Translated, Stands, Becomes, Owns, Stacked, CollectorEvent, ViolationEvent
<1>5. CASE r.kind = "SAMPLE"
    BY <1>1, <1>5 DEF Translated, Stands, Becomes, Owns, Stacked, CollectorEvent, SampleEvent
<1>6. CASE r.kind = "OFFCPU"
    BY <1>1, <1>6 DEF Translated, Stands, Becomes, Owns, Stacked, CollectorEvent, SampleEvent
<1> QED
    BY <1>1, <1>2, <1>3, <1>4, <1>5, <1>6 DEF Kinds

-----------------------------------------------------------------------------
(* The correlator is pushed one consistent event for each record *)

\* g gives the event in the log for each record replayed.
Replays(g) ==
    /\ log = {g[i] : i \in replayed}
    /\ \A i, j \in replayed : g[i] = g[j] => i = j
    /\ \A i \in replayed : Stands(g[i], received[i])

ReplayInv ==
    /\ replayed \subseteq DOMAIN received
    /\ \E g : Replays(g)

\* What finish leaves of a log without invocation ids, and when it runs.
DoneInv ==
    /\ phase \in {"replaying", "done"} => quality["eventsDropped"] = droppedEvents
    /\ phase = "done" => /\ finished /\ replayed = DOMAIN received
                         /\ ~sourceMode => invocations = {} /\ samples = {}

LEMMA EventOfLog ==
    ASSUME ReceivedFacts, ReplayInv, NEW g, Replays(g), NEW d \in log
    PROVE  \E i \in replayed : /\ i \in DOMAIN received /\ d = g[i] /\ Stands(d, received[i])
                               /\ received[i] \in Event
                               /\ d.kind \in AboutInvocation => Owns(received[i]) /\ d.id \in Ids
<1>1. PICK i \in replayed : d = g[i]
    BY DEF Replays
<1>2. i \in DOMAIN received /\ Stands(d, received[i]) /\ received[i] \in Event
    BY <1>1 DEF Replays, ReplayInv, ReceivedFacts
<1>3. d.kind \in AboutInvocation => Owns(received[i])
    BY <1>2 DEF Stands, Becomes, AboutInvocation, Owns
<1>4. Owns(received[i]) => d.id \in Ids
    BY <1>2 DEF Stands, ReceivedFacts
<1> QED
    BY <1>1, <1>2, <1>3, <1>4

\* To one id the kernel gives one thread, and the capture one function.
LEMMA ReplayIsConsistent ==
    ASSUME ReceivedFacts, ReplayInv, NEW i \in DOMAIN received
    PROVE  /\ Translated(received[i]) \in CollectorEvent
           /\ Stands(Translated(received[i]), received[i])
           /\ Consistent(Translated(received[i]))
<1>0. received[i] \in Event /\ (Owns(received[i]) => received[i].id \in Ids)
    BY DEF ReceivedFacts
<1>1. PICK e : e = Translated(received[i])
    OBVIOUS
<1>2. e \in CollectorEvent /\ Stands(e, received[i])
    BY <1>0, <1>1, TranslatedStands
<1>3. ASSUME e.kind \in AboutInvocation, NEW d \in log, d.kind \in AboutInvocation
      PROVE  Agree(d, e)
  <2>1. PICK g : Replays(g)
    BY DEF ReplayInv
  <2>2. PICK j \in DOMAIN received : Stands(d, received[j]) /\ Owns(received[j]) /\ d.id \in Ids
    BY <1>3, <2>1, EventOfLog
  <2>3. Owns(received[i])
    BY <1>2, <1>3 DEF Stands, Becomes, AboutInvocation, Owns
  <2>4. /\ d.id = received[j].id /\ d.tid = received[j].tid
        /\ e.id = received[i].id /\ e.tid = received[i].tid
    BY <1>2, <2>2, <2>3 DEF Stands
  <2>5. d.id # NoId /\ e.id # NoId
    BY <1>0, <2>2, <2>3, <2>4, CollectorAssumption
  <2>6. d.id = e.id => d.tid = e.tid
    BY <2>2, <2>3, <2>4 DEF ReceivedFacts
  <2>7. d.kind # "Sample" => d.fn = Function
    BY <2>2 DEF Stands, Becomes, Owns
  <2>8. e.kind # "Sample" => e.fn = Function
    BY <1>2, <2>3 DEF Stands, Becomes, Owns
  <2> QED
    BY <2>5, <2>6, <2>7, <2>8 DEF Agree
<1> QED
    BY <1>1, <1>2, <1>3 DEF Consistent

\* The log grows by the event of the record.
LEMMA ReplayLogs ==
    ASSUME QualityInv, ReceivedFacts, ReplayInv, NEW i \in Waiting,
           Push(Translated(received[i])), replayed' = replayed \cup {i}, received' = received
    PROVE  ReplayInv'
<1>1. i \in DOMAIN received /\ i \notin replayed
    BY DEF Waiting
<1>2. PICK e \in CollectorEvent : e = Translated(received[i]) /\ Stands(e, received[i])
    BY <1>1, ReplayIsConsistent
<1>3. CorrTypeOK /\ CorrFinite /\ WellTagged(log) /\ Logged(e)
    BY <1>2 DEF QualityInv, CorrInv, Push
<1>4. PICK t : t = Tagged(e, log)
    OBVIOUS
<1>5. t \notin log /\ log' = log \cup {t}
    BY <1>3, <1>4, LogGrows
<1>6. Stands(t, received[i])
  <2>1. /\ t.kind = e.kind
        /\ e.kind # "DroppedEvents" /\ e.kind # "DroppedSamples" => t.tid = e.tid /\ t.ts = e.ts
        /\ e.kind \in AboutInvocation => t.id = e.id
        /\ e.kind \in {"Entry", "Return"} => t.fn = e.fn
        /\ e.kind = "Sample" => t.state = e.state /\ t.weight = e.weight
    BY <1>3, <1>4, TaggedEvent DEF CorrFinite
  <2>2. received[i].kind \in Kinds
    BY <1>1 DEF ReceivedFacts, Event
  <2> QED
    BY <1>2, <2>1, <2>2 DEF Stands, Becomes, Owns, Stacked, AboutInvocation, Kinds
<1>7. PICK g : Replays(g)
    BY DEF ReplayInv
<1>8. PICK h : h = [j \in replayed \cup {i} |-> IF j = i THEN t ELSE g[j]]
    OBVIOUS
<1>9. h[i] = t /\ \A j \in replayed : h[j] = g[j] /\ j # i
    BY <1>1, <1>8
<1>10. log' = {h[j] : j \in replayed \cup {i}}
    BY <1>5, <1>7, <1>9 DEF Replays
<1>11. \A j \in replayed : g[j] \in log
    BY <1>7 DEF Replays
<1>12. \A j, k \in replayed \cup {i} : h[j] = h[k] => j = k
    BY <1>5, <1>7, <1>9, <1>11 DEF Replays
<1>13. \A j \in replayed \cup {i} : Stands(h[j], received[j])
    BY <1>6, <1>7, <1>9 DEF Replays
<1>14. Replays(h)'
    BY <1>10, <1>12, <1>13 DEF Replays, Stands
<1> QED
    BY <1>1, <1>14 DEF ReplayInv

ProfileInv == QualityInv /\ ReplayInv /\ DoneInv

LEMMA ProfileInit == CaptureInit => ProfileInv
<1> SUFFICES ASSUME CaptureInit PROVE ProfileInv
    OBVIOUS
<1>1. QualityInv
    BY QualityInit DEF CaptureInit
<1>2. replayed = {} /\ log = {} /\ phase = "attaching"
    BY DEF CaptureInit, CorrInit
<1>3. Replays(<<>>)
    BY <1>2 DEF Replays
<1>4. ReplayInv
    BY <1>2, <1>3 DEF ReplayInv
<1>5. DoneInv
    BY <1>2 DEF DoneInv
<1> QED
    BY <1>1, <1>4, <1>5 DEF ProfileInv

\* Only three steps touch the profile.
LEMMA ProfileKinds ==
    ASSUME CaptureNext, phase' # "failed"
    PROVE  \/ Replay \/ FinishProfile \/ ReadCounters
           \/ /\ UNCHANGED <<corrVars, replayed>>
              /\ received' = received \/ (RecordReceived /\ received' = Append(received, Head(ring)))
              /\ phase' \in {"replaying", "done"} => /\ phase' = phase /\ received' = received
                                                     /\ droppedEvents' = droppedEvents
<1> DEFINE Apart1 == /\ UNCHANGED <<corrVars, replayed>>
                     /\ received' = received \/ (RecordReceived /\ received' = Append(received, Head(ring)))
                     /\ phase' \in {"replaying", "done"} => /\ phase' = phase /\ received' = received
                                                            /\ droppedEvents' = droppedEvents
<1>1. ASSUME TargetStep PROVE Apart1
    BY <1>1 DEF TargetStep, captureVars
<1>2. ASSUME LeaderExits \/ TargetExits \/ StopRequested PROVE Apart1
    BY <1>2 DEF LeaderExits, TargetExits, StopRequested, bpfVars, transport
<1>3. ASSUME AttachLink \/ DetachLink PROVE Apart1
    BY <1>3 DEF AttachLink, DetachLink, captureVars
<1>4. ASSUME StartPolling \/ LoopTest \/ PollReturned \/ DrainReturned \/ PollInterrupted
             \/ DrainInterrupted
      PROVE  Apart1
    BY <1>4 DEF StartPolling, LoopTest, PollReturned, DrainReturned, PollInterrupted,
                DrainInterrupted
<1>5. ASSUME RecordReceived PROVE Apart1
    BY <1>5 DEF RecordReceived
<1>6. ~CaptureFails
    BY DEF CaptureFails
<1> HIDE DEF Apart1
<1>7. Replay \/ FinishProfile \/ ReadCounters \/ Apart1
    BY <1>1, <1>2, <1>3, <1>4, <1>5, <1>6 DEF CaptureNext, EnvironmentStep, CaptureStep
<1> QED
    BY <1>7 DEF Apart1

\* The counters of what was lost are not among those the profile is held to.
LEMMA CountersRead ==
    ASSUME QualityInv, UNCHANGED <<tables, invocations, samples, finished, log>>,
           quality' \in [Counters -> Nat],
           \A c \in {"complete", "incomplete", "samplesGenerated", "mismatches"} :
              quality'[c] = quality[c]
    PROVE  QualityInv'
<1>1. UNCHANGED <<source, sourceMode, violations, local, nextLocalId>>
    BY DEF tables
<1>2. CorrTypeOK' /\ CorrFinite'
    BY <1>1 DEF QualityInv, CorrInv, CorrTypeOK, CorrFinite, OpenThreads
<1>3. WellTagged(log)' /\ LogConsistent' /\ ViolationsFit' /\ ModeFits'
    BY <1>1 DEF QualityInv, CorrInv, WellTagged, LogConsistent, ViolationsFit, ModeFits, Pushed
<1>4. SourceFits'
    BY <1>1 DEF QualityInv, CorrInv, SourceFits, EntriesOf, ReturnsOf, SamplesOf, Pushed
<1>5. /\ ReportedIds' = ReportedIds
      /\ \A w : AcceptedSamples(ValidIds(w), w)' = AcceptedSamples(ValidIds(w), w)
      /\ \A i, w : SourceReport(i, w)' = SourceReport(i, w)
    BY <1>1 DEF SourceReport, ReportedIds, ReportedValid, AcceptedSamples, ValidIds, PendingOfValid
<1>6. FinishFits'
    BY <1>1, <1>5 DEF QualityInv, CorrInv, FinishFits
<1>7. LocalInv'
    BY <1>1 DEF QualityInv, LocalInv, LocalIdsFit, LocalSamplesFit, OwnedBy, OwnedByOpen
<1>8. Population' = Population /\ Rejected' = Rejected /\ \A k : Pushed(k)' = Pushed(k)
    BY DEF Population, Rejected, Pushed
<1>9. ReportsCounted' /\ SamplesCounted' /\ MismatchesCounted'
    BY <1>1, <1>8 DEF QualityInv, ReportsCounted, SamplesCounted, MismatchesCounted, OnlyIds
<1> QED
    BY <1>2, <1>3, <1>4, <1>6, <1>7, <1>9 DEF QualityInv, CorrInv

\* Neither push nor finish touches the count of lost records.
LEMMA LossesKept ==
    ASSUME CorrTypeOK, \/ \E r \in Event : Push(Translated(r))
                       \/ \E now \in Time : Finish(now)
    PROVE  quality'["eventsDropped"] = quality["eventsDropped"]
<1>0. quality \in [Counters -> Nat] /\ "eventsDropped" \in Counters
    BY DEF CorrTypeOK, Counters
<1>1. ASSUME NEW r \in Event, Push(Translated(r))
      PROVE  quality'["eventsDropped"] = quality["eventsDropped"]
  <2>1. PICK e : e = Translated(r)
    OBVIOUS
  <2>2. e.kind \in {"Entry", "Return", "Violation", "Sample"}
    BY <2>1 DEF Translated
  <2>3. \/ Count([eventsGenerated |-> 1]) \/ Count(NestedCounts)
        \/ Count([eventsGenerated |-> 1, mismatches |-> 1])
        \/ \E a, b, c \in {0, 1} :
              Count([eventsGenerated |-> 1, mismatches |-> a, complete |-> b, incomplete |-> c])
        \/ Count([samplesGenerated |-> 1])
        \/ \E a, b \in {0, 1, 2} : Count([eventsGenerated |-> 1, mismatches |-> a, suspected |-> b])
    <3>1. CASE e.kind = "Entry"
      BY <1>1, <2>1, <3>1 DEF Push, PushEntry, LocalEntry
    <3>2. CASE e.kind = "Return"
      BY <1>1, <2>1, <3>2 DEF Push, PushReturn, LocalReturn, Bit
    <3>3. CASE e.kind = "Sample"
      BY <1>1, <2>1, <3>3 DEF Push, PushSample, LocalSample
    <3>4. CASE e.kind = "Violation"
      BY <1>1, <2>1, <3>4 DEF Push, PushViolation, Bit
    <3> QED
      BY <2>2, <3>1, <3>2, <3>3, <3>4
  <2> QED
    BY <1>0, <2>3, CountValue DEF NestedCounts
<1>2. ASSUME NEW now \in Time, Finish(now)
      PROVE  quality'["eventsDropped"] = quality["eventsDropped"]
  <2>1. \E inc : "eventsDropped" \notin DOMAIN inc /\ Count(inc)
    <3>1. ASSUME NEW a, NEW b, NEW c, NEW d,
                 Count([suspected |-> a, complete |-> b, incomplete |-> c, mismatches |-> d])
          PROVE  \E inc : "eventsDropped" \notin DOMAIN inc /\ Count(inc)
      <4>1. "eventsDropped" \notin DOMAIN [suspected |-> a, complete |-> b, incomplete |-> c, mismatches |-> d]
        OBVIOUS
      <4> QED
        BY <3>1, <4>1
    <3>2. ASSUME NEW a, Count([incomplete |-> a])
          PROVE  \E inc : "eventsDropped" \notin DOMAIN inc /\ Count(inc)
      <4>1. "eventsDropped" \notin DOMAIN [incomplete |-> a]
        OBVIOUS
      <4> QED
        BY <3>2, <4>1
    <3> QED
      BY <1>2, <3>1, <3>2 DEF Finish, FinishSource, FinishLocal
  <2>2. PICK inc : "eventsDropped" \notin DOMAIN inc /\ Count(inc)
    BY <2>1
  <2> QED
    BY <1>0, <2>2, CountValue
<1> QED
    BY <1>1, <1>2

\* A log of a capture holds events with ids alone, so outside source mode
\* finish has nothing to report.
LEMMA FinishEmpty ==
    ASSUME ProfileInv, ReceivedFacts, ~sourceMode, NEW now \in Time, Finish(now)
    PROVE  invocations' = {} /\ samples' = {}
<1>1. PICK g : Replays(g)
    BY DEF ProfileInv, ReplayInv
<1>2. ReplayInv /\ CorrInv
    BY DEF ProfileInv, QualityInv
<1>3. \A d \in log : d.kind \in AboutInvocation => d.id # NoId
    BY <1>1, <1>2, EventOfLog, CollectorAssumption
<1>4. (\A t \in Tids : local[t] = NoRecord) /\ invocations = {} /\ samples = {}
    BY <1>2, <1>3 DEF CorrInv, ModeFits, Finish
<1>5. LocalLeftovers(now) = {}
    BY <1>4 DEF LocalLeftovers
<1> QED
    BY <1>4, <1>5 DEF Finish, FinishLocal

LEMMA ProfileStep ==
    ASSUME RecordsInv, ProfileInv, CaptureNext, phase' # "failed"
    PROVE  ProfileInv'
<1>0. /\ ReceivedFacts /\ QualityInv /\ ReplayInv /\ DoneInv /\ CorrTypeOK
      /\ received \in Seq(Event)
      /\ BpfTypeOK
    BY FactsOfReceived DEF ProfileInv, QualityInv, CorrInv, RecordsInv, SentInv, Base
<1>1. CASE Replay
  <2>1. PICK i \in Waiting : Push(Translated(received[i])) /\ replayed' = replayed \cup {i}
    BY <1>1 DEF Replay
  <2>2. received' = received /\ phase' = phase /\ droppedEvents' = droppedEvents /\ phase = "replaying"
    BY <1>1 DEF Replay, bpfVars, transport
  <2>3. i \in DOMAIN received
    BY DEF Waiting
  <2>4. Translated(received[i]) \in CollectorEvent /\ Consistent(Translated(received[i]))
        /\ received[i] \in Event
    BY <1>0, <2>3, ReplayIsConsistent DEF ReceivedFacts
  <2>5. ConsistentNext
    BY <2>1, <2>4 DEF ConsistentNext
  <2>6. QualityInv'
    BY <1>0, <2>5, QualityStep
  <2>7. ReplayInv'
    BY <1>0, <2>1, <2>2, ReplayLogs
  <2>8. quality'["eventsDropped"] = quality["eventsDropped"]
    BY <1>0, <2>1, <2>4, LossesKept
  <2>9. DoneInv'
    BY <1>0, <2>2, <2>8 DEF DoneInv
  <2> QED
    BY <2>6, <2>7, <2>9 DEF ProfileInv
<1>2. CASE FinishProfile
  <2>1. /\ Finish(clock) /\ phase = "replaying" /\ Waiting = {} /\ phase' = "done"
        /\ UNCHANGED <<received, replayed, droppedEvents>>
    BY <1>2 DEF FinishProfile, bpfVars, transport
  <2>2. clock \in Time
    BY <1>0 DEF BpfTypeOK, Time
  <2>3. ConsistentNext
    BY <2>1, <2>2 DEF ConsistentNext
  <2>4. QualityInv'
    BY <1>0, <2>3, QualityStep
  <2>5. log' = log /\ finished' = TRUE /\ sourceMode' = sourceMode
    BY <2>1 DEF Finish, tables
  <2>6. ReplayInv'
    BY <1>0, <2>1, <2>5 DEF ReplayInv, Replays, Stands
  <2>7. quality'["eventsDropped"] = quality["eventsDropped"]
    BY <1>0, <2>1, <2>2, LossesKept
  <2>8. replayed = DOMAIN received
    BY <1>0, <2>1 DEF Waiting, ReplayInv
  <2>9. ~sourceMode => invocations' = {} /\ samples' = {}
    BY <1>0, <2>1, <2>2, FinishEmpty
  <2>10. DoneInv'
    BY <1>0, <2>1, <2>5, <2>7, <2>8, <2>9 DEF DoneInv
  <2> QED
    BY <2>4, <2>6, <2>10 DEF ProfileInv
<1>3. CASE ReadCounters
  <2>1. /\ quality' = [quality EXCEPT !["eventsDropped"] = droppedEvents,
                                     !["samplesDropped"] = droppedSamples]
        /\ phase' = "replaying"
        /\ UNCHANGED <<tables, invocations, samples, finished, log>>
        /\ UNCHANGED <<received, replayed, droppedEvents>>
    BY <1>3 DEF ReadCounters, bpfVars, transport
  <2>2. quality \in [Counters -> Nat] /\ droppedEvents \in Nat /\ droppedSamples \in Nat
    BY <1>0 DEF CorrTypeOK, BpfTypeOK
  <2>3. /\ quality' \in [Counters -> Nat]
        /\ \A c \in {"complete", "incomplete", "samplesGenerated", "mismatches"} :
              quality'[c] = quality[c]
        /\ quality'["eventsDropped"] = droppedEvents
    BY <2>1, <2>2 DEF Counters
  <2>4. QualityInv'
    BY <1>0, <2>1, <2>3, CountersRead
  <2>5. ReplayInv'
    BY <1>0, <2>1 DEF ReplayInv, Replays, Stands
  <2>6. DoneInv'
    BY <2>1, <2>3 DEF DoneInv
  <2> QED
    BY <2>4, <2>5, <2>6 DEF ProfileInv
<1>4. CASE /\ UNCHANGED <<corrVars, replayed>>
           /\ received' = received \/ (RecordReceived /\ received' = Append(received, Head(ring)))
           /\ phase' \in {"replaying", "done"} => /\ phase' = phase /\ received' = received
                                                  /\ droppedEvents' = droppedEvents
  <2>1. QualityInv'
    BY <1>0, <1>4, QualityStep
  <2>2. UNCHANGED <<log, quality, finished, sourceMode, invocations, samples, replayed>>
    BY <1>4 DEF corrVars, tables, profileVars
  <2>3. \A i \in DOMAIN received : i \in DOMAIN received' /\ received'[i] = received[i]
    <3>1. CASE received' = received
      BY <3>1
    <3>2. CASE received' = Append(received, Head(ring))
      BY <1>0, <3>2
    <3> QED
      BY <1>4, <3>1, <3>2
  <2>4. PICK g : Replays(g)
    BY <1>0 DEF ReplayInv
  <2>5. Replays(g)'
    BY <1>0, <2>2, <2>3, <2>4 DEF Replays, ReplayInv, Stands
  <2>6. ReplayInv'
    BY <1>0, <2>2, <2>3, <2>5 DEF ReplayInv
  <2>7. DoneInv'
    BY <1>0, <1>4, <2>2 DEF DoneInv
  <2> QED
    BY <2>1, <2>6, <2>7 DEF ProfileInv
<1> QED
    BY <1>1, <1>2, <1>3, <1>4, ProfileKinds

-----------------------------------------------------------------------------
(* The capture *)

CaptureInv == phase # "failed" => RecordsInv /\ ProfileInv

LEMMA CaptureInvariant == CaptureSpec => []CaptureInv
<1>1. CaptureInit => CaptureInv
    BY RecordsInit, ProfileInit DEF CaptureInv
<1>2. CaptureInv /\ [CaptureNext]_allVars => CaptureInv'
  <2> SUFFICES ASSUME CaptureInv, [CaptureNext]_allVars, phase' # "failed"
               PROVE  (RecordsInv /\ ProfileInv)'
    BY DEF CaptureInv
  <2>1. CASE CaptureNext
    BY <2>1, CaptureKinds, RecordsStep, ProfileStep DEF CaptureInv
  <2>2. CASE UNCHANGED allVars
    <3>1. UNCHANGED <<bpfVars, corrVars, phase, received, replayed, droppedEvents, ring>>
      BY <2>2 DEF allVars, captureVars, bpfVars, transport
    <3>2. RecordsInv /\ QualityInv /\ ReplayInv /\ DoneInv
      BY <3>1 DEF CaptureInv, ProfileInv
    <3>3. UNCHANGED <<log, quality, finished, sourceMode, invocations, samples>>
      BY <3>1 DEF corrVars, tables, profileVars
    <3>4. QualityInv'
      BY <3>1, <3>2, QualityStep
    <3>5. ReplayInv' /\ DoneInv'
      BY <3>1, <3>2, <3>3 DEF ReplayInv, Replays, Stands, DoneInv
    <3>6. RecordsInv'
      <4>1. PICK sent \in Seq(Event) : sent = AllSent /\ SentInv(sent)
        BY <3>2 DEF RecordsInv
      <4>2. SentInv(sent)'
        BY <3>1, <4>1, SentStutter
      <4>3. AllSent' = sent
        BY <3>1, <4>1 DEF AllSent
      <4> QED
        BY <3>1, <3>2, <4>2, <4>3 DEF RecordsInv
    <3> QED
      BY <3>4, <3>5, <3>6 DEF ProfileInv
  <2> QED
    BY <2>1, <2>2
<1> QED
    BY <1>1, <1>2, PTL DEF CaptureSpec

-----------------------------------------------------------------------------
(* The profile as a profile *)

\* What the correlator leaves when it is done, in either mode.
Finished(now) ==
    /\ invocations = (IF sourceMode THEN {SourceReport(i, now) : i \in ReportedIds} ELSE {})
    /\ samples = (IF sourceMode
                  THEN {Attributed(p[1], p[2]) : p \in AcceptedSamples(ValidIds(now), now)} ELSE {})

LEMMA DoneIsFinished ==
    ASSUME ProfileInv, phase = "done"
    PROVE  \E now \in Time : Finished(now)
<1>1. finished /\ (~sourceMode => invocations = {} /\ samples = {}) /\ FinishFits
    BY DEF ProfileInv, DoneInv, QualityInv, CorrInv
<1>2. CASE sourceMode
    BY <1>1, <1>2 DEF FinishFits, Finished
<1>3. CASE ~sourceMode
    BY <1>1, <1>3 DEF Finished, Time
<1> QED
    BY <1>2, <1>3

\* An invocation ends where it starts or later: its record's times are those
\* of an ENTRY and of a RETURN of one id.
LEMMA ReportsEnd ==
    ASSUME RecordsInv, ProfileInv, NEW i \in ReportedIds, NEW now \in Time
    PROVE  source[i].start \in Nat /\ EndOf(source[i], now) \in Nat
           /\ source[i].start <= EndOf(source[i], now)
<1>0. /\ ReceivedFacts /\ CorrInv /\ CorrTypeOK /\ ReplayInv
      /\ i \in Ids /\ source[i] # NoRecord /\ source[i].start # NoTime
    BY FactsOfReceived DEF ProfileInv, QualityInv, CorrInv, ReportedIds
<1>1. source[i].start \in Nat /\ EndOf(source[i], now) \in Nat
    BY <1>0, ReportedTyped DEF Time
<1>2. RecordAgrees(source[i], EntriesOf(i), ReturnsOf(i), SamplesOf(i))
    BY <1>0, RecordFacts
<1>3. CASE source[i].end = NoTime
    BY <1>1, <1>3 DEF EndOf, MaxOf, Time
<1>4. CASE source[i].end # NoTime
  <2>1. PICK b \in EntriesOf(i) : source[i].start = b.ts
    BY <1>0, <1>2 DEF RecordAgrees
  <2>2. PICK r \in ReturnsOf(i) : source[i].end = r.ts
    BY <1>2, <1>4 DEF RecordAgrees
  <2>3. b \in log /\ b.kind = "Entry" /\ b.id = i /\ r \in log /\ r.kind = "Return" /\ r.id = i
    BY DEF EntriesOf, ReturnsOf, Pushed
  <2>4. PICK g : Replays(g)
    BY <1>0 DEF ReplayInv
  <2>5. PICK k \in DOMAIN received : Stands(b, received[k]) /\ Owns(received[k]) /\ received[k] \in Event
    BY <1>0, <2>3, <2>4, EventOfLog DEF AboutInvocation
  <2>6. PICK m \in DOMAIN received : Stands(r, received[m]) /\ Owns(received[m]) /\ received[m] \in Event
    BY <1>0, <2>3, <2>4, EventOfLog DEF AboutInvocation
  <2>7. received[k].kind = "ENTRY" /\ received[k].id = i /\ received[k].ts = b.ts
    BY <2>3, <2>5 DEF Stands, Becomes
  <2>8. received[m].kind = "RETURN" /\ received[m].id = i /\ received[m].ts = r.ts
    BY <2>3, <2>6 DEF Stands, Becomes
  <2>9. b.ts <= r.ts
    BY <1>0, <2>7, <2>8 DEF ReceivedFacts
  <2> QED
    BY <1>1, <1>4, <2>1, <2>2, <2>9 DEF EndOf
<1> QED
    BY <1>1, <1>3, <1>4

\* What Profile::validate asks of the invocations and the samples.
WellFormed ==
    /\ \A i, j \in invocations : i.id = j.id => i = j
    /\ \A i \in invocations : /\ i.fn = Function /\ i.end >= i.start
                              /\ i.valid => i.complete
    /\ \A s \in samples :
          /\ \E i \in invocations : i.id = s.id /\ i.tid = s.tid /\ i.start <= s.ts /\ s.ts <= i.end
          /\ \E e \in Pushed("Sample") : s = Attributed(e.id, e)

LEMMA ProfileWellFormed ==
    ASSUME RecordsInv, ProfileInv, phase = "done"
    PROVE  WellFormed
<1>0. CorrInv /\ CorrTypeOK
    BY DEF ProfileInv, QualityInv, CorrInv
<1>1. PICK now \in Time : Finished(now)
    BY DoneIsFinished
<1>2. CASE ~sourceMode
    BY <1>1, <1>2 DEF Finished, WellFormed
<1>3. CASE sourceMode
  <2>1. /\ invocations = {SourceReport(i, now) : i \in ReportedIds}
        /\ samples = {Attributed(p[1], p[2]) : p \in AcceptedSamples(ValidIds(now), now)}
    BY <1>1, <1>3 DEF Finished
  <2>2. \A i \in ReportedIds :
           LET x == SourceReport(i, now)
           IN  /\ x.id = i /\ x.tid = source[i].tid /\ x.start = source[i].start
               /\ x.end = EndOf(source[i], now) /\ x.valid = ReportedValid(i, now)
               /\ x.complete = Complete(source[i])
    BY DEF SourceReport, Report
  <2>3. \A i, j \in invocations : i.id = j.id => i = j
    BY <2>1, <2>2
  <2>4. \A i \in invocations : i.fn = Function /\ i.end >= i.start /\ (i.valid => i.complete)
    <3>1. \A i \in invocations : i.fn = Function
      BY <1>0, CaptureAssumption DEF CorrTypeOK, Invocation
    <3>2. \A i \in invocations : i.end >= i.start
      BY <2>1, <2>2, ReportsEnd
    <3>3. \A i \in invocations : i.valid => i.complete
      BY <2>1, <2>2 DEF ReportedValid
    <3> QED
      BY <3>1, <3>2, <3>3
  <2>5. ASSUME NEW s \in samples
        PROVE  /\ \E i \in invocations : i.id = s.id /\ i.tid = s.tid /\ i.start <= s.ts /\ s.ts <= i.end
               /\ \E e \in Pushed("Sample") : s = Attributed(e.id, e)
    <3>1. PICK p \in AcceptedSamples(ValidIds(now), now) : s = Attributed(p[1], p[2])
      BY <2>1
    <3>2. PICK j \in ValidIds(now) : \E w \in source[j].samples : p = <<j, w>>
      BY DEF AcceptedSamples, PendingOfValid
    <3>3. /\ j \in ReportedIds /\ j \in Ids /\ source[j] # NoRecord
          /\ p[1] = j /\ p[2] \in source[j].samples /\ Within(p[2], source[j], now)
      BY <3>2 DEF AcceptedSamples, ValidIds, ReportedIds
    <3>4. RecordAgrees(source[j], EntriesOf(j), ReturnsOf(j), SamplesOf(j))
      BY <1>0, <3>3, RecordFacts
    <3>5. PICK e \in SamplesOf(j) : p[2] = Pending(e) /\ e.tid = source[j].tid
      BY <3>3, <3>4 DEF RecordAgrees, PendingOf
    <3>6. e \in Pushed("Sample") /\ e.id = j
      BY DEF SamplesOf
    <3>7. s = Attributed(e.id, e)
      BY <3>1, <3>3, <3>5, <3>6 DEF Attributed, Pending
    <3>8. s.id = j /\ s.tid = source[j].tid /\ s.ts = p[2].ts
      BY <3>1, <3>3, <3>5 DEF Attributed, Pending
    <3>9. SourceReport(j, now) \in invocations
      BY <2>1, <3>3
    <3> QED
      BY <2>2, <3>3, <3>6, <3>7, <3>8, <3>9 DEF Within
  <2> QED
    BY <2>3, <2>4, <2>5 DEF WellFormed
<1> QED
    BY <1>2, <1>3

\* Without parents the walk to the ancestors ends at its first step.
LEMMA NoParentsNoCycle ==
    ASSUME NEW invs, IsFiniteSet(invs), NEW x \in invs,
           \A i \in invs : i.parent = NoParent, NEW id
    PROVE  Acyclic(invs, id)
<1>1. PICK c \in Nat : c = Cardinality(invs) /\ c # 0
    BY FS_CardinalityType, FS_EmptySet
<1>2. \A y : ParentOf(invs, y) = NoParent
    BY DEF ParentOf, IdsOf
<1> DEFINE Walk(w) == w = [n \in 0..c |-> IF n = 0 THEN id
                                          ELSE IF w[n - 1] = NoParent THEN NoParent
                                               ELSE ParentOf(invs, w[n - 1])]
<1>3. Walk([n \in 0..c |-> IF n = 0 THEN id ELSE NoParent])
    BY <1>2
<1>4. PICK a : a = Ancestor(invs, id)
    OBVIOUS
<1>5. a = CHOOSE w : Walk(w)
    BY <1>1, <1>4 DEF Ancestor
<1>6. Walk(a)
    BY <1>3, <1>5
<1>7. a[c] = NoParent
    BY <1>1, <1>2, <1>6
<1> QED
    BY <1>1, <1>4, <1>7 DEF Acyclic

\* The invocations and the samples as the profile lists them.
Row(i) == [id |-> i.id, fn |-> i.fn, tid |-> i.tid, start |-> i.start, end |-> i.end,
           complete |-> i.complete, valid |-> i.valid, parent |-> NoParent]

SampleRow(s) == [n |-> s.n, id |-> s.id, tid |-> s.tid, ts |-> s.ts, state |-> s.state,
                 weight |-> s.weight, stack |-> s.frames]

Rows == {Row(i) : i \in invocations}
SampleRows == {SampleRow(s) : s \in samples}

\* Distinct invocations make distinct rows.
LEMMA RowsCounted ==
    ASSUME WellFormed, IsFiniteSet(invocations), NEW S \in SUBSET invocations
    PROVE  Cardinality({Row(i) : i \in S}) = Cardinality(S)
<1> DEFINE f == [i \in S |-> Row(i)]
<1>1. \A i \in S : f[i].id = i.id
    BY DEF Row
<1>2. DOMAIN f = S /\ f = [i \in S |-> f[i]] /\ {Row(i) : i \in S} = {f[i] : i \in S}
    OBVIOUS
<1>3. IsFiniteSet(S)
    BY FS_Subset
<1> HIDE DEF f
<1>4. \A i, j \in S : f[i] = f[j] => i = j
    BY <1>1 DEF WellFormed
<1> QED
    BY <1>2, <1>3, <1>4, FiniteImage

\* There are no more samples than were pushed.
LEMMA SampleRowsBounded ==
    ASSUME WellFormed, CorrFinite
    PROVE  Cardinality(SampleRows) <= Cardinality(Pushed("Sample"))
           /\ Cardinality(SampleRows) \in Nat /\ Cardinality(Pushed("Sample")) \in Nat
<1> DEFINE S == Pushed("Sample")
           f == [e \in S |-> SampleRow(Attributed(e.id, e))]
           T == {f[e] : e \in S}
<1>1. IsFiniteSet(S)
  <2>1. S \in SUBSET log /\ IsFiniteSet(log)
    BY DEF Pushed, CorrFinite
  <2> QED
    BY <2>1, FS_Subset
<1>2. SampleRows \in SUBSET T
    BY DEF WellFormed, SampleRows
<1>3. f \in Surjection(S, T)
    BY DEF Surjection
<1> HIDE DEF S, f, T
<1>4. IsFiniteSet(T) /\ Cardinality(T) <= Cardinality(S)
    BY <1>1, <1>3, FS_Surjection
<1>5. IsFiniteSet(SampleRows) /\ Cardinality(SampleRows) <= Cardinality(T)
    BY <1>2, <1>4, FS_Subset
<1>6. Cardinality(SampleRows) \in Nat /\ Cardinality(T) \in Nat /\ Cardinality(S) \in Nat
    BY <1>1, <1>4, <1>5, FS_CardinalityType
<1> QED
    BY <1>4, <1>5, <1>6 DEF S

\* The profile a capture returns passes Profile::validate, which every reader
\* of a profile file applies: whatever the kernel submitted, dropped or left in
\* the ring, the ids capture_pid reports are unique, its invocations end after
\* they start, every sample lies inside an invocation of its thread, and the
\* quality record claims no more than the profile holds.
THEOREM CapturedProfileValidates == CaptureSpec => []ProfileValidates
<1>1. CaptureInv => ProfileValidates
  <2> SUFFICES ASSUME CaptureInv, phase = "done" PROVE Validates(Profile)
    BY DEF ProfileValidates, Done
  <2>0. /\ RecordsInv /\ ProfileInv /\ WellFormed /\ CorrTypeOK /\ CorrFinite
        /\ IsFiniteSet(invocations) /\ ReportsCounted /\ SamplesCounted
    BY ProfileWellFormed DEF CaptureInv, ProfileInv, QualityInv, CorrInv, CorrFinite
  <2> DEFINE p == Profile
  <2>1. /\ p.functions = {Function} /\ p.threads = RebuiltThreads
        /\ p.invocations = Rows /\ p.samples = SampleRows
        /\ p.stacks = {s.frames : s \in samples}
        /\ p.quality.complete = quality["complete"]
        /\ p.quality.incomplete = quality["incomplete"]
        /\ p.quality.samplesGenerated = quality["samplesGenerated"]
    BY DEF Profile, Rows, SampleRows, Row, SampleRow
  <2> HIDE DEF p
  <2>2. \A i : /\ Row(i).id = i.id /\ Row(i).fn = i.fn /\ Row(i).tid = i.tid
               /\ Row(i).start = i.start /\ Row(i).end = i.end
               /\ Row(i).complete = i.complete /\ Row(i).valid = i.valid
               /\ Row(i).parent = NoParent
    BY DEF Row
  <2>3. \A s : /\ SampleRow(s).id = s.id /\ SampleRow(s).tid = s.tid
               /\ SampleRow(s).ts = s.ts /\ SampleRow(s).stack = s.frames
    BY DEF SampleRow
  <2>4. UniqueIds(p.invocations)
    BY <2>0, <2>1, <2>2 DEF UniqueIds, Rows, WellFormed
  <2>5. ASSUME NEW x \in p.invocations PROVE ValidInvocation(p, x)
    <3>1. PICK i \in invocations : x = Row(i)
      BY <2>1, <2>5 DEF Rows
    <3>2. IsFiniteSet(Rows)
      <4> DEFINE f == [j \in invocations |-> Row(j)]
      <4>1. DOMAIN f = invocations /\ f = [j \in invocations |-> f[j]]
            /\ Rows = {f[j] : j \in invocations}
        BY DEF Rows
      <4> HIDE DEF f
      <4> QED
        BY <2>0, <4>1, FiniteImage
    <3>3. \A j \in Rows : j.parent = NoParent
      BY <2>2 DEF Rows
    <3>4. Acyclic(p.invocations, x.id)
      BY <2>1, <2>5, <3>2, <3>3, NoParentsNoCycle
    <3>5. x.fn \in p.functions /\ x.tid \in p.threads /\ x.end >= x.start /\ x.parent = NoParent
      BY <2>0, <2>1, <2>2, <3>1 DEF WellFormed, RebuiltThreads
    <3> QED
      BY <3>4, <3>5 DEF ValidInvocation
  <2>6. ASSUME NEW x \in p.samples PROVE ValidSample(p, x)
    <3>1. PICK s \in samples : x = SampleRow(s)
      BY <2>1, <2>6 DEF SampleRows
    <3>2. PICK i \in invocations : i.id = s.id /\ i.tid = s.tid /\ i.start <= s.ts /\ s.ts <= i.end
      BY <2>0, <3>1 DEF WellFormed
    <3>3. Row(i) \in p.invocations
      BY <2>1 DEF Rows
    <3>4. x.stack \in p.stacks
      BY <2>1, <2>3, <3>1
    <3> QED
      BY <2>2, <2>3, <3>1, <3>2, <3>3, <3>4 DEF ValidSample
  <2>7. ConsistentQuality(p)
    <3> DEFINE counted == {x \in p.invocations : x.complete /\ x.valid}
    <3>1. Population \in SUBSET invocations /\ Rejected \in SUBSET invocations
      BY DEF Population, Rejected
    <3>2. \A i \in invocations : (i.complete /\ i.valid) <=> i.valid
      BY <2>0 DEF WellFormed
    <3>3. counted = {Row(i) : i \in Population}
      BY <2>1, <2>2, <3>2 DEF Rows, Population
    <3>4. p.invocations \ counted = {Row(i) : i \in Rejected}
      BY <2>1, <2>2, <3>2 DEF Rows, Rejected, Population
    <3>5. Cardinality(counted) = Cardinality(Population)
          /\ Cardinality(p.invocations \ counted) = Cardinality(Rejected)
      BY <2>0, <3>1, <3>3, <3>4, RowsCounted
    <3>6. Cardinality(Population) \in Nat /\ Cardinality(Rejected) \in Nat
      BY <2>0, <3>1, FS_Subset, FS_CardinalityType
    <3>7. p.quality.complete <= Cardinality(counted)
          /\ p.quality.incomplete <= Cardinality(p.invocations \ counted)
      BY <2>0, <2>1, <3>5, <3>6 DEF ReportsCounted
    <3>8. p.quality.samplesGenerated >= Cardinality(p.samples)
      BY <2>0, <2>1, SampleRowsBounded DEF SamplesCounted
    <3> QED
      BY <3>7, <3>8 DEF ConsistentQuality
  <2>8. Validates(p)
    BY <2>4, <2>5, <2>6, <2>7 DEF Validates
  <2> QED
    BY <2>8 DEF p
<1> QED
    BY <1>1, CaptureInvariant, PTL

-----------------------------------------------------------------------------
(* A valid invocation is one call *)

\* The count of lost records never goes back to zero.
LEMMA LossesStay ==
    ASSUME BpfTypeOK, KernelStep
    PROVE  droppedEvents' = 0 => droppedEvents = 0
<1>1. UNCHANGED transport => droppedEvents' = droppedEvents
    BY DEF transport
<1>2. ASSUME NEW e, Emit(e) PROVE droppedEvents' = 0 => droppedEvents = 0
    BY <1>2 DEF Emit, BpfTypeOK
<1>3. ASSUME NEW t \in Threads, ProgramStep(t) PROVE droppedEvents' = droppedEvents
    BY <1>1, <1>3 DEF ProgramStep, Call, Return, ThreadExit
<1>4. ASSUME NEW t \in Threads, HandlerStep(t) PROVE droppedEvents' = 0 => droppedEvents = 0
    BY <1>1, <1>2, <1>4 DEF HandlerStep, EntryRejected, EntryInstalled, EntryRefused, EntryAnnounced,
                            ReturnUnmatched, ReturnEmitted, ReturnCleared
<1>5. ASSUME NEW t \in Threads, SampleTaken(t) PROVE droppedEvents' = 0 => droppedEvents = 0
    BY <1>1, <1>2, <1>5 DEF SampleTaken
<1>6. ASSUME NEW prev \in Threads \cup {Other}, NEW next \in Threads \cup {Other},
             SchedSwitch(prev, next)
      PROVE  droppedEvents' = 0 => droppedEvents = 0
    BY <1>1, <1>2, <1>6 DEF SchedSwitch, SwitchHandler, SwitchIn
<1> QED
    BY <1>3, <1>4, <1>5, <1>6 DEF KernelStep

\* An ENTRY and a RETURN of one id, of different calls.
Mismatched(i, j) ==
    /\ received[i].kind = "ENTRY" /\ received[j].kind = "RETURN"
    /\ received[i].id = received[j].id /\ received[i].call # received[j].call

\* MismatchIsReported, of the records received: they were all received while
\* slice_entry was attached.
ReportInv ==
    /\ phase \in {"looping", "polling", "draining"} => Live("entry")
    /\ droppedEvents = 0 =>
          \A i, j \in DOMAIN received : Mismatched(i, j) =>
             \E k \in DOMAIN received : k \in i..j /\ received[k].kind = "VIOLATION"
                                        /\ received[k].tid = received[i].tid

LEMMA LinksPolled ==
    ASSUME CaptureNext, phase' # "failed", phase \in {"looping", "polling", "draining"} => Live("entry")
    PROVE  phase' \in {"looping", "polling", "draining"} => Live("entry")'
<1> DEFINE polls == {"looping", "polling", "draining"}
<1>1. CASE StartPolling
    BY <1>1, LinksAreNames DEF StartPolling, Live, bpfVars
<1>2. ASSUME link' = link, phase' \in polls => phase \in polls PROVE phase' \in polls => Live("entry")'
    BY <1>2 DEF Live
<1>3. CASE TargetStep
  <2>1. link' = link
    BY <1>3 DEF TargetStep, KernelStep, ProgramStep, Call, Return, ThreadExit, HandlerStep,
                EntryRejected, EntryInstalled, EntryRefused, EntryAnnounced, ReturnUnmatched,
                ReturnEmitted, ReturnCleared, SampleTaken, SchedSwitch
  <2>2. phase' = phase
    BY <1>3 DEF TargetStep, captureVars
  <2> QED
    BY <1>2, <2>1, <2>2
<1>4. CASE LeaderExits \/ TargetExits \/ StopRequested
    BY <1>2, <1>4 DEF LeaderExits, TargetExits, StopRequested, bpfVars
<1>5. CASE AttachLink \/ DetachLink \/ ReadCounters \/ Replay \/ FinishProfile
    BY <1>5 DEF AttachLink, DetachLink, ReadCounters, Replay, FinishProfile, captureVars
<1>6. CASE LoopTest \/ PollReturned \/ DrainReturned \/ PollInterrupted \/ DrainInterrupted
    BY <1>2, <1>6 DEF LoopTest, PollReturned, DrainReturned, PollInterrupted, DrainInterrupted, bpfVars
<1>7. CASE RecordReceived
    BY <1>2, <1>7 DEF RecordReceived, Consume
<1>8. ~CaptureFails
    BY DEF CaptureFails
<1> QED
    BY <1>1, <1>3, <1>4, <1>5, <1>6, <1>7, <1>8 DEF CaptureNext, EnvironmentStep, CaptureStep

LEMMA ReportStep ==
    ASSUME RecordsInv, RecordsInv', ReportInv, CaptureNext, phase' # "failed"
    PROVE  ReportInv'
<1>1. phase' \in {"looping", "polling", "draining"} => Live("entry")'
    BY LinksPolled DEF ReportInv
<1>2. CASE RecordReceived
  <2>1. PICK sent \in Seq(Event) : sent = AllSent' /\ SentInv(sent)'
    BY DEF RecordsInv
  <2>2. /\ received' \in Seq(Event) /\ ring' \in Seq(Event)
        /\ Len(received') \in Nat /\ DOMAIN received' = 1..Len(received')
    BY <2>1 DEF RecordsInv, SentInv, Base, BpfTypeOK
  <2>3. /\ Len(sent) = Len(received') + Len(ring') /\ Len(ring') \in Nat
        /\ \A i \in 1..(Len(received') + Len(ring')) :
              sent[i] = IF i <= Len(received') THEN received'[i] ELSE ring'[i - Len(received')]
    BY <2>1, <2>2, ConcatProperties DEF AllSent
  <2>4. DOMAIN sent = 1..Len(sent)
    BY <2>1
  <2>5. \A i \in DOMAIN received' : i \in DOMAIN sent /\ sent[i] = received'[i] /\ i \in Nat
    BY <2>2, <2>3, <2>4
  <2>6. Live("entry")'
    BY <1>1, <1>2 DEF RecordReceived
  <2>7. ASSUME droppedEvents' = 0, NEW i \in DOMAIN received', NEW j \in DOMAIN received', Mismatched(i, j)'
        PROVE  \E k \in DOMAIN received' : k \in i..j /\ received'[k].kind = "VIOLATION"
                                           /\ received'[k].tid = received'[i].tid
    <3>1. Reported(sent)'
      BY <2>1 DEF SentInv
    <3>2. \E k \in DOMAIN sent :
             k \in i..j /\ sent[k].kind = "VIOLATION" /\ sent[k].tid = sent[i].tid
      BY <2>5, <2>6, <2>7, <3>1 DEF Reported, Mismatched
    <3>3. PICK k \in DOMAIN sent :
             k \in i..j /\ sent[k].kind = "VIOLATION" /\ sent[k].tid = sent[i].tid
      BY <3>2
    <3>4. k \in DOMAIN received'
      BY <2>2, <2>4, <2>5, <3>3
    <3> QED
      BY <2>5, <3>3, <3>4
  <2> QED
    BY <1>1, <2>7 DEF ReportInv
<1>3. CASE ~RecordReceived
  <2>0. BpfTypeOK
    BY DEF RecordsInv, SentInv, Base
  <2>1. received' = received /\ (droppedEvents' = 0 => droppedEvents = 0)
    <3>1. CASE KernelStep
      BY <1>3, <2>0, <3>1, LossesStay, CaptureKinds
    <3>2. CASE \E l \in LinkNames : Attach(l) \/ Detach(l)
      BY <1>3, <3>2, CaptureKinds DEF Attach, Detach, transport
    <3>3. CASE UNCHANGED bpfVars
      BY <1>3, <3>3, CaptureKinds DEF bpfVars, transport
    <3> QED
      BY <1>3, <3>1, <3>2, <3>3, CaptureKinds
  <2> QED
    BY <1>1, <2>1 DEF ReportInv, Mismatched
<1> QED
    BY <1>2, <1>3

LEMMA ReportHolds == CaptureSpec => [](phase # "failed" => ReportInv)
<1>1. CaptureInit => ReportInv
    BY DEF CaptureInit, ReportInv
<1>2. CaptureInv /\ CaptureInv' /\ (phase # "failed" => ReportInv) /\ [CaptureNext]_allVars
      => (phase # "failed" => ReportInv)'
  <2> SUFFICES ASSUME CaptureInv, CaptureInv', phase # "failed" => ReportInv, [CaptureNext]_allVars,
                      phase' # "failed"
               PROVE  ReportInv'
    OBVIOUS
  <2>1. CASE CaptureNext
    BY <2>1, CaptureKinds, ReportStep DEF CaptureInv
  <2>2. CASE UNCHANGED allVars
    BY <2>2 DEF allVars, captureVars, bpfVars, transport, ReportInv, Mismatched, Live
  <2> QED
    BY <2>1, <2>2
<1> QED
    BY <1>1, <1>2, CaptureInvariant, PTL DEF CaptureSpec

\* How the times of the records received stand to each other.
ReceivedTimes ==
    /\ \A i, j \in DOMAIN received :
          (/\ i < j /\ received[i].tid = received[j].tid
           /\ received[i].kind \in Boundaries /\ received[j].kind \in Boundaries)
             => received[i].ts <= received[j].ts
    /\ \A i, j \in DOMAIN received :
          (received[i].kind = "OFFCPU" /\ received[j].kind = "ENTRY" /\ received[i].id = received[j].id)
             => received[j].ts <= received[i].ts - received[i].weight
    /\ \A i, j \in DOMAIN received :
          (i < j /\ received[i].tid = received[j].tid /\ Stacked(received[i]) /\ Stacked(received[j]))
             => After(received[j], received[i])

LEMMA TimesOfReceived == ASSUME RecordsInv PROVE ReceivedTimes
<1>1. PICK sent \in Seq(Event) : sent = AllSent /\ SentInv(sent)
    BY DEF RecordsInv
<1>2. /\ \A i \in DOMAIN received : i \in DOMAIN sent /\ sent[i] = received[i]
      /\ \A i \in DOMAIN received : received[i] \in Records(sent)
    BY <1>1, ReceivedIsSent DEF Records
<1>3. OrderInv(sent) /\ Apart(sent) /\ StackInv(sent)
    BY <1>1 DEF SentInv
<1>4. \A i, j \in DOMAIN received :
          (/\ i < j /\ received[i].tid = received[j].tid
           /\ received[i].kind \in Boundaries /\ received[j].kind \in Boundaries)
             => received[i].ts <= received[j].ts
    BY <1>2, <1>3 DEF OrderInv
<1>5. \A i, j \in DOMAIN received :
          (received[i].kind = "OFFCPU" /\ received[j].kind = "ENTRY" /\ received[i].id = received[j].id)
             => received[j].ts <= received[i].ts - received[i].weight
    BY <1>2, <1>3 DEF Apart, LeavesWhole
<1>6. \A i, j \in DOMAIN received :
          (i < j /\ received[i].tid = received[j].tid /\ Stacked(received[i]) /\ Stacked(received[j]))
             => After(received[j], received[i])
    BY <1>2, <1>3 DEF StackInv
<1> QED
    BY <1>4, <1>5, <1>6 DEF ReceivedTimes

\* Every record received has its event in the log of a finished capture.
LEMMA DoneReplays ==
    ASSUME ProfileInv, phase = "done"
    PROVE  \E g : /\ log = {g[i] : i \in DOMAIN received}
                  /\ \A i, j \in DOMAIN received : g[i] = g[j] => i = j
                  /\ \A i \in DOMAIN received : Stands(g[i], received[i])
BY DEF ProfileInv, ReplayInv, DoneInv, Replays

\* A valid invocation of a finished capture lies between its two boundaries.
LEMMA PopulationBoundaries ==
    ASSUME ProfileInv, phase = "done", NEW i \in Population
    PROVE  /\ i.id \in Ids /\ sourceMode
           /\ \E b \in EntriesOf(i.id), r \in ReturnsOf(i.id) :
                 Bracketed(i.id, b, r) /\ i = Report(i.id, b.fn, b.tid, b.ts, r.ts, TRUE, TRUE)
<1>1. PICK now \in Time : Finished(now)
    BY DoneIsFinished
<1>2. CorrInv
    BY DEF ProfileInv, QualityInv
<1>3. sourceMode /\ invocations = {SourceReport(j, now) : j \in ReportedIds}
    BY <1>1 DEF Finished, Population
<1>4. PICK j \in ValidIds(now) : i = SourceReport(j, now)
    BY <1>2, <1>3, PopulationOf
<1>5. i.id = j /\ j \in Ids
    BY <1>4 DEF SourceReport, Report, ValidIds, ReportedIds
<1>6. PICK b \in EntriesOf(j), r \in ReturnsOf(j) : Bracketed(j, b, r)
    BY <1>2, <1>5, ValidIsBracketed
<1>7. i = Report(j, b.fn, b.tid, b.ts, r.ts, TRUE, TRUE)
    BY <1>2, <1>4, <1>5, <1>6, BracketedReport
<1> QED
    BY <1>3, <1>5, <1>6, <1>7

\* Unless the ring lost records, the two boundaries of a valid invocation in
\* the profile capture_pid returns come from one call of the selected function:
\* a return that slice_return took for another call's follows a VIOLATION of
\* the thread, that VIOLATION is received and replayed too, and finish finds it
\* between the two.
THEOREM ValidInvocationIsOneCall == CaptureSpec => []ValidIsOneCall
<1>1. CaptureInv /\ (phase # "failed" => ReportInv) => ValidIsOneCall
  <2> SUFFICES ASSUME CaptureInv, phase # "failed" => ReportInv, phase = "done",
                      quality["eventsDropped"] = 0, NEW i \in Population,
                      NEW e \in ReceivedOf("ENTRY", i.id), NEW r \in ReceivedOf("RETURN", i.id)
               PROVE  e.call = r.call
    BY DEF ValidIsOneCall, Done, OneCall
  <2>1. RecordsInv /\ ProfileInv /\ ReportInv /\ ReceivedFacts /\ ReceivedTimes /\ droppedEvents = 0
    BY FactsOfReceived, TimesOfReceived DEF CaptureInv, ProfileInv, DoneInv
  <2>2. PICK x \in DOMAIN received : e = received[x] /\ received[x].kind = "ENTRY" /\ received[x].id = i.id
    BY DEF ReceivedOf
  <2>3. PICK y \in DOMAIN received : r = received[y] /\ received[y].kind = "RETURN" /\ received[y].id = i.id
    BY DEF ReceivedOf
  <2> SUFFICES ASSUME e.call # r.call PROVE FALSE
    OBVIOUS
  <2>4. PICK z \in DOMAIN received : z \in x..y /\ received[z].kind = "VIOLATION"
                                     /\ received[z].tid = received[x].tid
    BY <2>1, <2>2, <2>3 DEF ReportInv, Mismatched
  <2>5. /\ received[y].tid = received[x].tid
        /\ received[x] \in Event /\ received[y] \in Event /\ received[z] \in Event
    BY <2>1, <2>2, <2>3 DEF ReceivedFacts, Owns
  <2>6. received[x].ts <= received[z].ts /\ received[z].ts <= received[y].ts
    <3>1. x \in Nat /\ y \in Nat /\ z \in Nat
      BY <2>1 DEF RecordsInv
    <3>2. x < z /\ z < y
      BY <2>2, <2>3, <2>4, <3>1
    <3> QED
      BY <2>1, <2>2, <2>3, <2>4, <2>5, <3>2 DEF ReceivedTimes, Boundaries
  <2>7. PICK g : /\ log = {g[k] : k \in DOMAIN received}
                 /\ \A k \in DOMAIN received : Stands(g[k], received[k])
    BY <2>1, DoneReplays
  <2>8. g[x] \in EntriesOf(i.id) /\ g[x].ts = received[x].ts /\ g[x].tid = received[x].tid
    BY <2>2, <2>7 DEF Stands, Becomes, Owns, EntriesOf, Pushed
  <2>9. g[y] \in ReturnsOf(i.id) /\ g[y].ts = received[y].ts
    BY <2>3, <2>7 DEF Stands, Becomes, Owns, ReturnsOf, Pushed
  <2>10. g[z] \in Pushed("Violation") /\ g[z].ts = received[z].ts /\ g[z].tid = received[z].tid
    BY <2>4, <2>7 DEF Stands, Becomes, Owns, Pushed
  <2>11. PICK b, s : Bracketed(i.id, b, s)
    BY <2>1, PopulationBoundaries
  <2>12. g[x] = b /\ g[y] = s
    BY <2>8, <2>9, <2>11 DEF Bracketed
  <2>13. g[z].ts \in b.ts..s.ts
    BY <2>5, <2>6, <2>8, <2>9, <2>10, <2>12 DEF Event
  <2> QED
    BY <2>4, <2>8, <2>10, <2>11, <2>12, <2>13 DEF Bracketed
<1> QED
    BY <1>1, CaptureInvariant, ReportHolds, PTL

\* A sample of the profile is a stack record received.
LEMMA SampleRecord ==
    ASSUME RecordsInv, ProfileInv, phase = "done",
           NEW g, log = {g[k] : k \in DOMAIN received},
           \A k \in DOMAIN received : Stands(g[k], received[k]),
           NEW s \in samples
    PROVE  \E k \in DOMAIN received :
              /\ s = Attributed(g[k].id, g[k])
              /\ Stacked(received[k]) /\ received[k].id = s.id
              /\ received[k].ts = s.ts /\ received[k].weight = s.weight
              /\ s.state = (IF received[k].kind = "OFFCPU" THEN "OffCpu" ELSE "OnCpu")
              /\ received[k] \in Event
<1>1. PICK e \in Pushed("Sample") : s = Attributed(e.id, e)
    BY ProfileWellFormed DEF WellFormed
<1>2. PICK k \in DOMAIN received : e = g[k]
    BY DEF Pushed
<1>3. received[k] \in Event /\ Stands(e, received[k]) /\ e.kind = "Sample"
    BY <1>2, FactsOfReceived DEF ReceivedFacts, Pushed
<1>4. Stacked(received[k]) /\ Owns(received[k])
    BY <1>3 DEF Stands, Becomes, Stacked, Owns, Event, Kinds
<1>5. e.id = received[k].id /\ e.ts = received[k].ts /\ e.weight = received[k].weight
      /\ e.state = (IF received[k].kind = "OFFCPU" THEN "OffCpu" ELSE "OnCpu")
    BY <1>3, <1>4 DEF Stands
<1>6. s.id = e.id /\ s.ts = e.ts /\ s.weight = e.weight /\ s.state = e.state
    BY <1>1 DEF Attributed
<1> QED
    BY <1>1, <1>2, <1>3, <1>4, <1>5, <1>6

\* The off-CPU time the profile attributes to a valid invocation starts inside
\* it and overlaps no other off-CPU time and no on-CPU sample of it: the
\* interval slice_sched_switch reports is the thread's own and is over before
\* the thread is sampled again, and neither the ring, nor its losses, nor the
\* replay mixes the records of two invocations.
THEOREM OffCpuTimeIsOwned == CaptureSpec => []OffCpuTimeIsItsOwn
<1>1. CaptureInv => OffCpuTimeIsItsOwn
  <2> SUFFICES ASSUME CaptureInv, phase = "done", NEW i \in Population,
                      NEW o \in samples, o.id = i.id, o.state = "OffCpu"
               PROVE  /\ i.start <= o.ts - o.weight
                      /\ \A s \in samples \ {o} :
                            s.id = i.id => s.ts <= o.ts - o.weight \/ o.ts <= s.ts - s.weight
                                           \/ (s.state = "OnCpu" /\ o.ts <= s.ts)
    BY DEF OffCpuTimeIsItsOwn, Done
  <2>1. RecordsInv /\ ProfileInv /\ ReceivedFacts /\ ReceivedTimes
    BY FactsOfReceived, TimesOfReceived DEF CaptureInv
  <2>2. PICK g : /\ log = {g[k] : k \in DOMAIN received}
                 /\ \A k \in DOMAIN received : Stands(g[k], received[k])
    BY <2>1, DoneReplays
  <2>3. PICK x \in DOMAIN received :
           /\ o = Attributed(g[x].id, g[x])
           /\ received[x].kind = "OFFCPU" /\ received[x].id = i.id
           /\ received[x].ts = o.ts /\ received[x].weight = o.weight
           /\ received[x] \in Event
    BY <2>1, <2>2, SampleRecord DEF Stacked
  <2>4. i.start <= o.ts - o.weight
    <3>1. PICK b \in EntriesOf(i.id), r \in ReturnsOf(i.id) :
             i = Report(i.id, b.fn, b.tid, b.ts, r.ts, TRUE, TRUE)
      BY <2>1, PopulationBoundaries
    <3>2. i.start = b.ts /\ b \in log /\ b.kind = "Entry" /\ b.id = i.id
      BY <3>1 DEF Report, EntriesOf, Pushed
    <3>3. PICK y \in DOMAIN received : b = g[y]
      BY <2>2, <3>2
    <3>4. received[y].kind = "ENTRY" /\ received[y].id = i.id /\ received[y].ts = b.ts
      <4>1. Stands(b, received[y]) /\ received[y] \in Event
        BY <2>1, <2>2, <3>3 DEF ReceivedFacts
      <4>2. received[y].kind = "ENTRY"
        BY <3>2, <4>1 DEF Stands, Becomes
      <4> QED
        BY <3>2, <4>1, <4>2 DEF Stands, Owns
    <3> QED
      BY <2>1, <2>3, <3>2, <3>4 DEF ReceivedTimes
  <2>5. ASSUME NEW s \in samples \ {o}, s.id = i.id
        PROVE  s.ts <= o.ts - o.weight \/ o.ts <= s.ts - s.weight \/ (s.state = "OnCpu" /\ o.ts <= s.ts)
    <3>1. PICK y \in DOMAIN received :
             /\ s = Attributed(g[y].id, g[y])
             /\ Stacked(received[y]) /\ received[y].id = i.id
             /\ received[y].ts = s.ts /\ received[y].weight = s.weight
             /\ s.state = (IF received[y].kind = "OFFCPU" THEN "OffCpu" ELSE "OnCpu")
      BY <2>1, <2>2, <2>5, SampleRecord
    <3>2. x # y /\ x \in Nat /\ y \in Nat
      BY <2>1, <2>3, <2>5, <3>1 DEF RecordsInv
    <3>3. received[x].tid = received[y].tid /\ Stacked(received[x])
      BY <2>1, <2>3, <3>1 DEF ReceivedFacts, Owns, Stacked
    <3>4. CASE y < x
      <4>1. After(received[x], received[y])
        BY <2>1, <3>1, <3>3, <3>4 DEF ReceivedTimes
      <4> QED
        BY <2>3, <3>1, <4>1 DEF After
    <3>5. CASE x < y
      <4>1. After(received[y], received[x])
        BY <2>1, <3>1, <3>3, <3>5 DEF ReceivedTimes
      <4> QED
        BY <2>3, <3>1, <4>1 DEF After, Stacked
    <3> QED
      BY <3>2, <3>4, <3>5
  <2> QED
    BY <2>4, <2>5
<1> QED
    BY <1>1, CaptureInvariant, PTL

-----------------------------------------------------------------------------
(* A clean call is valid *)

\* Among the records received an id has one ENTRY and one RETURN, and the two
\* of one call carry one id.
Unmixed ==
    /\ \A i, j \in DOMAIN received :
          (received[i].kind \in {"ENTRY", "RETURN"} /\ received[j].kind = received[i].kind
           /\ received[i].id = received[j].id) => i = j
    /\ \A i, j \in DOMAIN received :
          (received[i].kind = "ENTRY" /\ received[j].kind = "RETURN"
           /\ received[i].call = received[j].call) => received[i].id = received[j].id

LEMMA ReceivedUnmixed == ASSUME RecordsInv PROVE Unmixed
<1>1. PICK sent \in Seq(Event) : sent = AllSent /\ SentInv(sent)
    BY DEF RecordsInv
<1>2. /\ \A i \in DOMAIN received : i \in DOMAIN sent /\ sent[i] = received[i]
      /\ \A i \in DOMAIN received : received[i] \in Records(sent)
    BY <1>1, ReceivedIsSent DEF Records
<1>3. OnceInv(sent) /\ HoldsInv(sent)
    BY <1>1 DEF SentInv
<1>4. \A i, j \in DOMAIN received :
         (received[i].kind \in {"ENTRY", "RETURN"} /\ received[j].kind = received[i].kind
          /\ received[i].id = received[j].id) => i = j
    BY <1>2, <1>3 DEF OnceInv
<1>5. \A i, j \in DOMAIN received :
         (received[i].kind = "ENTRY" /\ received[j].kind = "RETURN"
          /\ received[i].call = received[j].call) => received[i].id = received[j].id
    BY <1>2, <1>3 DEF HoldsInv
<1> QED
    BY <1>4, <1>5 DEF Unmixed

\* The records of the thread of received[i] that lie between received[i] and
\* received[j] and are not samples.
Between(i, j) ==
    {k \in DOMAIN received \ {i, j} :
       /\ received[k].tid = received[i].tid
       /\ received[k].kind \in {"ENTRY", "RETURN", "VIOLATION"}
       /\ received[i].ts <= received[k].ts /\ received[k].ts <= received[j].ts}

\* The event of the one record of its kind and id is the only such event.
LEMMA OneEvent ==
    ASSUME RecordsInv, NEW g, log = {g[k] : k \in DOMAIN received},
           \A k \in DOMAIN received : Stands(g[k], received[k]),
           NEW i \in DOMAIN received
    PROVE  /\ received[i].kind = "ENTRY" => EntriesOf(received[i].id) = {g[i]}
           /\ received[i].kind = "RETURN" => ReturnsOf(received[i].id) = {g[i]}
<1>1. Unmixed /\ ReceivedFacts
    BY FactsOfReceived, ReceivedUnmixed
<1>2. ASSUME NEW k \in DOMAIN received
      PROVE  /\ g[k].kind = "Entry" => received[k].kind = "ENTRY" /\ g[k].id = received[k].id
             /\ g[k].kind = "Return" => received[k].kind = "RETURN" /\ g[k].id = received[k].id
  <2>1. Stands(g[k], received[k]) /\ received[k] \in Event
    BY <1>1 DEF ReceivedFacts
  <2>2. received[k].kind \in {"ENTRY", "RETURN"} => g[k].id = received[k].id
    BY <2>1 DEF Stands, Owns
  <2> QED
    BY <2>1, <2>2 DEF Stands, Becomes
<1>3. Stands(g[i], received[i]) /\ g[i] \in log
    OBVIOUS
<1>4. ASSUME received[i].kind = "ENTRY" PROVE EntriesOf(received[i].id) = {g[i]}
  <2>1. g[i].kind = "Entry" /\ g[i].id = received[i].id
    BY <1>3, <1>4 DEF Stands, Becomes, Owns
  <2>2. ASSUME NEW d \in log, d.kind = "Entry", d.id = received[i].id PROVE d = g[i]
    <3>1. PICK k \in DOMAIN received : d = g[k]
      OBVIOUS
    <3>2. received[k].kind = "ENTRY" /\ received[k].id = received[i].id
      BY <1>2, <2>2, <3>1
    <3>3. k = i
      BY <1>1, <1>4, <3>2 DEF Unmixed
    <3> QED
      BY <3>1, <3>3
  <2> QED
    BY <1>3, <2>1, <2>2 DEF EntriesOf, Pushed
<1>5. ASSUME received[i].kind = "RETURN" PROVE ReturnsOf(received[i].id) = {g[i]}
  <2>1. g[i].kind = "Return" /\ g[i].id = received[i].id
    BY <1>3, <1>5 DEF Stands, Becomes, Owns
  <2>2. ASSUME NEW d \in log, d.kind = "Return", d.id = received[i].id PROVE d = g[i]
    <3>1. PICK k \in DOMAIN received : d = g[k]
      OBVIOUS
    <3>2. received[k].kind = "RETURN" /\ received[k].id = received[i].id
      BY <1>2, <2>2, <3>1
    <3>3. k = i
      BY <1>1, <1>5, <3>2 DEF Unmixed
    <3> QED
      BY <3>1, <3>3
  <2> QED
    BY <1>3, <2>1, <2>2 DEF ReturnsOf, Pushed
<1> QED
    BY <1>4, <1>5

\* The events of a clean pair of boundary records bracket its id.
LEMMA CleanIsBracketed ==
    ASSUME RecordsInv, ProfileInv, phase = "done",
           NEW i \in DOMAIN received, NEW j \in DOMAIN received,
           received[i].kind = "ENTRY", received[j].kind = "RETURN",
           received[i].call = received[j].call, Between(i, j) = {}
    PROVE  \E b \in EntriesOf(received[i].id), r \in ReturnsOf(received[i].id) :
              /\ Bracketed(received[i].id, b, r)
              /\ b.fn = Function /\ b.tid = received[i].tid
              /\ b.ts = received[i].ts /\ r.ts = received[j].ts
<1>1. Unmixed /\ ReceivedFacts
    BY FactsOfReceived, ReceivedUnmixed
<1>2. PICK g : /\ log = {g[k] : k \in DOMAIN received}
               /\ \A k \in DOMAIN received : Stands(g[k], received[k])
    BY DoneReplays
<1>3. received[i].id = received[j].id
    BY <1>1 DEF Unmixed
<1>4. received[i].tid = received[j].tid /\ received[i].ts <= received[j].ts
    BY <1>1, <1>3 DEF ReceivedFacts, Owns
<1>5. EntriesOf(received[i].id) = {g[i]} /\ ReturnsOf(received[i].id) = {g[j]}
    BY <1>2, <1>3, OneEvent
<1>6. /\ g[i].fn = Function /\ g[i].tid = received[i].tid /\ g[i].ts = received[i].ts
      /\ g[j].fn = Function /\ g[j].tid = received[j].tid /\ g[j].ts = received[j].ts
    BY <1>2 DEF Stands
<1>7. ASSUME NEW v \in Pushed("Violation"), v.tid = g[i].tid, v.ts \in g[i].ts..g[j].ts PROVE FALSE
  <2>1. PICK k \in DOMAIN received : v = g[k]
    BY <1>2 DEF Pushed
  <2>2. Stands(v, received[k]) /\ received[k] \in Event /\ v.kind = "Violation"
    BY <1>1, <1>2, <2>1 DEF ReceivedFacts, Pushed
  <2>3. received[k].kind = "VIOLATION" /\ received[k].tid = v.tid /\ received[k].ts = v.ts
    BY <2>2 DEF Stands, Becomes
  <2>4. k # i /\ k # j
    BY <2>3
  <2>5. received[i].ts <= received[k].ts /\ received[k].ts <= received[j].ts
    <3>1. received[i].ts \in Nat /\ received[j].ts \in Nat /\ received[k].ts \in Nat
      BY <1>1, <2>2 DEF ReceivedFacts, Event
    <3> QED
      BY <1>6, <1>7, <2>3, <3>1
  <2> QED
    BY <1>6, <1>7, <2>3, <2>4, <2>5 DEF Between
<1>8. Bracketed(received[i].id, g[i], g[j])
    BY <1>4, <1>5, <1>6, <1>7 DEF Bracketed
<1> QED
    BY <1>5, <1>6, <1>8

\* A call whose two boundary records were received, with nothing else of its
\* thread between them, is a valid invocation of the profile with the thread
\* and the times of that call: capture_pid rejects no clean call, whatever the
\* other threads did and whatever was lost around it.
THEOREM CleanCallIsReported == CaptureSpec => []CleanCallIsValid
<1>1. CaptureInv => CleanCallIsValid
  <2> SUFFICES ASSUME CaptureInv, phase = "done",
                      NEW i \in DOMAIN received, NEW j \in DOMAIN received,
                      received[i].kind = "ENTRY", received[j].kind = "RETURN",
                      received[i].call = received[j].call, Between(i, j) = {}
               PROVE  Report(received[i].id, Function, received[i].tid, received[i].ts,
                             received[j].ts, TRUE, TRUE) \in invocations
    BY DEF CleanCallIsValid, Done, Between
  <2>1. RecordsInv /\ ProfileInv /\ ReceivedFacts /\ CorrInv
    BY FactsOfReceived DEF CaptureInv, ProfileInv, QualityInv
  <2>2. PICK id : id = received[i].id
    OBVIOUS
  <2>3. id \in Ids
    BY <2>1, <2>2 DEF ReceivedFacts, Owns
  <2>4. PICK b \in EntriesOf(id), r \in ReturnsOf(id) :
           /\ Bracketed(id, b, r)
           /\ b.fn = Function /\ b.tid = received[i].tid
           /\ b.ts = received[i].ts /\ r.ts = received[j].ts
    BY <2>1, <2>2, CleanIsBracketed
  <2>5. sourceMode
    <3>1. b \in log /\ b.kind = "Entry" /\ b.id = id
      BY <2>4 DEF EntriesOf, Pushed
    <3>2. b.kind \in AboutInvocation /\ b.id # NoId
      BY <2>3, <3>1, CollectorAssumption DEF AboutInvocation
    <3> QED
      BY <2>1, <3>1, <3>2 DEF CorrInv, ModeFits
  <2>6. PICK now \in Time : Finished(now)
    BY <2>1, DoneIsFinished
  <2>7. id \in ReportedIds
    BY <2>1, <2>3, <2>4, ValidIsBracketed DEF ValidIds
  <2>8. SourceReport(id, now) = Report(id, b.fn, b.tid, b.ts, r.ts, TRUE, TRUE)
    BY <2>1, <2>3, <2>4, BracketedReport
  <2> QED
    BY <2>2, <2>4, <2>5, <2>6, <2>7, <2>8 DEF Finished
<1> QED
    BY <1>1, CaptureInvariant, PTL

=============================================================================
