----------------------- MODULE SliceCollector_proofs -----------------------
(***************************************************************************)
(* What holds of the correlator for every set of ids, threads, functions   *)
(* and stacks and for any number of events in any order: its types, and    *)
(* the invariant that ties each source_invocations record to the events    *)
(* pushed for its id, from which the profile's contents follow.            *)
(***************************************************************************)
EXTENDS SliceCollector, FiniteSetTheorems, TLAPS

-----------------------------------------------------------------------------
(* Multisets as sets of tagged elements *)

\* Every element's tag is below the number of those like it.
WellTagged(S) == \A y \in S : y.n \in Nat /\ y.n < Cardinality(Alike(y, S))

LEMMA AlikeFinite ==
    ASSUME NEW S, IsFiniteSet(S), NEW x
    PROVE  IsFiniteSet(Alike(x, S)) /\ Cardinality(Alike(x, S)) \in Nat
<1>1. Alike(x, S) \in SUBSET S
    BY DEF Alike
<1> QED
    BY <1>1, FS_Subset, FS_CardinalityType

\* What a tag leaves alone.
LEMMA TaggedTag ==
    ASSUME NEW S, NEW x, "n" \in DOMAIN x
    PROVE  /\ Tagged(x, S).n = Cardinality(Alike(x, S))
           /\ DOMAIN Tagged(x, S) = DOMAIN x
           /\ \A f \in DOMAIN x : f # "n" => Tagged(x, S)[f] = x[f]
           /\ [Tagged(x, S) EXCEPT !.n = 0] = [x EXCEPT !.n = 0]
BY DEF Tagged

\* The tagged element is new.
LEMMA TaggedIsNew ==
    ASSUME NEW S, IsFiniteSet(S), WellTagged(S), NEW x, "n" \in DOMAIN x
    PROVE  Tagged(x, S) \notin S
<1> SUFFICES ASSUME Tagged(x, S) \in S PROVE FALSE
    OBVIOUS
<1>1. Alike(Tagged(x, S), S) = Alike(x, S)
    BY TaggedTag DEF Alike
<1>2. Tagged(x, S).n = Cardinality(Alike(x, S))
    BY TaggedTag
<1>3. Tagged(x, S).n < Cardinality(Alike(x, S)) /\ Tagged(x, S).n \in Nat
    BY <1>1 DEF WellTagged
<1> QED
    BY <1>2, <1>3, AlikeFinite

\* Adding a tagged element keeps every tag in range.
LEMMA TaggedKeepsTags ==
    ASSUME NEW S, IsFiniteSet(S), WellTagged(S), NEW x, "n" \in DOMAIN x
    PROVE  WellTagged(S \cup {Tagged(x, S)})
<1> DEFINE t == Tagged(x, S)
           T == S \cup {t}
<1>0. IsFiniteSet(T)
    BY FS_AddElement
<1> SUFFICES ASSUME NEW y \in T
             PROVE  y.n \in Nat /\ y.n < Cardinality(Alike(y, T))
    BY DEF WellTagged
<1>1. CASE y \in S
    <2>1. Alike(y, S) \in SUBSET Alike(y, T)
        BY DEF Alike
    <2>2. Cardinality(Alike(y, S)) <= Cardinality(Alike(y, T))
        BY <1>0, <2>1, AlikeFinite, FS_Subset
    <2>3. Cardinality(Alike(y, S)) \in Nat /\ Cardinality(Alike(y, T)) \in Nat
        BY <1>0, AlikeFinite
    <2> QED
        BY <1>1, <2>2, <2>3 DEF WellTagged
<1>2. CASE y = t
    <2>1. Alike(t, T) = Alike(x, S) \cup {t}
        BY TaggedTag DEF Alike
    <2>2. t \notin Alike(x, S)
        BY TaggedIsNew DEF Alike
    <2>3. Cardinality(Alike(t, T)) = Cardinality(Alike(x, S)) + 1
        BY <2>1, <2>2, AlikeFinite, FS_AddElement
    <2>4. t.n = Cardinality(Alike(x, S)) /\ Cardinality(Alike(x, S)) \in Nat
        BY TaggedTag, AlikeFinite
    <2> QED
        BY <1>2, <2>3, <2>4
<1> QED
    BY <1>1, <1>2

-----------------------------------------------------------------------------
(* Events *)

\* The kind of an event says which record it is.
LEMMA EventKinds ==
    ASSUME NEW e \in CollectorEvent
    PROVE  /\ e.kind \in {"Entry", "Return"} => e \in BoundaryEvent
           /\ e.kind = "Violation" => e \in ViolationEvent
           /\ e.kind = "Sample" => e \in SampleEvent
           /\ e.kind \in {"DroppedEvents", "DroppedSamples"} => e \in DropEvent
           /\ "n" \in DOMAIN e
BY DEF CollectorEvent, BoundaryEvent, ViolationEvent, SampleEvent, DropEvent

\* An event keeps its kind and its fields in the log.
LEMMA TaggedEvent ==
    ASSUME NEW e \in CollectorEvent, NEW S, IsFiniteSet(S)
    PROVE  /\ Tagged(e, S) \in CollectorEvent
           /\ Tagged(e, S).kind = e.kind
           /\ e.kind # "DroppedEvents" /\ e.kind # "DroppedSamples" =>
                 Tagged(e, S).tid = e.tid /\ Tagged(e, S).ts = e.ts
           /\ e.kind \in AboutInvocation => Tagged(e, S).id = e.id
           /\ e.kind \in {"Entry", "Return"} => Tagged(e, S).fn = e.fn
           /\ e.kind = "Sample" =>
                 /\ Tagged(e, S).state = e.state /\ Tagged(e, S).weight = e.weight
                 /\ Tagged(e, S).frames = e.frames
<1> DEFINE c == Cardinality(Alike(e, S))
<1>1. c \in Nat
    BY AlikeFinite
<1>2. Tagged(e, S) = [e EXCEPT !.n = c]
    BY DEF Tagged
<1> HIDE DEF c
<1>3. CASE e \in BoundaryEvent
    BY <1>1, <1>2, <1>3 DEF BoundaryEvent, CollectorEvent, AboutInvocation
<1>4. CASE e \in ViolationEvent
    BY <1>1, <1>2, <1>4 DEF ViolationEvent, CollectorEvent, AboutInvocation
<1>5. CASE e \in SampleEvent
    BY <1>1, <1>2, <1>5 DEF SampleEvent, CollectorEvent, AboutInvocation
<1>6. CASE e \in DropEvent
    BY <1>1, <1>2, <1>6 DEF DropEvent, CollectorEvent, AboutInvocation
<1> QED
    BY <1>3, <1>4, <1>5, <1>6 DEF CollectorEvent

-----------------------------------------------------------------------------
(* Types: what the correlator holds is typed, and finite *)

OpenThreads == {t \in Tids : local[t] # NoRecord}

CorrFinite ==
    /\ IsFiniteSet(log)
    /\ IsFiniteSet(violations)
    /\ \A i \in Ids : source[i] # NoRecord => IsFiniteSet(source[i].samples)
    /\ IsFiniteSet(OpenThreads)
    /\ IsFiniteSet(invocations)
    /\ IsFiniteSet(samples)

\* The empty correlator is typed.
LEMMA CorrInitTyped == CorrInit => CorrTypeOK /\ CorrFinite
<1> SUFFICES ASSUME CorrInit PROVE CorrTypeOK /\ CorrFinite
    OBVIOUS
<1>1. CorrTypeOK
    BY DEF CorrInit, CorrTypeOK
<1>2. OpenThreads = {}
    BY DEF CorrInit, OpenThreads
<1>3. CorrFinite
    BY <1>2, FS_EmptySet DEF CorrInit, CorrFinite
<1> QED
    BY <1>1, <1>3

\* Counters only grow by natural numbers.
LEMMA CountType ==
    ASSUME quality \in [Counters -> Nat], NEW inc, Count(inc),
           \A c \in DOMAIN inc : inc[c] \in Nat
    PROVE  quality' \in [Counters -> Nat]
BY DEF Count

\* A record is stored in source_invocations.
LEMMA PushToSourceTyped ==
    ASSUME CorrTypeOK, CorrFinite, NEW id \in Ids,
           NEW r \in SourceInvocation, IsFiniteSet(r.samples), PushToSource(id, r)
    PROVE  /\ source' \in [Ids -> SourceInvocation \cup {NoRecord}]
           /\ \A i \in Ids : source'[i] # NoRecord => IsFiniteSet(source'[i].samples)
<1>1. source' = [source EXCEPT ![id] = r] /\ source \in [Ids -> SourceInvocation \cup {NoRecord}]
    BY DEF PushToSource, CorrTypeOK
<1>2. \A i \in Ids : source'[i] = IF i = id THEN r ELSE source[i]
    BY <1>1
<1> QED
    BY <1>1, <1>2 DEF CorrFinite

\* The record an event meets or creates is one.
LEMMA OrInsertTyped ==
    ASSUME NEW r \in SourceInvocation \cup {NoRecord}, NEW tid \in Tids, NEW fn \in OptFunction,
           NEW start \in OptTime, NEW end \in OptTime
    PROVE  OrInsert(r, Fresh(fn, tid, start, end)) \in SourceInvocation
BY DEF OrInsert, Fresh, SourceInvocation

LEMMA EntryRecordedTyped ==
    ASSUME NEW r \in SourceInvocation \cup {NoRecord}, NEW e \in BoundaryEvent
    PROVE  EntryRecorded(r, e) \in SourceInvocation
<1> DEFINE s == OrInsert(r, Fresh(e.fn, e.tid, e.ts, NoTime))
<1>1. e.fn \in Functions /\ e.tid \in Tids /\ e.ts \in Time
    BY DEF BoundaryEvent
<1>2. s \in SourceInvocation
    BY <1>1, OrInsertTyped DEF OptFunction, OptTime
<1>3. EntryRecorded(r, e) = IF s.sawEntry THEN [s EXCEPT !.valid = FALSE]
         ELSE [s EXCEPT !.sawEntry = TRUE, !.fn = e.fn, !.tid = e.tid, !.start = e.ts,
                        !.valid = s.valid /\ Ordered(e.ts, s.end)]
    BY DEF EntryRecorded
<1> HIDE DEF s
<1>4. Ordered(e.ts, s.end) \in BOOLEAN
    BY DEF Ordered
<1>5. (s.valid /\ Ordered(e.ts, s.end)) \in BOOLEAN
    OBVIOUS
<1> QED
    BY <1>1, <1>2, <1>3, <1>5 DEF SourceInvocation, OptFunction, OptTime

LEMMA ReturnRecordedTyped ==
    ASSUME NEW r \in SourceInvocation \cup {NoRecord}, NEW e \in BoundaryEvent
    PROVE  ReturnRecorded(r, e) \in SourceInvocation
<1> DEFINE s == OrInsert(r, Fresh(e.fn, e.tid, NoTime, e.ts))
           fn == IF s.fn = NoFunction THEN e.fn ELSE s.fn
           v == /\ s.valid
                /\ ~s.sawReturn
                /\ fn = e.fn /\ s.tid = e.tid
                /\ Ordered(s.start, e.ts)
<1>1. e.fn \in Functions /\ e.tid \in Tids /\ e.ts \in Time
    BY DEF BoundaryEvent
<1>2. s \in SourceInvocation
    BY <1>1, OrInsertTyped DEF OptFunction, OptTime
<1>3. ReturnRecorded(r, e) = [s EXCEPT !.sawReturn = TRUE, !.fn = fn, !.end = e.ts, !.valid = v]
    BY DEF ReturnRecorded
<1>4. v \in BOOLEAN
    OBVIOUS
<1>5. fn \in OptFunction
    BY <1>1, <1>2 DEF SourceInvocation, OptFunction
<1> HIDE DEF s, fn, v
<1> QED
    BY <1>1, <1>2, <1>3, <1>4, <1>5 DEF SourceInvocation, OptTime

\* A waiting sample is the event it came from.
LEMMA SampleRecordedTyped ==
    ASSUME NEW r \in SourceInvocation \cup {NoRecord}, NEW e \in SampleEvent,
           r # NoRecord => IsFiniteSet(r.samples)
    PROVE  SampleRecorded(r, e) \in SourceInvocation /\ IsFiniteSet(SampleRecorded(r, e).samples)
<1> DEFINE s == OrInsert(r, Fresh(NoFunction, e.tid, NoTime, NoTime))
           pending == [n |-> 0, tid |-> e.tid, ts |-> e.ts, state |-> e.state,
                       weight |-> e.weight, frames |-> e.frames]
           t == Tagged(pending, s.samples)
<1>1. e.tid \in Tids /\ e.ts \in Time /\ e.state \in States /\ e.weight \in Nat
      /\ e.frames \in StackFrames
    BY DEF SampleEvent
<1>2. s \in SourceInvocation
    BY <1>1, OrInsertTyped DEF OptFunction, OptTime
<1>3. IsFiniteSet(s.samples)
    <2>1. CASE r = NoRecord
        BY <2>1, FS_EmptySet DEF OrInsert, Fresh
    <2>2. CASE r # NoRecord
        BY <2>2 DEF OrInsert
    <2> QED
        BY <2>1, <2>2
<1>4. SampleRecorded(r, e) = [s EXCEPT !.samples = s.samples \cup {t}]
    BY DEF SampleRecorded
<1>5. t = [pending EXCEPT !.n = Cardinality(Alike(pending, s.samples))]
    BY DEF Tagged
<1>6. Cardinality(Alike(pending, s.samples)) \in Nat
    BY <1>3, AlikeFinite
<1>7. t \in PendingSample
    BY <1>1, <1>5, <1>6 DEF PendingSample
<1>8. IsFiniteSet(s.samples \cup {t})
    BY <1>3, FS_AddElement
<1> HIDE DEF s, pending, t
<1> QED
    BY <1>2, <1>4, <1>7, <1>8 DEF SourceInvocation

\* The records of the entry and return arms keep the waiting samples.
LEMMA BoundaryKeepsSamples ==
    ASSUME NEW r \in SourceInvocation \cup {NoRecord}, NEW e \in BoundaryEvent,
           r # NoRecord => IsFiniteSet(r.samples)
    PROVE  IsFiniteSet(EntryRecorded(r, e).samples) /\ IsFiniteSet(ReturnRecorded(r, e).samples)
<1>0. e.fn \in Functions /\ e.tid \in Tids /\ e.ts \in Time
    BY DEF BoundaryEvent
<1>1. ASSUME NEW start \in OptTime, NEW end \in OptTime
      PROVE  IsFiniteSet(OrInsert(r, Fresh(e.fn, e.tid, start, end)).samples)
    BY FS_EmptySet DEF OrInsert, Fresh
<1>2. EntryRecorded(r, e).samples = OrInsert(r, Fresh(e.fn, e.tid, e.ts, NoTime)).samples
    <2> DEFINE s == OrInsert(r, Fresh(e.fn, e.tid, e.ts, NoTime))
    <2>1. s \in SourceInvocation
        BY <1>0, OrInsertTyped DEF OptFunction, OptTime
    <2>2. EntryRecorded(r, e) = IF s.sawEntry THEN [s EXCEPT !.valid = FALSE]
             ELSE [s EXCEPT !.sawEntry = TRUE, !.fn = e.fn, !.tid = e.tid, !.start = e.ts,
                            !.valid = s.valid /\ Ordered(e.ts, s.end)]
        BY DEF EntryRecorded
    <2> HIDE DEF s
    <2>3. EntryRecorded(r, e).samples = s.samples
        BY <2>1, <2>2 DEF SourceInvocation
    <2> QED
        BY <2>3 DEF s
<1>3. ReturnRecorded(r, e).samples = OrInsert(r, Fresh(e.fn, e.tid, NoTime, e.ts)).samples
    <2> DEFINE s == OrInsert(r, Fresh(e.fn, e.tid, NoTime, e.ts))
               fn == IF s.fn = NoFunction THEN e.fn ELSE s.fn
               v == /\ s.valid
                    /\ ~s.sawReturn
                    /\ fn = e.fn /\ s.tid = e.tid
                    /\ Ordered(s.start, e.ts)
    <2>1. s \in SourceInvocation
        BY <1>0, OrInsertTyped DEF OptFunction, OptTime
    <2>2. ReturnRecorded(r, e) = [s EXCEPT !.sawReturn = TRUE, !.fn = fn, !.end = e.ts, !.valid = v]
        BY DEF ReturnRecorded
    <2> HIDE DEF s, fn, v
    <2>3. ReturnRecorded(r, e).samples = s.samples
        BY <2>1, <2>2 DEF SourceInvocation
    <2> QED
        BY <2>3 DEF s
<1> QED
    BY <1>0, <1>1, <1>2, <1>3 DEF OptTime

-----------------------------------------------------------------------------
(* Types are preserved by push *)

\* A boundary or a sample with an id.
LEMMA SourcePushTyped ==
    ASSUME CorrTypeOK, CorrFinite, NEW e \in CollectorEvent, e.kind \in AboutInvocation,
           e.id # NoId,
           e.kind = "Entry" => PushEntry(e),
           e.kind = "Return" => PushReturn(e),
           e.kind = "Sample" => PushSample(e)
    PROVE  /\ source' \in [Ids -> SourceInvocation \cup {NoRecord}]
           /\ \A i \in Ids : source'[i] # NoRecord => IsFiniteSet(source'[i].samples)
           /\ sourceMode' \in BOOLEAN
           /\ quality' \in [Counters -> Nat]
           /\ UNCHANGED <<violations, local, nextLocalId, invocations, samples>>
<1>1. quality \in [Counters -> Nat] /\ source \in [Ids -> SourceInvocation \cup {NoRecord}]
    BY DEF CorrTypeOK
<1>2. CASE e.kind = "Entry"
    <2>1. e \in BoundaryEvent /\ e.id \in Ids
        BY <1>2, EventKinds DEF BoundaryEvent
    <2>2. PushToSource(e.id, EntryRecorded(source[e.id], e)) /\ Count([eventsGenerated |-> 1])
        BY <1>2 DEF PushEntry
    <2>3. EntryRecorded(source[e.id], e) \in SourceInvocation
          /\ IsFiniteSet(EntryRecorded(source[e.id], e).samples)
        BY <1>1, <2>1, EntryRecordedTyped, BoundaryKeepsSamples DEF CorrFinite
    <2>4. \A c \in DOMAIN [eventsGenerated |-> 1] : [eventsGenerated |-> 1][c] \in Nat
        OBVIOUS
    <2>5. quality' \in [Counters -> Nat]
        BY <1>1, <2>2, <2>4, CountType
    <2>6. /\ source' \in [Ids -> SourceInvocation \cup {NoRecord}]
          /\ \A i \in Ids : source'[i] # NoRecord => IsFiniteSet(source'[i].samples)
        BY <2>1, <2>2, <2>3, PushToSourceTyped
    <2> QED
        BY <2>2, <2>5, <2>6 DEF PushToSource
<1>3. CASE e.kind = "Return"
    <2>1. e \in BoundaryEvent /\ e.id \in Ids
        BY <1>3, EventKinds DEF BoundaryEvent
    <2>2. PushToSource(e.id, ReturnRecorded(source[e.id], e)) /\ Count([eventsGenerated |-> 1])
        BY <1>3 DEF PushReturn
    <2>3. ReturnRecorded(source[e.id], e) \in SourceInvocation
          /\ IsFiniteSet(ReturnRecorded(source[e.id], e).samples)
        BY <1>1, <2>1, ReturnRecordedTyped, BoundaryKeepsSamples DEF CorrFinite
    <2>4. \A c \in DOMAIN [eventsGenerated |-> 1] : [eventsGenerated |-> 1][c] \in Nat
        OBVIOUS
    <2>5. quality' \in [Counters -> Nat]
        BY <1>1, <2>2, <2>4, CountType
    <2>6. /\ source' \in [Ids -> SourceInvocation \cup {NoRecord}]
          /\ \A i \in Ids : source'[i] # NoRecord => IsFiniteSet(source'[i].samples)
        BY <2>1, <2>2, <2>3, PushToSourceTyped
    <2> QED
        BY <2>2, <2>5, <2>6 DEF PushToSource
<1>4. CASE e.kind = "Sample"
    <2>1. e \in SampleEvent /\ e.id \in Ids
        BY <1>4, EventKinds DEF SampleEvent
    <2>2. PushToSource(e.id, SampleRecorded(source[e.id], e)) /\ Count([samplesGenerated |-> 1])
        BY <1>4 DEF PushSample
    <2>3. SampleRecorded(source[e.id], e) \in SourceInvocation
          /\ IsFiniteSet(SampleRecorded(source[e.id], e).samples)
        BY <1>1, <2>1, SampleRecordedTyped DEF CorrFinite
    <2>4. \A c \in DOMAIN [samplesGenerated |-> 1] : [samplesGenerated |-> 1][c] \in Nat
        OBVIOUS
    <2>5. quality' \in [Counters -> Nat]
        BY <1>1, <2>2, <2>4, CountType
    <2>6. /\ source' \in [Ids -> SourceInvocation \cup {NoRecord}]
          /\ \A i \in Ids : source'[i] # NoRecord => IsFiniteSet(source'[i].samples)
        BY <2>1, <2>2, <2>3, PushToSourceTyped
    <2> QED
        BY <2>2, <2>5, <2>6 DEF PushToSource
<1> QED
    BY <1>2, <1>3, <1>4 DEF AboutInvocation

\* Types and finiteness of everything but the log.
HeldTyped ==
    /\ source \in [Ids -> SourceInvocation \cup {NoRecord}]
    /\ sourceMode \in BOOLEAN
    /\ violations \subseteq [n : Nat, tid : Tids, ts : Time]
    /\ local \in [Tids -> LocalInvocation \cup {NoRecord}]
    /\ nextLocalId \in Nat
    /\ invocations \subseteq Invocation
    /\ samples \subseteq Sample
    /\ quality \in [Counters -> Nat]

HeldFinite ==
    /\ IsFiniteSet(violations)
    /\ \A i \in Ids : source[i] # NoRecord => IsFiniteSet(source[i].samples)
    /\ IsFiniteSet(OpenThreads)
    /\ IsFiniteSet(invocations)
    /\ IsFiniteSet(samples)

\* Opening or closing the invocation of one thread keeps local typed.
LEMMA LocalUpdateTyped ==
    ASSUME CorrTypeOK, CorrFinite, NEW t \in Tids,
           NEW r \in LocalInvocation \cup {NoRecord}, local' = [local EXCEPT ![t] = r]
    PROVE  local' \in [Tids -> LocalInvocation \cup {NoRecord}] /\ IsFiniteSet(OpenThreads')
<1>1. local \in [Tids -> LocalInvocation \cup {NoRecord}]
    BY DEF CorrTypeOK
<1>2. OpenThreads' \in SUBSET (OpenThreads \cup {t})
    BY <1>1 DEF OpenThreads
<1>3. IsFiniteSet(OpenThreads \cup {t})
    BY FS_AddElement DEF CorrFinite
<1> QED
    BY <1>1, <1>2, <1>3, FS_Subset

\* A report is an invocation of the profile.
LEMMA ReportTyped ==
    ASSUME NEW id \in Nat, NEW fn \in Functions, NEW tid \in Tids, NEW start \in Time,
           NEW end \in Time, NEW complete \in BOOLEAN, NEW valid \in BOOLEAN
    PROVE  Report(id, fn, tid, start, end, complete, valid) \in Invocation
BY DEF Report, Invocation

LEMMA AbandonedTyped ==
    ASSUME CorrTypeOK, NEW t \in Tids, local[t] # NoRecord, NEW now \in Time
    PROVE  Abandoned(t, now) \in Invocation
<1>1. local[t] \in LocalInvocation
    BY DEF CorrTypeOK
<1>2. local[t].id \in Nat /\ local[t].fn \in Functions /\ local[t].start \in Time
    BY <1>1 DEF LocalInvocation
<1>3. MaxOf(now, local[t].start) \in Time
    BY <1>2 DEF MaxOf, Time
<1> QED
    BY <1>2, <1>3, ReportTyped DEF Abandoned

LEMMA LocalEntryTyped ==
    ASSUME CorrTypeOK, CorrFinite, NEW e \in BoundaryEvent, LocalEntry(e)
    PROVE  HeldTyped' /\ HeldFinite'
<1>1. e.fn \in Functions /\ e.tid \in Tids /\ e.ts \in Time
    BY DEF BoundaryEvent
<1>2. [id |-> nextLocalId, fn |-> e.fn, start |-> e.ts, valid |-> TRUE] \in LocalInvocation
    BY <1>1 DEF CorrTypeOK, LocalInvocation
<1>3. local' \in [Tids -> LocalInvocation \cup {NoRecord}] /\ IsFiniteSet(OpenThreads')
    BY <1>1, <1>2, LocalUpdateTyped DEF LocalEntry
<1>4. nextLocalId' \in Nat
    BY DEF LocalEntry, TakeLocalId, CorrTypeOK
<1>5. quality \in [Counters -> Nat]
    BY DEF CorrTypeOK
<1>6. /\ invocations' \subseteq Invocation /\ IsFiniteSet(invocations')
      /\ quality' \in [Counters -> Nat]
    <2>1. CASE local[e.tid] = NoRecord
        <3>1. Count([eventsGenerated |-> 1]) /\ UNCHANGED invocations
            BY <2>1 DEF LocalEntry
        <3>2. \A c \in DOMAIN [eventsGenerated |-> 1] : [eventsGenerated |-> 1][c] \in Nat
            OBVIOUS
        <3>3. quality' \in [Counters -> Nat]
            BY <1>5, <3>1, <3>2, CountType
        <3> QED
            BY <3>1, <3>3 DEF CorrTypeOK, CorrFinite
    <2>2. CASE local[e.tid] # NoRecord
        <3>1. Count(NestedCounts) /\ invocations' = invocations \cup {Abandoned(e.tid, e.ts)}
            BY <2>2 DEF LocalEntry
        <3>2. \A c \in DOMAIN NestedCounts : NestedCounts[c] \in Nat
            BY DEF NestedCounts
        <3>3. quality' \in [Counters -> Nat]
            BY <1>5, <3>1, <3>2, CountType
        <3>4. Abandoned(e.tid, e.ts) \in Invocation
            BY <1>1, <2>2, AbandonedTyped
        <3>5. IsFiniteSet(invocations')
            BY <3>1, FS_AddElement DEF CorrFinite
        <3> QED
            BY <3>1, <3>3, <3>4, <3>5 DEF CorrTypeOK
    <2> QED
        BY <2>1, <2>2
<1>7. UNCHANGED <<source, sourceMode, violations, samples>>
    BY DEF LocalEntry
<1> QED
    BY <1>3, <1>4, <1>6, <1>7 DEF HeldTyped, HeldFinite, CorrTypeOK, CorrFinite

LEMMA LocalReturnTyped ==
    ASSUME CorrTypeOK, CorrFinite, NEW e \in BoundaryEvent, LocalReturn(e)
    PROVE  HeldTyped' /\ HeldFinite'
<1>1. e.fn \in Functions /\ e.tid \in Tids /\ e.ts \in Time
    BY DEF BoundaryEvent
<1>2. quality \in [Counters -> Nat]
    BY DEF CorrTypeOK
<1>3. UNCHANGED <<source, sourceMode, violations, nextLocalId, samples>>
    BY DEF LocalReturn
<1>4. CASE local[e.tid] = NoRecord
    <2>1. Count([eventsGenerated |-> 1, mismatches |-> 1]) /\ UNCHANGED <<local, invocations>>
        BY <1>4 DEF LocalReturn
    <2>2. \A c \in DOMAIN [eventsGenerated |-> 1, mismatches |-> 1] :
             [eventsGenerated |-> 1, mismatches |-> 1][c] \in Nat
        OBVIOUS
    <2>3. quality' \in [Counters -> Nat]
        BY <1>2, <2>1, <2>2, CountType
    <2>4. OpenThreads' = OpenThreads
        BY <2>1 DEF OpenThreads
    <2> QED
        BY <1>3, <2>1, <2>3, <2>4 DEF HeldTyped, HeldFinite, CorrTypeOK, CorrFinite
<1>5. CASE local[e.tid] # NoRecord
    <2> DEFINE open == local[e.tid]
               valid == ReturnMatches(open, e)
               inc == [eventsGenerated |-> 1, mismatches |-> Bit(~valid),
                       complete |-> Bit(valid), incomplete |-> Bit(~valid)]
               rep == Report(open.id, open.fn, e.tid, open.start, e.ts, TRUE, valid)
    <2>1. /\ local' = [local EXCEPT ![e.tid] = NoRecord]
          /\ invocations' = invocations \cup {rep}
          /\ Count(inc)
        BY <1>5 DEF LocalReturn
    <2>2. open \in LocalInvocation
        BY <1>1, <1>5 DEF CorrTypeOK
    <2>3. \A c \in DOMAIN inc : inc[c] \in Nat
        BY DEF Bit
    <2>4. quality' \in [Counters -> Nat]
        BY <1>2, <2>1, <2>3, CountType
    <2>5. valid \in BOOLEAN
        BY DEF ReturnMatches
    <2>6. open.id \in Nat /\ open.fn \in Functions /\ open.start \in Time
        BY <2>2 DEF LocalInvocation
    <2>7. rep \in Invocation
        BY <1>1, <2>5, <2>6, ReportTyped
    <2>8. IsFiniteSet(invocations')
        BY <2>1, FS_AddElement DEF CorrFinite
    <2>9. local' \in [Tids -> LocalInvocation \cup {NoRecord}] /\ IsFiniteSet(OpenThreads')
        BY <1>1, <2>1, LocalUpdateTyped
    <2> HIDE DEF open, valid, inc, rep
    <2> QED
        BY <1>3, <2>1, <2>4, <2>7, <2>8, <2>9 DEF HeldTyped, HeldFinite, CorrTypeOK, CorrFinite
<1> QED
    BY <1>4, <1>5

LEMMA LocalSampleTyped ==
    ASSUME CorrTypeOK, CorrFinite, NEW e \in SampleEvent, LocalSample(e)
    PROVE  HeldTyped' /\ HeldFinite'
<1> DEFINE s == [n |-> 0, id |-> local[e.tid].id, tid |-> e.tid, ts |-> e.ts,
                 state |-> e.state, weight |-> e.weight, frames |-> e.frames]
           c == Cardinality(Alike(s, samples))
<1>1. e.tid \in Tids /\ e.ts \in Time /\ e.state \in States /\ e.weight \in Nat
      /\ e.frames \in StackFrames
    BY DEF SampleEvent
<1>2. UNCHANGED <<tables, invocations>> /\ Count([samplesGenerated |-> 1])
    BY DEF LocalSample
<1>3. \A k \in DOMAIN [samplesGenerated |-> 1] : [samplesGenerated |-> 1][k] \in Nat
    OBVIOUS
<1>4. quality' \in [Counters -> Nat]
    BY <1>2, <1>3, CountType DEF CorrTypeOK
<1>5. samples' \subseteq Sample /\ IsFiniteSet(samples')
    <2>1. CASE local[e.tid] # NoRecord /\ local[e.tid].valid
        <3>1. samples' = samples \cup {Tagged(s, samples)}
            BY <2>1 DEF LocalSample
        <3>2. local[e.tid].id \in Nat
            BY <1>1, <2>1 DEF CorrTypeOK, LocalInvocation
        <3>3. c \in Nat
            BY AlikeFinite DEF CorrFinite
        <3>4. Tagged(s, samples) = [s EXCEPT !.n = c]
            BY DEF Tagged
        <3> HIDE DEF c
        <3>5. Tagged(s, samples) \in Sample
            BY <1>1, <3>2, <3>3, <3>4 DEF Sample
        <3>6. IsFiniteSet(samples')
            BY <3>1, FS_AddElement DEF CorrFinite
        <3> QED
            BY <3>1, <3>5, <3>6 DEF CorrTypeOK
    <2>2. CASE ~(local[e.tid] # NoRecord /\ local[e.tid].valid)
        BY <2>2 DEF LocalSample, CorrTypeOK, CorrFinite
    <2> QED
        BY <2>1, <2>2
<1>6. OpenThreads' = OpenThreads
    BY <1>2 DEF OpenThreads, tables
<1> QED
    BY <1>2, <1>4, <1>5, <1>6 DEF HeldTyped, HeldFinite, CorrTypeOK, CorrFinite, tables

LEMMA PushViolationTyped ==
    ASSUME CorrTypeOK, CorrFinite, NEW e \in ViolationEvent, PushViolation(e)
    PROVE  HeldTyped' /\ HeldFinite'
<1> DEFINE open == local[e.tid]
           early == open # NoRecord /\ e.ts < open.start
           v == [n |-> 0, tid |-> e.tid, ts |-> e.ts]
           c == Cardinality(Alike(v, violations))
           inc == [eventsGenerated |-> 1, mismatches |-> 1 + Bit(early),
                   suspected |-> Bit(open # NoRecord)]
<1>1. e.tid \in Tids /\ e.ts \in Time
    BY DEF ViolationEvent
<1>2. /\ violations' = violations \cup {Tagged(v, violations)}
      /\ local' = IF open = NoRecord THEN local ELSE [local EXCEPT ![e.tid].valid = FALSE]
      /\ Count(inc)
      /\ UNCHANGED <<source, sourceMode, nextLocalId, invocations, samples>>
    BY DEF PushViolation
<1>3. \A k \in DOMAIN inc : inc[k] \in Nat
    BY DEF Bit
<1>4. quality' \in [Counters -> Nat]
    BY <1>2, <1>3, CountType DEF CorrTypeOK
<1>5. violations' \subseteq [n : Nat, tid : Tids, ts : Time] /\ IsFiniteSet(violations')
    <2>1. c \in Nat
        BY AlikeFinite DEF CorrFinite
    <2>2. Tagged(v, violations) = [v EXCEPT !.n = c]
        BY DEF Tagged
    <2> HIDE DEF c
    <2>3. Tagged(v, violations) \in [n : Nat, tid : Tids, ts : Time]
        BY <1>1, <2>1, <2>2
    <2>4. IsFiniteSet(violations')
        BY <1>2, FS_AddElement DEF CorrFinite
    <2> QED
        BY <1>2, <2>3, <2>4 DEF CorrTypeOK
<1>6. local' \in [Tids -> LocalInvocation \cup {NoRecord}] /\ IsFiniteSet(OpenThreads')
    <2>1. CASE open = NoRecord
        BY <1>2, <2>1 DEF CorrTypeOK, CorrFinite, OpenThreads
    <2>2. CASE open # NoRecord
        <3>1. open \in LocalInvocation
            BY <1>1, <2>2 DEF CorrTypeOK
        <3>2. [open EXCEPT !.valid = FALSE] \in LocalInvocation
            BY <3>1 DEF LocalInvocation
        <3>3. local' = [local EXCEPT ![e.tid] = [open EXCEPT !.valid = FALSE]]
            BY <1>2, <2>2
        <3> QED
            BY <1>1, <3>2, <3>3, LocalUpdateTyped
    <2> QED
        BY <2>1, <2>2
<1> HIDE DEF open, early, v, inc
<1> QED
    BY <1>2, <1>4, <1>5, <1>6 DEF HeldTyped, HeldFinite, CorrTypeOK, CorrFinite

LEMMA PushDroppedTyped ==
    ASSUME CorrTypeOK, CorrFinite, NEW e \in DropEvent, PushDropped(e)
    PROVE  HeldTyped' /\ HeldFinite'
<1> DEFINE inc == IF e.kind = "DroppedEvents" THEN [eventsDropped |-> e.count]
                  ELSE [samplesDropped |-> e.count]
<1>1. Count(inc) /\ UNCHANGED <<tables, invocations, samples>>
    BY DEF PushDropped
<1>2. \A k \in DOMAIN inc : inc[k] \in Nat
    BY DEF DropEvent
<1>3. quality' \in [Counters -> Nat]
    BY <1>1, <1>2, CountType DEF CorrTypeOK
<1>4. OpenThreads' = OpenThreads
    BY <1>1 DEF OpenThreads, tables
<1> HIDE DEF inc
<1> QED
    BY <1>1, <1>3, <1>4 DEF HeldTyped, HeldFinite, CorrTypeOK, CorrFinite, tables

\* Every push, with its entry in the log.
LEMMA PushTyped ==
    ASSUME CorrTypeOK, CorrFinite, NEW e \in CollectorEvent, Push(e)
    PROVE  CorrTypeOK' /\ CorrFinite'
<1>1. HeldTyped' /\ HeldFinite'
    <2>1. ASSUME e.kind \in AboutInvocation, e.id # NoId PROVE HeldTyped' /\ HeldFinite'
        <3>1. /\ e.kind = "Entry" => PushEntry(e)
              /\ e.kind = "Return" => PushReturn(e)
              /\ e.kind = "Sample" => PushSample(e)
            BY DEF Push
        <3>2. /\ source' \in [Ids -> SourceInvocation \cup {NoRecord}]
              /\ \A i \in Ids : source'[i] # NoRecord => IsFiniteSet(source'[i].samples)
              /\ sourceMode' \in BOOLEAN
              /\ quality' \in [Counters -> Nat]
              /\ UNCHANGED <<violations, local, nextLocalId, invocations, samples>>
            BY <2>1, <3>1, SourcePushTyped
        <3>3. OpenThreads' = OpenThreads
            BY <3>2 DEF OpenThreads
        <3> QED
            BY <3>2, <3>3 DEF HeldTyped, HeldFinite, CorrTypeOK, CorrFinite
    <2>2. CASE e.kind = "Entry" /\ e.id = NoId
        BY <2>2, EventKinds, LocalEntryTyped DEF Push, PushEntry
    <2>3. CASE e.kind = "Return" /\ e.id = NoId
        BY <2>3, EventKinds, LocalReturnTyped DEF Push, PushReturn
    <2>4. CASE e.kind = "Sample" /\ e.id = NoId
        BY <2>4, EventKinds, LocalSampleTyped DEF Push, PushSample
    <2>5. CASE e.kind = "Violation"
        BY <2>5, EventKinds, PushViolationTyped DEF Push
    <2>6. CASE e.kind \in {"DroppedEvents", "DroppedSamples"}
        BY <2>6, EventKinds, PushDroppedTyped DEF Push
    <2> QED
        BY <2>1, <2>2, <2>3, <2>4, <2>5, <2>6 DEF Push, AboutInvocation
<1>2. log' = log \cup {Tagged(e, log)} /\ finished' = finished
    BY DEF Push, Logged
<1>3. log' \subseteq CollectorEvent /\ IsFiniteSet(log')
    BY <1>2, TaggedEvent, FS_AddElement DEF CorrTypeOK, CorrFinite
<1> QED
    BY <1>1, <1>2, <1>3 DEF HeldTyped, HeldFinite, CorrTypeOK, CorrFinite

-----------------------------------------------------------------------------
(* Finite images *)

\* The image of a finite set is finite, and as large when f tells its
\* elements apart.
LEMMA FiniteImage ==
    ASSUME NEW S, IsFiniteSet(S), NEW f, DOMAIN f = S, f = [x \in S |-> f[x]]
    PROVE  LET T == {f[x] : x \in S}
           IN  /\ IsFiniteSet(T)
               /\ Cardinality(T) \in Nat
               /\ (\A x, y \in S : f[x] = f[y] => x = y) => Cardinality(T) = Cardinality(S)
<1> DEFINE T == {f[x] : x \in S}
<1>1. f \in [S -> T]
    OBVIOUS
<1>2. f \in Surjection(S, T)
    BY <1>1 DEF Surjection
<1>3. (\A x, y \in S : f[x] = f[y] => x = y) => f \in Injection(S, T)
    BY <1>1 DEF Injection, IsInjective
<1> QED
    BY <1>2, <1>3, FS_Surjection, FS_CardinalityType

-----------------------------------------------------------------------------
(* Types are preserved by finish *)

ValidIds(now) == {i \in ReportedIds : ReportedValid(i, now)}

LEMMA ReportedTyped ==
    ASSUME CorrTypeOK, NEW i \in ReportedIds, NEW now \in Time
    PROVE  /\ i \in Ids /\ i \in Nat
           /\ source[i] # NoRecord
           /\ source[i] \in SourceInvocation
           /\ source[i].fn \in Functions /\ source[i].tid \in Tids
           /\ source[i].start \in Time /\ source[i].end \in OptTime
           /\ EndOf(source[i], now) \in Time
           /\ source[i].samples \subseteq PendingSample
<1>1. i \in Ids /\ i \in Nat /\ source[i] # NoRecord /\ source[i].fn # NoFunction
      /\ source[i].start # NoTime
    BY CollectorAssumption DEF ReportedIds
<1>2. source[i] \in SourceInvocation
    BY <1>1 DEF CorrTypeOK
<1>3. /\ source[i].fn \in Functions /\ source[i].tid \in Tids /\ source[i].start \in Time
      /\ source[i].end \in OptTime /\ source[i].samples \subseteq PendingSample
    BY <1>1, <1>2 DEF SourceInvocation, OptFunction, OptTime
<1>4. EndOf(source[i], now) \in Time
    BY <1>3 DEF EndOf, MaxOf, OptTime, Time
<1> QED
    BY <1>1, <1>2, <1>3, <1>4

LEMMA CaughtFinite ==
    ASSUME CorrFinite
    PROVE  IsFiniteSet(CaughtPairs) /\ Cardinality(CaughtPairs) \in Nat
<1>1. IsFiniteSet(violations \X Ids)
    BY CollectorAssumption, FS_Product DEF CorrFinite
<1>2. CaughtPairs \in SUBSET (violations \X Ids)
    BY DEF CaughtPairs
<1> QED
    BY <1>1, <1>2, FS_Subset, FS_CardinalityType

LEMMA IdsFinite ==
    ASSUME NEW S \in SUBSET ReportedIds
    PROVE  IsFiniteSet(S) /\ Cardinality(S) \in Nat
<1>1. S \in SUBSET Ids
    BY DEF ReportedIds
<1> QED
    BY <1>1, CollectorAssumption, FS_Subset, FS_CardinalityType

\* The samples waiting in the records of S.
LEMMA PendingFinite ==
    ASSUME CorrFinite, NEW S \in SUBSET ReportedIds
    PROVE  IsFiniteSet(PendingOfValid(S)) /\ Cardinality(PendingOfValid(S)) \in Nat
<1> DEFINE row == [i \in S |-> {<<i, s>> : s \in source[i].samples}]
<1>1. ASSUME NEW i \in S PROVE IsFiniteSet(row[i])
    <2> DEFINE pair == [s \in source[i].samples |-> <<i, s>>]
    <2>1. IsFiniteSet(source[i].samples)
        BY DEF CorrFinite, ReportedIds
    <2>2. DOMAIN pair = source[i].samples /\ pair = [s \in source[i].samples |-> pair[s]]
        OBVIOUS
    <2>3. row[i] = {pair[s] : s \in source[i].samples}
        OBVIOUS
    <2> HIDE DEF pair, row
    <2> QED
        BY <2>1, <2>2, <2>3, FiniteImage
<1>2. IsFiniteSet({row[i] : i \in S})
    <2>1. DOMAIN row = S /\ row = [i \in S |-> row[i]]
        OBVIOUS
    <2> HIDE DEF row
    <2> QED
        BY <2>1, IdsFinite, FiniteImage
<1>3. PendingOfValid(S) = UNION {row[i] : i \in S}
    BY DEF PendingOfValid
<1> HIDE DEF row
<1>4. \A T \in {row[i] : i \in S} : IsFiniteSet(T)
    BY <1>1
<1> QED
    BY <1>2, <1>3, <1>4, FS_UNION, FS_CardinalityType

\* What is given up when the capture ends: one report per open thread.
LEMMA LeftoversTyped ==
    ASSUME CorrTypeOK, CorrFinite, NEW now \in Time
    PROVE  /\ LocalLeftovers(now) \subseteq Invocation
           /\ IsFiniteSet(LocalLeftovers(now))
           /\ Cardinality(LocalLeftovers(now)) = Cardinality(OpenThreads)
           /\ Cardinality(OpenThreads) \in Nat
<1> DEFINE left == [t \in OpenThreads |-> Abandoned(t, now)]
<1>1. LocalLeftovers(now) = {left[t] : t \in OpenThreads}
    BY DEF LocalLeftovers, OpenThreads
<1>2. \A t \in OpenThreads : left[t] \in Invocation /\ left[t].tid = t
    BY AbandonedTyped DEF OpenThreads, Abandoned, Report
<1>3. IsFiniteSet(OpenThreads)
    BY DEF CorrFinite
<1>4. DOMAIN left = OpenThreads /\ left = [t \in OpenThreads |-> left[t]]
    OBVIOUS
<1> HIDE DEF left
<1>5. \A t, u \in OpenThreads : left[t] = left[u] => t = u
    BY <1>2
<1>6. IsFiniteSet({left[t] : t \in OpenThreads})
      /\ Cardinality({left[t] : t \in OpenThreads}) = Cardinality(OpenThreads)
    BY <1>3, <1>4, <1>5, FiniteImage
<1>7. LocalLeftovers(now) \subseteq Invocation
    BY <1>1, <1>2
<1> QED
    BY <1>1, <1>3, <1>6, <1>7, FS_CardinalityType

LEMMA FinishSourceTyped ==
    ASSUME CorrTypeOK, CorrFinite, NEW now \in Time, FinishSource(now)
    PROVE  /\ invocations' \subseteq Invocation /\ IsFiniteSet(invocations')
           /\ samples' \subseteq Sample /\ IsFiniteSet(samples')
           /\ quality' \in [Counters -> Nat]
<1> DEFINE valid == ValidIds(now)
           accepted == AcceptedSamples(valid, now)
           reports == {SourceReport(i, now) : i \in ReportedIds}
           kept == {Attributed(p[1], p[2]) : p \in accepted}
           inc == [suspected |-> Cardinality(CaughtPairs),
                   complete |-> Cardinality(valid),
                   incomplete |-> Cardinality(ReportedIds \ valid) + Cardinality(LocalLeftovers(now)),
                   mismatches |-> Cardinality(PendingOfValid(valid) \ accepted) + Cardinality(Broken(valid))]
<1>1. /\ invocations' = invocations \cup reports \cup LocalLeftovers(now)
      /\ samples' = samples \cup kept
      /\ Count(inc)
    BY DEF FinishSource, ValidIds
<1>2. valid \in SUBSET ReportedIds
    BY DEF ValidIds
<1>3. accepted \in SUBSET PendingOfValid(valid)
    BY DEF AcceptedSamples
<1>4. IsFiniteSet(PendingOfValid(valid)) /\ IsFiniteSet(accepted)
    BY <1>2, <1>3, PendingFinite, FS_Subset
<1>5. reports \subseteq Invocation /\ IsFiniteSet(reports)
    <2> DEFINE f == [i \in ReportedIds |-> SourceReport(i, now)]
    <2>1. \A i \in ReportedIds : SourceReport(i, now) \in Invocation
        BY ReportedTyped, ReportTyped DEF SourceReport, Complete, ReportedValid, SourceInvocation
    <2>2. reports = {f[i] : i \in ReportedIds}
        OBVIOUS
    <2>3. DOMAIN f = ReportedIds /\ f = [i \in ReportedIds |-> f[i]]
        OBVIOUS
    <2>4. IsFiniteSet(ReportedIds)
        BY IdsFinite
    <2> HIDE DEF f
    <2>5. IsFiniteSet(reports)
        BY <2>2, <2>3, <2>4, FiniteImage
    <2> QED
        BY <2>1, <2>5
<1>6. kept \subseteq Sample /\ IsFiniteSet(kept)
    <2> DEFINE f == [p \in accepted |-> Attributed(p[1], p[2])]
    <2>1. ASSUME NEW p \in accepted PROVE Attributed(p[1], p[2]) \in Sample
        <3>1. PICK i \in valid : \E s \in source[i].samples : p = <<i, s>>
            BY <1>3 DEF PendingOfValid
        <3>2. p[1] = i /\ p[2] \in source[i].samples
            BY <3>1
        <3>3. p[2] \in PendingSample /\ i \in Nat
            BY <1>2, <3>2, ReportedTyped
        <3> QED
            BY <3>2, <3>3 DEF Attributed, Sample, PendingSample
    <2>2. kept = {f[p] : p \in accepted}
        OBVIOUS
    <2>3. DOMAIN f = accepted /\ f = [p \in accepted |-> f[p]]
        OBVIOUS
    <2> HIDE DEF f
    <2>4. IsFiniteSet(kept)
        BY <1>4, <2>2, <2>3, FiniteImage
    <2> QED
        BY <2>1, <2>4
<1>7. \A c \in DOMAIN inc : inc[c] \in Nat
    <2>1. Cardinality(CaughtPairs) \in Nat
        BY CaughtFinite
    <2>2. Cardinality(valid) \in Nat /\ Cardinality(ReportedIds \ valid) \in Nat
          /\ Cardinality(Broken(valid)) \in Nat
        BY <1>2, IdsFinite DEF Broken
    <2>3. Cardinality(LocalLeftovers(now)) \in Nat
        BY LeftoversTyped
    <2>4. Cardinality(PendingOfValid(valid) \ accepted) \in Nat
        BY <1>4, FS_Difference, FS_CardinalityType
    <2> HIDE DEF valid, accepted
    <2> QED
        BY <2>1, <2>2, <2>3, <2>4
<1>8. quality' \in [Counters -> Nat]
    BY <1>1, <1>7, CountType DEF CorrTypeOK
<1>9. IsFiniteSet(invocations') /\ IsFiniteSet(samples')
    BY <1>1, <1>5, <1>6, LeftoversTyped, FS_Union DEF CorrFinite
<1> HIDE DEF valid, accepted, reports, kept, inc
<1> QED
    BY <1>1, <1>5, <1>6, <1>8, <1>9, LeftoversTyped DEF CorrTypeOK

LEMMA FinishTyped ==
    ASSUME CorrTypeOK, CorrFinite, NEW now \in Time, Finish(now)
    PROVE  CorrTypeOK' /\ CorrFinite'
<1>1. UNCHANGED <<tables, log>> /\ finished' = TRUE
    BY DEF Finish
<1>2. OpenThreads' = OpenThreads
    BY <1>1 DEF OpenThreads, tables
<1>3. CASE sourceMode
    <2>1. /\ invocations' \subseteq Invocation /\ IsFiniteSet(invocations')
          /\ samples' \subseteq Sample /\ IsFiniteSet(samples')
          /\ quality' \in [Counters -> Nat]
        BY <1>3, FinishSourceTyped DEF Finish
    <2> QED
        BY <1>1, <1>2, <2>1 DEF CorrTypeOK, CorrFinite, tables
<1>4. CASE ~sourceMode
    <2> DEFINE inc == [incomplete |-> Cardinality(LocalLeftovers(now))]
    <2>1. /\ invocations' = invocations \cup LocalLeftovers(now)
          /\ Count(inc) /\ UNCHANGED samples
        BY <1>4 DEF Finish, FinishLocal
    <2>2. \A c \in DOMAIN inc : inc[c] \in Nat
        BY LeftoversTyped
    <2>3. quality' \in [Counters -> Nat]
        BY <2>1, <2>2, CountType DEF CorrTypeOK
    <2>4. IsFiniteSet(invocations')
        BY <2>1, LeftoversTyped, FS_Union DEF CorrFinite
    <2> HIDE DEF inc
    <2> QED
        BY <1>1, <1>2, <2>1, <2>3, <2>4, LeftoversTyped DEF CorrTypeOK, CorrFinite, tables
<1> QED
    BY <1>3, <1>4

\* One step of the correlator, whatever is pushed.
LEMMA CorrStepTyped == CorrTypeOK /\ CorrFinite /\ [CorrNext]_corrVars => CorrTypeOK' /\ CorrFinite'
<1> SUFFICES ASSUME CorrTypeOK, CorrFinite, [CorrNext]_corrVars
             PROVE  CorrTypeOK' /\ CorrFinite'
    OBVIOUS
<1>1. CASE \E e \in CollectorEvent : Push(e)
    BY <1>1, PushTyped
<1>2. CASE \E now \in Time : Finish(now)
    BY <1>2, FinishTyped
<1>3. CASE UNCHANGED corrVars
    BY <1>3 DEF corrVars, tables, profileVars, CorrTypeOK, CorrFinite, OpenThreads
<1> QED
    BY <1>1, <1>2, <1>3 DEF CorrNext

\* Whatever events are pushed in whatever order, the correlator's tables and
\* the profile it builds are typed: an invocation is never reported without a
\* function, a start and an end.
THEOREM CorrelatorTyped == CorrSpec => []CorrTypeOK
<1>1. CorrInit => CorrTypeOK /\ CorrFinite
    BY CorrInitTyped
<1>2. CorrTypeOK /\ CorrFinite /\ [CorrNext]_corrVars => CorrTypeOK' /\ CorrFinite'
    BY CorrStepTyped
<1> QED
    BY <1>1, <1>2, PTL DEF CorrSpec

-----------------------------------------------------------------------------
(* Source mode: what a record says of the events of its id *)

\* An event as a waiting sample.
Pending(e) == [n |-> e.n, tid |-> e.tid, ts |-> e.ts, state |-> e.state,
               weight |-> e.weight, frames |-> e.frames]

AtMostOne(S) == \A x, y \in S : x = y

PendingOf(S) == {Pending(e) : e \in S}

\* Each boundary came once at most, and none came on the wrong side of another.
InOrder(B, R) ==
    /\ AtMostOne(B) /\ AtMostOne(R)
    /\ \A b \in B, x \in R : b.ts <= x.ts

\* r is the record of an id with the entries B, the returns R and the samples
\* S: it is marked invalid exactly when a boundary came twice or the two are
\* the wrong way round, whichever of them came first.
RecordAgrees(r, B, R, S) ==
    /\ B \cup R \cup S # {}
    /\ \A e \in B \cup R \cup S : e.tid = r.tid
    /\ \A e \in B \cup R : e.fn = r.fn
    /\ B \cup R = {} => r.fn = NoFunction
    /\ r.sawEntry <=> B # {}
    /\ r.sawReturn <=> R # {}
    /\ B = {} => r.start = NoTime
    /\ B # {} => \E b \in B : r.start = b.ts
    /\ R = {} => r.end = NoTime
    /\ R # {} => \E x \in R : r.end = x.ts
    /\ r.valid <=> InOrder(B, R)
    /\ r.samples = PendingOf(S)

RecordFits(r, B, R, S) ==
    IF r = NoRecord THEN B = {} /\ R = {} /\ S = {} ELSE RecordAgrees(r, B, R, S)

SourceFits == \A i \in Ids : RecordFits(source[i], EntriesOf(i), ReturnsOf(i), SamplesOf(i))

LogConsistent ==
    \A d, e \in log : d.kind \in AboutInvocation /\ e.kind \in AboutInvocation => Agree(d, e)

\* The violations kept for finish are those pushed.
ViolationsFit ==
    /\ \A v \in violations : \E e \in Pushed("Violation") : e.tid = v.tid /\ e.ts = v.ts
    /\ \A e \in Pushed("Violation") : \E v \in violations : e.tid = v.tid /\ e.ts = v.ts

\* Events with ids set source_mode; without local events nothing is open, and
\* nothing is reported before finish.
ModeFits ==
    /\ sourceMode <=> \E e \in log : e.kind \in AboutInvocation /\ e.id # NoId
    /\ (\A e \in log : e.kind \in AboutInvocation => e.id # NoId) =>
          /\ \A t \in Tids : local[t] = NoRecord
          /\ ~finished => invocations = {} /\ samples = {}

\* What finish made of the records.
FinishFits ==
    (finished /\ sourceMode) =>
       \E now \in Time :
          /\ invocations = {SourceReport(i, now) : i \in ReportedIds}
          /\ samples = {Attributed(p[1], p[2]) : p \in AcceptedSamples(ValidIds(now), now)}

CorrInv ==
    /\ CorrTypeOK /\ CorrFinite
    /\ WellTagged(log) /\ LogConsistent
    /\ SourceFits /\ ViolationsFit /\ ModeFits /\ FinishFits

-----------------------------------------------------------------------------
(* Each arm of push keeps the record in step with the events of its id *)

\* What or_insert_with leaves in the table agrees with the events so far and
\* with the next one, e; start and end are those of a new record.
Meets(s, B, R, S, e, start, end) ==
    /\ s \in SourceInvocation
    /\ s.tid = e.tid
    /\ s.fn = e.fn \/ s.fn = NoFunction
    /\ s.fn # NoFunction \/ B \cup R = {}
    /\ s.sawEntry <=> B # {}
    /\ s.sawReturn <=> R # {}
    /\ B = {} => s.start \in {start, NoTime}
    /\ B # {} => \E b \in B : s.start = b.ts
    /\ R = {} => s.end \in {end, NoTime}
    /\ R # {} => \E x \in R : s.end = x.ts
    /\ s.valid <=> InOrder(B, R)
    /\ s.samples = PendingOf(S)

LEMMA OrInsertFits ==
    ASSUME NEW r \in SourceInvocation \cup {NoRecord}, NEW B, NEW R, NEW S,
           RecordFits(r, B, R, S), NEW e \in BoundaryEvent,
           \A d \in B \cup R \cup S : d.tid = e.tid,
           \A d \in B \cup R : d.fn = e.fn,
           NEW start \in OptTime, NEW end \in OptTime
    PROVE  Meets(OrInsert(r, Fresh(e.fn, e.tid, start, end)), B, R, S, e, start, end)
<1> DEFINE f == Fresh(e.fn, e.tid, start, end)
           s == OrInsert(r, f)
<1>0. e.fn \in Functions /\ e.tid \in Tids /\ e.ts \in Time
    BY DEF BoundaryEvent
<1>1. s \in SourceInvocation
    BY <1>0, OrInsertTyped DEF OptFunction
<1>2. CASE r = NoRecord
    <2>1. B = {} /\ R = {} /\ S = {}
        BY <1>2 DEF RecordFits
    <2>2. s = f
        BY <1>2 DEF OrInsert
    <2>3. /\ f.tid = e.tid /\ f.fn = e.fn /\ f.sawEntry = FALSE /\ f.sawReturn = FALSE
          /\ f.valid = TRUE /\ f.samples = {} /\ f.start = start /\ f.end = end
        BY DEF Fresh
    <2>4. PendingOf(S) = {}
        BY <2>1 DEF PendingOf
    <2>5. e.fn # NoFunction
        BY <1>0, CollectorAssumption
    <2>6. InOrder(B, R)
        BY <2>1 DEF InOrder, AtMostOne
    <2> HIDE DEF f, s
    <2>7. Meets(s, B, R, S, e, start, end)
        BY <1>1, <2>1, <2>2, <2>3, <2>4, <2>5, <2>6 DEF Meets
    <2> QED
        BY <2>7 DEF s, f
<1>3. CASE r # NoRecord
    <2>1. s = r
        BY <1>3 DEF OrInsert
    <2>2. RecordAgrees(r, B, R, S)
        BY <1>3 DEF RecordFits
    <2>3. PICK d \in B \cup R \cup S : d.tid = r.tid
        BY <2>2 DEF RecordAgrees
    <2>4. r.tid = e.tid
        BY <2>3
    <2>5. r.fn = e.fn \/ r.fn = NoFunction
        BY <2>2 DEF RecordAgrees
    <2>6. r.fn # NoFunction \/ B \cup R = {}
        BY <1>0, <2>2, CollectorAssumption DEF RecordAgrees
    <2> HIDE DEF f, s
    <2>7. Meets(s, B, R, S, e, start, end)
        BY <1>1, <2>1, <2>2, <2>4, <2>5, <2>6 DEF RecordAgrees, Meets
    <2> QED
        BY <2>7 DEF s, f
<1> QED
    BY <1>2, <1>3

LEMMA EntryFits ==
    ASSUME NEW r \in SourceInvocation \cup {NoRecord}, NEW B, NEW R, NEW S,
           RecordFits(r, B, R, S), NEW e \in BoundaryEvent,
           NEW t, t \notin B, t.ts = e.ts, t.tid = e.tid, t.fn = e.fn,
           \A d \in B \cup R \cup S : d.tid = e.tid,
           \A d \in B \cup R : d.fn = e.fn,
           \A d \in B \cup R : d.ts \in Time
    PROVE  RecordAgrees(EntryRecorded(r, e), B \cup {t}, R, S)
<1> DEFINE s == OrInsert(r, Fresh(e.fn, e.tid, e.ts, NoTime))
           q == EntryRecorded(r, e)
           C == B \cup {t}
<1>0. e.fn \in Functions /\ e.tid \in Tids /\ e.ts \in Time /\ e.ts \in OptTime /\ NoTime \in OptTime
    BY DEF BoundaryEvent, OptTime
<1>1. q = IF s.sawEntry THEN [s EXCEPT !.valid = FALSE]
          ELSE [s EXCEPT !.sawEntry = TRUE, !.fn = e.fn, !.tid = e.tid, !.start = e.ts,
                         !.valid = s.valid /\ Ordered(e.ts, s.end)]
    BY DEF EntryRecorded
<1>2. Meets(s, B, R, S, e, e.ts, NoTime)
    BY <1>0, OrInsertFits
<1>3. s \in SourceInvocation
    BY <1>2 DEF Meets
<1> HIDE DEF s, q
<1>4. /\ C \cup R \cup S # {}
      /\ \A d \in C \cup R \cup S : d.tid = e.tid
      /\ \A d \in C \cup R : d.fn = e.fn
      /\ C # {} /\ t \in C
    OBVIOUS
<1>5. CASE s.sawEntry
    <2>1. PICK b \in B : s.start = b.ts
        BY <1>2, <1>5 DEF Meets
    <2>2. ~InOrder(C, R)
        BY <2>1 DEF InOrder, AtMostOne
    <2>3. /\ q.tid = s.tid /\ q.fn = s.fn /\ q.sawEntry = s.sawEntry /\ q.sawReturn = s.sawReturn
          /\ q.start = s.start /\ q.end = s.end /\ q.samples = s.samples /\ q.valid = FALSE
        BY <1>1, <1>3, <1>5 DEF SourceInvocation
    <2>4. s.fn = e.fn /\ s.tid = e.tid
        BY <1>2, <2>1 DEF Meets
    <2>5. b \in C
        OBVIOUS
    <2> HIDE DEF C
    <2>6. RecordAgrees(q, C, R, S)
        BY <1>2, <1>4, <1>5, <2>1, <2>2, <2>3, <2>4, <2>5 DEF RecordAgrees, Meets
    <2> QED
        BY <2>6 DEF q, C
<1>6. CASE ~s.sawEntry
    <2>1. B = {} /\ C = {t}
        BY <1>2, <1>6 DEF Meets
    <2>2. /\ q.tid = e.tid /\ q.fn = e.fn /\ q.sawEntry = TRUE /\ q.sawReturn = s.sawReturn
          /\ q.start = e.ts /\ q.end = s.end /\ q.samples = s.samples
          /\ q.valid = (s.valid /\ Ordered(e.ts, s.end))
        BY <1>1, <1>3, <1>6 DEF SourceInvocation
    <2>3. (s.valid /\ Ordered(e.ts, s.end)) <=> InOrder(C, R)
        <3>1. CASE R = {}
            BY <1>2, <2>1, <3>1 DEF AtMostOne, Ordered, InOrder, Meets
        <3>2. CASE R # {}
            <4>1. PICK x \in R : s.end = x.ts
                BY <1>2, <3>2 DEF Meets
            <4>2. x.ts # NoTime /\ e.ts # NoTime /\ x.ts \in Time
                BY <1>0, <4>1 DEF Time, NoTime
            <4>3. Ordered(e.ts, s.end) <=> e.ts <= x.ts
                BY <1>0, <4>1, <4>2 DEF Ordered, Time
            <4>4. s.valid <=> AtMostOne(R)
                BY <1>2, <2>1 DEF AtMostOne, InOrder, Meets
            <4>5. AtMostOne(R) => \A y \in R : y = x
                BY <4>1 DEF AtMostOne
            <4>6. AtMostOne(C)
                BY <2>1 DEF AtMostOne
            <4>7. \A b \in C : b.ts = e.ts
                BY <2>1
            <4> HIDE DEF C
            <4> QED
                BY <1>4, <4>1, <4>3, <4>4, <4>5, <4>6, <4>7 DEF InOrder
        <3> QED
            BY <3>1, <3>2
    <2>5. /\ R = {} => q.end = NoTime
          /\ R # {} => \E x \in R : q.end = x.ts
          /\ q.sawReturn <=> R # {}
          /\ q.samples = PendingOf(S)
        BY <1>2, <2>2 DEF Meets
    <2>6. q.start = t.ts
        BY <2>2
    <2> HIDE DEF C
    <2>7. RecordAgrees(q, C, R, S)
        BY <1>4, <2>2, <2>3, <2>5, <2>6 DEF RecordAgrees
    <2> QED
        BY <2>7 DEF q, C
<1> QED
    BY <1>5, <1>6

LEMMA ReturnFits ==
    ASSUME NEW r \in SourceInvocation \cup {NoRecord}, NEW B, NEW R, NEW S,
           RecordFits(r, B, R, S), NEW e \in BoundaryEvent,
           NEW t, t \notin R, t.ts = e.ts, t.tid = e.tid, t.fn = e.fn,
           \A d \in B \cup R \cup S : d.tid = e.tid,
           \A d \in B \cup R : d.fn = e.fn,
           \A d \in B \cup R : d.ts \in Time
    PROVE  RecordAgrees(ReturnRecorded(r, e), B, R \cup {t}, S)
<1> DEFINE s == OrInsert(r, Fresh(e.fn, e.tid, NoTime, e.ts))
           fn == IF s.fn = NoFunction THEN e.fn ELSE s.fn
           v == /\ s.valid
                /\ ~s.sawReturn
                /\ fn = e.fn /\ s.tid = e.tid
                /\ Ordered(s.start, e.ts)
           q == ReturnRecorded(r, e)
           D == R \cup {t}
<1>0. e.fn \in Functions /\ e.tid \in Tids /\ e.ts \in Time /\ e.ts \in OptTime /\ NoTime \in OptTime
    BY DEF BoundaryEvent, OptTime
<1>1. q = [s EXCEPT !.sawReturn = TRUE, !.fn = fn, !.end = e.ts, !.valid = v]
    BY DEF ReturnRecorded
<1>2. Meets(s, B, R, S, e, NoTime, e.ts)
    BY <1>0, OrInsertFits
<1>3. s \in SourceInvocation /\ s.tid = e.tid /\ s.sawReturn = (R # {})
    BY <1>2 DEF Meets, SourceInvocation
<1>4. fn = e.fn
    BY <1>2 DEF Meets
<1>5. v <=> (s.valid /\ R = {} /\ Ordered(s.start, e.ts))
    BY <1>3, <1>4
<1> HIDE DEF s, q, fn, v
<1>6. /\ B \cup D \cup S # {}
      /\ \A d \in B \cup D \cup S : d.tid = e.tid
      /\ \A d \in B \cup D : d.fn = e.fn
      /\ D # {} /\ t \in D
    OBVIOUS
<1>7. /\ q.tid = e.tid /\ q.fn = e.fn /\ q.sawEntry = s.sawEntry /\ q.sawReturn = TRUE
      /\ q.start = s.start /\ q.end = e.ts /\ q.samples = s.samples /\ q.valid = v
    BY <1>1, <1>3, <1>4 DEF SourceInvocation
<1>8. v <=> InOrder(B, D)
    <2>1. CASE R # {}
        <3>1. PICK x \in R : TRUE
            BY <2>1
        <3>2. ~AtMostOne(D)
            BY <3>1 DEF AtMostOne
        <3> QED
            BY <1>5, <2>1, <3>2 DEF InOrder
    <2>2. CASE R = {} /\ B = {}
        <3>1. s.start = NoTime
            BY <1>2, <2>2 DEF Meets
        <3>2. InOrder(B, D) /\ InOrder(B, R)
            BY <2>2 DEF InOrder, AtMostOne
        <3> QED
            BY <1>2, <1>5, <2>2, <3>1, <3>2 DEF Ordered, Meets
    <2>3. CASE R = {} /\ B # {}
        <3>1. PICK b \in B : s.start = b.ts
            BY <1>2, <2>3 DEF Meets
        <3>2. b.ts # NoTime /\ e.ts # NoTime /\ b.ts \in Time
            BY <1>0, <3>1 DEF Time, NoTime
        <3>3. Ordered(s.start, e.ts) <=> b.ts <= e.ts
            BY <1>0, <3>1, <3>2 DEF Ordered, Time
        <3>4. s.valid <=> AtMostOne(B)
            BY <1>2, <2>3 DEF AtMostOne, InOrder, Meets
        <3>5. AtMostOne(B) => \A y \in B : y = b
            BY <3>1 DEF AtMostOne
        <3>6. AtMostOne(D)
            BY <2>3 DEF AtMostOne
        <3>7. \A x \in D : x.ts = e.ts
            BY <2>3
        <3> HIDE DEF D
        <3> QED
            BY <1>5, <1>6, <2>3, <3>1, <3>3, <3>4, <3>5, <3>6, <3>7 DEF InOrder
    <2> QED
        BY <2>1, <2>2, <2>3
<1>9. /\ B = {} => q.start = NoTime
      /\ B # {} => \E b \in B : q.start = b.ts
      /\ q.sawEntry <=> B # {}
      /\ q.samples = PendingOf(S)
    BY <1>2, <1>7 DEF Meets
<1>10. q.end = t.ts
    BY <1>7
<1> HIDE DEF D
<1>11. RecordAgrees(q, B, D, S)
    BY <1>6, <1>7, <1>8, <1>9, <1>10 DEF RecordAgrees
<1> QED
    BY <1>11 DEF q, D

LEMMA SampleFits ==
    ASSUME NEW r \in SourceInvocation \cup {NoRecord}, NEW B, NEW R, NEW S,
           RecordFits(r, B, R, S), NEW e \in SampleEvent, NEW t, t.tid = e.tid,
           Pending(t) = Tagged([n |-> 0, tid |-> e.tid, ts |-> e.ts, state |-> e.state,
                                weight |-> e.weight, frames |-> e.frames], PendingOf(S)),
           \A d \in B \cup R \cup S : d.tid = e.tid
    PROVE  RecordAgrees(SampleRecorded(r, e), B, R, S \cup {t})
<1> DEFINE s == OrInsert(r, Fresh(NoFunction, e.tid, NoTime, NoTime))
           q == SampleRecorded(r, e)
           T == S \cup {t}
           pending == [n |-> 0, tid |-> e.tid, ts |-> e.ts, state |-> e.state,
                       weight |-> e.weight, frames |-> e.frames]
<1>0. e.tid \in Tids
    BY DEF SampleEvent
<1>1. q = [s EXCEPT !.samples = s.samples \cup {Tagged(pending, s.samples)}]
    BY DEF SampleRecorded
<1>2. s \in SourceInvocation
    BY <1>0, OrInsertTyped DEF OptFunction, OptTime
<1>3. /\ s.tid = e.tid /\ s.samples = PendingOf(S)
      /\ \A d \in B \cup R : d.fn = s.fn
      /\ B \cup R = {} => s.fn = NoFunction
      /\ s.sawEntry <=> B # {}
      /\ s.sawReturn <=> R # {}
      /\ B = {} => s.start = NoTime
      /\ B # {} => \E b \in B : s.start = b.ts
      /\ R = {} => s.end = NoTime
      /\ R # {} => \E x \in R : s.end = x.ts
      /\ s.valid <=> InOrder(B, R)
    <2>1. CASE r = NoRecord
        <3>1. B = {} /\ R = {} /\ S = {}
            BY <2>1 DEF RecordFits
        <3>2. PendingOf(S) = {} /\ InOrder(B, R)
            BY <3>1 DEF PendingOf, InOrder, AtMostOne
        <3> QED
            BY <2>1, <3>1, <3>2 DEF OrInsert, Fresh
    <2>2. CASE r # NoRecord
        <3>1. s = r
            BY <2>2 DEF OrInsert
        <3>2. RecordAgrees(r, B, R, S)
            BY <2>2 DEF RecordFits
        <3>3. PICK d \in B \cup R \cup S : d.tid = r.tid
            BY <3>2 DEF RecordAgrees
        <3> HIDE DEF s
        <3> QED
            BY <3>1, <3>2, <3>3 DEF RecordAgrees
    <2> QED
        BY <2>1, <2>2
<1>4. PendingOf(T) = PendingOf(S) \cup {Pending(t)}
    BY DEF PendingOf
<1>5. Tagged(pending, s.samples) = Pending(t)
    BY <1>3
<1> HIDE DEF s, q, pending
<1>6. /\ q.tid = s.tid /\ q.fn = s.fn /\ q.sawEntry = s.sawEntry /\ q.sawReturn = s.sawReturn
      /\ q.start = s.start /\ q.end = s.end /\ q.valid = s.valid
      /\ q.samples = s.samples \cup {Pending(t)}
    BY <1>1, <1>2, <1>5 DEF SourceInvocation
<1>7. /\ B \cup R \cup T # {}
      /\ \A d \in B \cup R \cup T : d.tid = e.tid
    OBVIOUS
<1> HIDE DEF T
<1>8. RecordAgrees(q, B, R, T)
    BY <1>3, <1>4, <1>6, <1>7 DEF RecordAgrees
<1> QED
    BY <1>8 DEF q, T

-----------------------------------------------------------------------------
(* The log, one event longer *)

\* Events like a sample are the samples with its contents.
LEMMA AlikeSamples ==
    ASSUME NEW e \in SampleEvent, NEW y \in CollectorEvent
    PROVE  [y EXCEPT !.n = 0] = [e EXCEPT !.n = 0] <=>
              /\ y \in SampleEvent
              /\ y.id = e.id /\ y.tid = e.tid /\ y.ts = e.ts /\ y.state = e.state
              /\ y.weight = e.weight /\ y.frames = e.frames
<1>1. CASE y \in SampleEvent
    BY <1>1 DEF SampleEvent
<1>2. CASE y \notin SampleEvent
    <2>1. y.kind # "Sample"
        BY <1>2, EventKinds
    <2>2. "kind" \in DOMAIN y /\ "kind" \in DOMAIN e /\ e.kind = "Sample"
        BY DEF CollectorEvent, BoundaryEvent, ViolationEvent, SampleEvent, DropEvent
    <2>3. [y EXCEPT !.n = 0].kind = y.kind /\ [e EXCEPT !.n = 0].kind = e.kind
        BY <2>2
    <2> QED
        BY <1>2, <2>1, <2>2, <2>3
<1> QED
    BY <1>1, <1>2

\* A sample waits in its record under the tag it has in the log.
LEMMA PendingTag ==
    ASSUME CorrTypeOK, CorrFinite, NEW e \in SampleEvent, e.id \in Ids
    PROVE  Pending(Tagged(e, log)) =
              Tagged([n |-> 0, tid |-> e.tid, ts |-> e.ts, state |-> e.state,
                      weight |-> e.weight, frames |-> e.frames], PendingOf(SamplesOf(e.id)))
<1> DEFINE S == SamplesOf(e.id)
           p == [n |-> 0, tid |-> e.tid, ts |-> e.ts, state |-> e.state,
                 weight |-> e.weight, frames |-> e.frames]
           A == Alike(e, log)
           P == Alike(p, PendingOf(S))
           f == [y \in A |-> Pending(y)]
<1>1. S \subseteq SampleEvent /\ \A y \in S : y.id = e.id /\ y \in log
    BY EventKinds DEF SamplesOf, Pushed, CorrTypeOK
<1>2. ASSUME NEW y \in log
      PROVE  y \in A <=> /\ y \in SampleEvent
                         /\ y.id = e.id /\ y.tid = e.tid /\ y.ts = e.ts /\ y.state = e.state
                         /\ y.weight = e.weight /\ y.frames = e.frames
    BY AlikeSamples DEF Alike, CorrTypeOK
<1>3. A \subseteq log
    BY DEF Alike
<1>4. A = {y \in S : y.tid = e.tid /\ y.ts = e.ts /\ y.state = e.state
                     /\ y.weight = e.weight /\ y.frames = e.frames}
    BY <1>1, <1>2, <1>3 DEF SamplesOf, Pushed, SampleEvent
<1>5. ASSUME NEW y \in S
      PROVE  [Pending(y) EXCEPT !.n = 0] = [p EXCEPT !.n = 0] <=>
                y.tid = e.tid /\ y.ts = e.ts /\ y.state = e.state
                /\ y.weight = e.weight /\ y.frames = e.frames
    BY DEF Pending
<1>6. P = {Pending(y) : y \in A}
    <2> DEFINE same(q) == [q EXCEPT !.n = 0] = [p EXCEPT !.n = 0]
    <2>1. \A q : q \in P <=> q \in PendingOf(S) /\ same(q)
        BY DEF Alike
    <2>2. \A y \in S : same(Pending(y)) <=> y \in A
        BY <1>4, <1>5
    <2>3. A \subseteq S
        BY <1>4
    <2> HIDE DEF A, P, S, same
    <2> QED
        BY <2>1, <2>2, <2>3 DEF PendingOf
<1>7. P = {f[y] : y \in A}
    BY <1>6
<1>8. ASSUME NEW y \in A, NEW z \in A, f[y] = f[z] PROVE y = z
    <2>1. y.n = z.n
        BY <1>8 DEF Pending
    <2>2. y \in SampleEvent /\ z \in SampleEvent /\ y.id = z.id
        BY <1>1, <1>4
    <2> QED
        BY <1>4, <2>1, <2>2 DEF SampleEvent
<1>9. IsFiniteSet(A)
    BY AlikeFinite DEF CorrFinite
<1>10. Cardinality(P) = Cardinality(A)
    <2>1. DOMAIN f = A /\ f = [y \in A |-> f[y]]
        OBVIOUS
    <2> HIDE DEF f, A, P
    <2> QED
        BY <1>7, <1>8, <1>9, <2>1, FiniteImage
<1>11. Tagged(e, log) = [e EXCEPT !.n = Cardinality(A)]
    BY DEF Tagged
<1>12. Tagged(p, PendingOf(S)) = [p EXCEPT !.n = Cardinality(P)]
    BY DEF Tagged
<1> HIDE DEF A, P, S
<1>13. Pending(Tagged(e, log)) = [p EXCEPT !.n = Cardinality(A)]
    BY <1>11 DEF Pending, SampleEvent
<1> QED
    BY <1>10, <1>12, <1>13 DEF S

\* What is known of the log grows by the event pushed.
LEMMA LogGrows ==
    ASSUME CorrTypeOK, CorrFinite, WellTagged(log), NEW e \in CollectorEvent, Logged(e)
    PROVE  LET t == Tagged(e, log)
           IN  /\ t \notin log /\ log' = log \cup {t}
               /\ WellTagged(log')
               /\ \A k : Pushed(k)' = IF k = e.kind THEN Pushed(k) \cup {t} ELSE Pushed(k)
               /\ \A i \in Ids :
                     /\ EntriesOf(i)' = IF e.kind = "Entry" /\ e.id = i
                                        THEN EntriesOf(i) \cup {t} ELSE EntriesOf(i)
                     /\ ReturnsOf(i)' = IF e.kind = "Return" /\ e.id = i
                                        THEN ReturnsOf(i) \cup {t} ELSE ReturnsOf(i)
                     /\ SamplesOf(i)' = IF e.kind = "Sample" /\ e.id = i
                                        THEN SamplesOf(i) \cup {t} ELSE SamplesOf(i)
<1> DEFINE t == Tagged(e, log)
<1>1. IsFiniteSet(log) /\ "n" \in DOMAIN e
    BY EventKinds DEF CorrFinite
<1>2. log' = log \cup {t}
    BY DEF Logged
<1>3. t \notin log /\ WellTagged(log \cup {t})
    BY <1>1, TaggedIsNew, TaggedKeepsTags
<1>4. WellTagged(log')
    BY <1>2, <1>3
<1>5. t.kind = e.kind /\ (e.kind \in AboutInvocation => t.id = e.id)
    BY <1>1, TaggedEvent
<1> HIDE DEF t
<1>6. \A k : Pushed(k)' = IF k = e.kind THEN Pushed(k) \cup {t} ELSE Pushed(k)
    BY <1>2, <1>5 DEF Pushed
<1>7. ASSUME NEW i \in Ids
      PROVE  /\ EntriesOf(i)' = IF e.kind = "Entry" /\ e.id = i
                                THEN EntriesOf(i) \cup {t} ELSE EntriesOf(i)
             /\ ReturnsOf(i)' = IF e.kind = "Return" /\ e.id = i
                                THEN ReturnsOf(i) \cup {t} ELSE ReturnsOf(i)
             /\ SamplesOf(i)' = IF e.kind = "Sample" /\ e.id = i
                                THEN SamplesOf(i) \cup {t} ELSE SamplesOf(i)
    BY <1>5, <1>6 DEF EntriesOf, ReturnsOf, SamplesOf, AboutInvocation
<1> QED
    BY <1>2, <1>3, <1>4, <1>6, <1>7 DEF t

-----------------------------------------------------------------------------
(* The invariant is preserved *)

LEMMA CorrInitInv == CorrInit => CorrInv
<1> SUFFICES ASSUME CorrInit PROVE CorrInv
    OBVIOUS
<1>1. CorrTypeOK /\ CorrFinite
    BY CorrInitTyped
<1>2. log = {} /\ finished = FALSE /\ violations = {} /\ sourceMode = FALSE
      /\ invocations = {} /\ samples = {} /\ local = [t \in Tids |-> NoRecord]
      /\ source = [i \in Ids |-> NoRecord]
    BY DEF CorrInit
<1>3. WellTagged(log) /\ LogConsistent
    BY <1>2 DEF WellTagged, LogConsistent
<1>4. SourceFits
    BY <1>2 DEF SourceFits, RecordFits, EntriesOf, ReturnsOf, SamplesOf, Pushed
<1>5. ViolationsFit /\ ModeFits /\ FinishFits
    BY <1>2 DEF ViolationsFit, ModeFits, FinishFits, Pushed
<1> QED
    BY <1>1, <1>3, <1>4, <1>5 DEF CorrInv

\* The events of an id are events about one invocation.
LEMMA EventsOfId ==
    ASSUME CorrTypeOK, NEW i \in Ids
    PROVE  /\ \A d \in EntriesOf(i) \cup ReturnsOf(i) :
                 d \in BoundaryEvent /\ d \in log /\ d.id = i /\ d.kind \in {"Entry", "Return"}
                 /\ d.ts \in Time
           /\ \A d \in SamplesOf(i) :
                 d \in SampleEvent /\ d \in log /\ d.id = i /\ d.kind = "Sample"
BY EventKinds DEF CorrTypeOK, EntriesOf, ReturnsOf, SamplesOf, Pushed, BoundaryEvent, SampleEvent

\* A consistent event has the thread and the function of those before.
LEMMA ConsistentFits ==
    ASSUME CorrTypeOK, NEW e \in CollectorEvent, Consistent(e), e.kind \in AboutInvocation,
           e.id \in Ids
    PROVE  /\ \A d \in EntriesOf(e.id) \cup ReturnsOf(e.id) \cup SamplesOf(e.id) : d.tid = e.tid
           /\ e.kind # "Sample" =>
                 \A d \in EntriesOf(e.id) \cup ReturnsOf(e.id) : d.fn = e.fn
<1>1. e.id # NoId
    BY CollectorAssumption
<1>2. \A d \in EntriesOf(e.id) \cup ReturnsOf(e.id) \cup SamplesOf(e.id) :
         d \in log /\ d.kind \in AboutInvocation /\ d.id = e.id
    BY EventsOfId DEF AboutInvocation
<1>3. \A d \in EntriesOf(e.id) \cup ReturnsOf(e.id) : d.kind # "Sample"
    BY EventsOfId
<1> QED
    BY <1>1, <1>2, <1>3 DEF Consistent, Agree

LEMMA PushKeepsSourceFits ==
    ASSUME CorrInv, NEW e \in CollectorEvent, Consistent(e), Push(e)
    PROVE  SourceFits'
<1> DEFINE t == Tagged(e, log)
<1>0. CorrTypeOK /\ CorrFinite /\ WellTagged(log) /\ SourceFits
    BY DEF CorrInv
<1>1. /\ t \notin log
      /\ \A i \in Ids :
            /\ EntriesOf(i)' = IF e.kind = "Entry" /\ e.id = i
                               THEN EntriesOf(i) \cup {t} ELSE EntriesOf(i)
            /\ ReturnsOf(i)' = IF e.kind = "Return" /\ e.id = i
                               THEN ReturnsOf(i) \cup {t} ELSE ReturnsOf(i)
            /\ SamplesOf(i)' = IF e.kind = "Sample" /\ e.id = i
                               THEN SamplesOf(i) \cup {t} ELSE SamplesOf(i)
    BY <1>0, LogGrows DEF Push
<1>2. /\ e.kind \in AboutInvocation => t.tid = e.tid /\ t.ts = e.ts
      /\ e.kind \in {"Entry", "Return"} => t.fn = e.fn
    BY <1>0, TaggedEvent DEF CorrFinite, AboutInvocation
<1>3. CASE e.kind \in AboutInvocation /\ e.id \in Ids
    <2> DEFINE i == e.id
               r == source[i]
               B == EntriesOf(i)
               R == ReturnsOf(i)
               S == SamplesOf(i)
    <2>1. r \in SourceInvocation \cup {NoRecord} /\ RecordFits(r, B, R, S)
        BY <1>0, <1>3 DEF CorrTypeOK, SourceFits
    <2>2. /\ \A d \in B \cup R \cup S : d.tid = e.tid
          /\ e.kind # "Sample" => \A d \in B \cup R : d.fn = e.fn
        BY <1>0, <1>3, ConsistentFits
    <2>3. /\ t \notin B /\ t \notin R
          /\ \A d \in B \cup R : d.ts \in Time
        BY <1>0, <1>1, <1>3, EventsOfId DEF EntriesOf, ReturnsOf, Pushed
    <2>4. i # NoId
        BY <1>3, CollectorAssumption
    <2>5. source \in [Ids -> SourceInvocation \cup {NoRecord}]
        BY <1>0 DEF CorrTypeOK
    <2>6. RecordAgrees(source'[i], EntriesOf(i)', ReturnsOf(i)', SamplesOf(i)')
          /\ source'[i] \in SourceInvocation
          /\ \A j \in Ids \ {i} : source'[j] = source[j]
        <3>1. CASE e.kind = "Entry"
            <4>1. e \in BoundaryEvent
                BY <3>1, EventKinds
            <4>2. PushToSource(i, EntryRecorded(r, e))
                BY <2>4, <3>1 DEF Push, PushEntry
            <4>3. RecordAgrees(EntryRecorded(r, e), B \cup {t}, R, S)
                BY <1>2, <2>1, <2>2, <2>3, <3>1, <4>1, EntryFits DEF AboutInvocation
            <4>4. EntryRecorded(r, e) \in SourceInvocation
                BY <2>1, <4>1, EntryRecordedTyped
            <4>5. EntriesOf(i)' = B \cup {t} /\ ReturnsOf(i)' = R /\ SamplesOf(i)' = S
                BY <1>1, <1>3, <3>1
            <4>6. source'[i] = EntryRecorded(r, e) /\ \A j \in Ids \ {i} : source'[j] = source[j]
                BY <1>3, <2>5, <4>2 DEF PushToSource
            <4> QED
                BY <4>3, <4>4, <4>5, <4>6
        <3>2. CASE e.kind = "Return"
            <4>1. e \in BoundaryEvent
                BY <3>2, EventKinds
            <4>2. PushToSource(i, ReturnRecorded(r, e))
                BY <2>4, <3>2 DEF Push, PushReturn
            <4>3. RecordAgrees(ReturnRecorded(r, e), B, R \cup {t}, S)
                BY <1>2, <2>1, <2>2, <2>3, <3>2, <4>1, ReturnFits DEF AboutInvocation
            <4>4. ReturnRecorded(r, e) \in SourceInvocation
                BY <2>1, <4>1, ReturnRecordedTyped
            <4>5. EntriesOf(i)' = B /\ ReturnsOf(i)' = R \cup {t} /\ SamplesOf(i)' = S
                BY <1>1, <1>3, <3>2
            <4>6. source'[i] = ReturnRecorded(r, e) /\ \A j \in Ids \ {i} : source'[j] = source[j]
                BY <1>3, <2>5, <4>2 DEF PushToSource
            <4> QED
                BY <4>3, <4>4, <4>5, <4>6
        <3>3. CASE e.kind = "Sample"
            <4>1. e \in SampleEvent
                BY <3>3, EventKinds
            <4>2. PushToSource(i, SampleRecorded(r, e))
                BY <2>4, <3>3 DEF Push, PushSample
            <4>3. Pending(t) = Tagged([n |-> 0, tid |-> e.tid, ts |-> e.ts, state |-> e.state,
                                       weight |-> e.weight, frames |-> e.frames], PendingOf(S))
                BY <1>0, <1>3, <4>1, PendingTag
            <4>4. RecordAgrees(SampleRecorded(r, e), B, R, S \cup {t})
                BY <1>2, <2>1, <2>2, <3>3, <4>1, <4>3, SampleFits DEF AboutInvocation
            <4>5. SampleRecorded(r, e) \in SourceInvocation
                BY <1>0, <1>3, <2>1, <4>1, SampleRecordedTyped DEF CorrFinite
            <4>6. EntriesOf(i)' = B /\ ReturnsOf(i)' = R /\ SamplesOf(i)' = S \cup {t}
                BY <1>1, <1>3, <3>3
            <4>7. source'[i] = SampleRecorded(r, e) /\ \A j \in Ids \ {i} : source'[j] = source[j]
                BY <1>3, <2>5, <4>2 DEF PushToSource
            <4> QED
                BY <4>4, <4>5, <4>6, <4>7
        <3> QED
            BY <1>3, <3>1, <3>2, <3>3 DEF AboutInvocation
    <2>7. source'[i] # NoRecord
        BY <2>6, NoRecordAssumption
    <2>8. \A j \in Ids \ {i} :
             EntriesOf(j)' = EntriesOf(j) /\ ReturnsOf(j)' = ReturnsOf(j) /\ SamplesOf(j)' = SamplesOf(j)
        BY <1>1
    <2> SUFFICES ASSUME NEW j \in Ids
                 PROVE  RecordFits(source'[j], EntriesOf(j)', ReturnsOf(j)', SamplesOf(j)')
        BY DEF SourceFits
    <2>9. CASE j = i
        BY <2>6, <2>7, <2>9 DEF RecordFits
    <2>10. CASE j # i
        BY <1>0, <2>6, <2>8, <2>10 DEF SourceFits
    <2> QED
        BY <2>9, <2>10
<1>4. CASE ~(e.kind \in AboutInvocation /\ e.id \in Ids)
    <2>1. e.kind \in AboutInvocation => e.id = NoId
        BY <1>4, EventKinds DEF AboutInvocation, BoundaryEvent, SampleEvent
    <2>2. UNCHANGED source
        BY <2>1 DEF Push, PushEntry, PushReturn, PushSample, LocalEntry, LocalReturn, LocalSample,
                    PushViolation, PushDropped, AboutInvocation, tables
    <2>3. \A j \in Ids :
             EntriesOf(j)' = EntriesOf(j) /\ ReturnsOf(j)' = ReturnsOf(j) /\ SamplesOf(j)' = SamplesOf(j)
        BY <1>1, <1>4 DEF AboutInvocation
    <2> QED
        BY <1>0, <2>2, <2>3 DEF SourceFits
<1> QED
    BY <1>3, <1>4

LEMMA PushKeepsConsistent ==
    ASSUME CorrInv, NEW e \in CollectorEvent, Consistent(e), Push(e)
    PROVE  LogConsistent'
<1> DEFINE t == Tagged(e, log)
<1>1. LogConsistent /\ CorrTypeOK /\ IsFiniteSet(log)
    BY DEF CorrInv, CorrFinite
<1>2. log' = log \cup {t}
    BY DEF Push, Logged
<1>3. t.kind = e.kind
    BY <1>1, TaggedEvent
<1>4. CASE e.kind \notin AboutInvocation
    BY <1>1, <1>2, <1>3, <1>4 DEF LogConsistent
<1>5. CASE e.kind \in AboutInvocation
    <2>1. t.id = e.id /\ t.tid = e.tid /\ (e.kind # "Sample" => t.fn = e.fn)
        BY <1>1, <1>5, TaggedEvent DEF AboutInvocation
    <2>2. ASSUME NEW d \in log, d.kind \in AboutInvocation PROVE Agree(d, t) /\ Agree(t, d)
        <3>1. Agree(d, e)
            BY <1>5, <2>2 DEF Consistent
        <3> HIDE DEF t
        <3> QED
            BY <1>3, <2>1, <3>1 DEF Agree
    <2>3. Agree(t, t)
        BY DEF Agree
    <2> HIDE DEF t
    <2> QED
        BY <1>1, <1>2, <2>2, <2>3 DEF LogConsistent
<1> QED
    BY <1>4, <1>5

LEMMA PushKeepsViolations ==
    ASSUME CorrInv, NEW e \in CollectorEvent, Push(e)
    PROVE  ViolationsFit'
<1> DEFINE t == Tagged(e, log)
<1>1. ViolationsFit /\ CorrTypeOK /\ CorrFinite /\ WellTagged(log)
    BY DEF CorrInv
<1>2. \A k : Pushed(k)' = IF k = e.kind THEN Pushed(k) \cup {t} ELSE Pushed(k)
    BY <1>1, LogGrows DEF Push
<1>3. CASE e.kind = "Violation"
    <2> DEFINE x == [n |-> 0, tid |-> e.tid, ts |-> e.ts]
               v == Tagged(x, violations)
    <2>1. violations' = violations \cup {v}
        BY <1>3 DEF Push, PushViolation
    <2>2. v.tid = e.tid /\ v.ts = e.ts
        BY DEF Tagged
    <2>3. t.tid = e.tid /\ t.ts = e.ts
        BY <1>1, <1>3, TaggedEvent DEF CorrFinite
    <2> HIDE DEF t, v
    <2>4. Pushed("Violation")' = Pushed("Violation") \cup {t}
        BY <1>2, <1>3
    <2> QED
        BY <1>1, <2>1, <2>2, <2>3, <2>4 DEF ViolationsFit
<1>4. CASE e.kind # "Violation"
    <2>1. UNCHANGED violations
        BY <1>4 DEF Push, PushEntry, PushReturn, PushSample, LocalEntry, LocalReturn, LocalSample,
                    PushToSource, PushDropped, tables
    <2>2. Pushed("Violation")' = Pushed("Violation")
        BY <1>2, <1>4
    <2> QED
        BY <1>1, <2>1, <2>2 DEF ViolationsFit
<1> QED
    BY <1>3, <1>4

LEMMA PushKeepsMode ==
    ASSUME CorrInv, NEW e \in CollectorEvent, Consistent(e), Push(e)
    PROVE  ModeFits'
<1> DEFINE t == Tagged(e, log)
           ids(l) == \E d \in l : d.kind \in AboutInvocation /\ d.id # NoId
           only(l) == \A d \in l : d.kind \in AboutInvocation => d.id # NoId
<1>1. ModeFits /\ CorrTypeOK /\ IsFiniteSet(log)
    BY DEF CorrInv, CorrFinite
<1>2. log' = log \cup {t}
    BY DEF Push, Logged
<1>3. t.kind = e.kind /\ (e.kind \in AboutInvocation => t.id = e.id)
    BY <1>1, TaggedEvent
<1>4. finished' = finished /\ ~finished
    BY DEF Push
<1> HIDE DEF t
<1>5. ids(log') <=> ids(log) \/ (e.kind \in AboutInvocation /\ e.id # NoId)
    BY <1>2, <1>3
<1>6. only(log') <=> only(log) /\ (e.kind \in AboutInvocation => e.id # NoId)
    BY <1>2, <1>3
<1>7. /\ sourceMode <=> ids(log)
      /\ only(log) => /\ \A u \in Tids : local[u] = NoRecord
                      /\ invocations = {} /\ samples = {}
    BY <1>1, <1>4 DEF ModeFits
<1>8. /\ sourceMode' <=> ids(log')
      /\ only(log') => /\ \A u \in Tids : local'[u] = NoRecord
                       /\ invocations' = {} /\ samples' = {}
    <2>1. CASE e.kind \in AboutInvocation /\ e.id # NoId
        <3>1. sourceMode' = TRUE /\ UNCHANGED <<local, invocations, samples>>
            BY <2>1 DEF Push, PushEntry, PushReturn, PushSample, PushToSource, AboutInvocation
        <3> HIDE DEF ids, only
        <3> QED
            BY <1>5, <1>6, <1>7, <2>1, <3>1
    <2>2. CASE e.kind \in AboutInvocation /\ e.id = NoId
        <3>1. UNCHANGED sourceMode
            BY <2>2 DEF Push, PushEntry, PushReturn, PushSample, LocalEntry, LocalReturn,
                        LocalSample, AboutInvocation, tables
        <3> HIDE DEF ids, only
        <3> QED
            BY <1>5, <1>6, <1>7, <2>2, <3>1
    <2>3. CASE e.kind = "Violation"
        <3>1. UNCHANGED <<sourceMode, invocations, samples>>
            BY <2>3 DEF Push, PushViolation
        <3>2. local' = IF local[e.tid] = NoRecord THEN local ELSE [local EXCEPT ![e.tid].valid = FALSE]
            BY <2>3 DEF Push, PushViolation
        <3>3. e.tid \in Tids
            BY <2>3, EventKinds DEF ViolationEvent
        <3>4. e.kind \notin AboutInvocation
            BY <2>3 DEF AboutInvocation
        <3> HIDE DEF ids, only
        <3> QED
            BY <1>5, <1>6, <1>7, <3>1, <3>2, <3>3, <3>4
    <2>4. CASE e.kind \in {"DroppedEvents", "DroppedSamples"}
        <3>1. UNCHANGED <<sourceMode, local, invocations, samples>>
            BY <2>4 DEF Push, PushDropped, tables
        <3>2. e.kind \notin AboutInvocation
            BY <2>4 DEF AboutInvocation
        <3> HIDE DEF ids, only
        <3> QED
            BY <1>5, <1>6, <1>7, <3>1, <3>2
    <2> QED
        BY <2>1, <2>2, <2>3, <2>4 DEF Push, AboutInvocation
<1> QED
    BY <1>4, <1>8 DEF ModeFits

LEMMA PushKeepsInv ==
    ASSUME CorrInv, NEW e \in CollectorEvent, Consistent(e), Push(e)
    PROVE  CorrInv'
<1>1. CorrTypeOK' /\ CorrFinite'
    BY PushTyped DEF CorrInv
<1>2. WellTagged(log)'
    BY LogGrows DEF CorrInv, Push
<1>3. ~finished'
    BY DEF Push
<1>4. FinishFits'
    BY <1>3 DEF FinishFits
<1> QED
    BY <1>1, <1>2, <1>4, PushKeepsConsistent, PushKeepsSourceFits, PushKeepsViolations,
       PushKeepsMode DEF CorrInv

LEMMA FinishKeepsInv ==
    ASSUME CorrInv, NEW now \in Time, Finish(now)
    PROVE  CorrInv'
<1>1. CorrTypeOK' /\ CorrFinite'
    BY FinishTyped DEF CorrInv
<1>2. UNCHANGED <<tables, log>> /\ finished' = TRUE /\ ~finished
    BY DEF Finish
<1>3. WellTagged(log)' /\ LogConsistent' /\ SourceFits' /\ ViolationsFit'
    BY <1>2 DEF CorrInv, WellTagged, LogConsistent, SourceFits, ViolationsFit, EntriesOf, ReturnsOf,
                SamplesOf, Pushed, tables
<1>4. ModeFits'
    BY <1>2 DEF CorrInv, ModeFits, tables
<1>5. FinishFits'
    <2> SUFFICES ASSUME sourceMode
                 PROVE  \E w \in Time :
                          /\ invocations' = {SourceReport(i, w) : i \in ReportedIds}'
                          /\ samples' = {Attributed(p[1], p[2]) : p \in AcceptedSamples(ValidIds(w), w)}'
        BY <1>2 DEF FinishFits, tables
    <2>1. \A d \in log : d.kind \in AboutInvocation => d.id # NoId
        BY DEF CorrInv, ModeFits, LogConsistent, Agree
    <2>2. (\A t \in Tids : local[t] = NoRecord) /\ invocations = {} /\ samples = {}
        BY <1>2, <2>1 DEF CorrInv, ModeFits
    <2>3. LocalLeftovers(now) = {}
        BY <2>2 DEF LocalLeftovers
    <2>4. FinishSource(now)
        BY DEF Finish
    <2>5. invocations' = {SourceReport(i, now) : i \in ReportedIds}
        BY <2>2, <2>3, <2>4 DEF FinishSource
    <2>6. samples' = {Attributed(p[1], p[2]) : p \in AcceptedSamples(ValidIds(now), now)}
        BY <2>2, <2>4 DEF FinishSource, ValidIds
    <2>7. {SourceReport(i, now) : i \in ReportedIds}' = {SourceReport(i, now) : i \in ReportedIds}
        BY <1>2 DEF tables, SourceReport, ReportedIds, ReportedValid
    <2>8. AcceptedSamples(ValidIds(now), now)' = AcceptedSamples(ValidIds(now), now)
        BY <1>2 DEF tables, AcceptedSamples, ValidIds, ReportedIds, ReportedValid, PendingOfValid
    <2> QED
        BY <2>5, <2>6, <2>7, <2>8
<1> QED
    BY <1>1, <1>3, <1>4, <1>5 DEF CorrInv

LEMMA StutterKeepsInv == CorrInv /\ UNCHANGED corrVars => CorrInv'
<1> SUFFICES ASSUME CorrInv, UNCHANGED corrVars PROVE CorrInv'
    OBVIOUS
<1>1. UNCHANGED <<source, sourceMode, violations, local, nextLocalId, invocations, samples,
                  quality, finished, log>>
    BY DEF corrVars, tables, profileVars
<1>2. CorrTypeOK' /\ CorrFinite'
    BY <1>1 DEF CorrInv, CorrTypeOK, CorrFinite, OpenThreads
<1>3. WellTagged(log)' /\ LogConsistent' /\ ViolationsFit' /\ ModeFits'
    BY <1>1 DEF CorrInv, WellTagged, LogConsistent, ViolationsFit, ModeFits, Pushed
<1>4. SourceFits'
    BY <1>1 DEF CorrInv, SourceFits, EntriesOf, ReturnsOf, SamplesOf, Pushed
<1>5. /\ ReportedIds' = ReportedIds
      /\ \A w : AcceptedSamples(ValidIds(w), w)' = AcceptedSamples(ValidIds(w), w)
      /\ \A i, w : SourceReport(i, w)' = SourceReport(i, w)
    BY <1>1 DEF SourceReport, ReportedIds, ReportedValid, AcceptedSamples, ValidIds, PendingOfValid
<1>6. FinishFits'
    BY <1>1, <1>5 DEF CorrInv, FinishFits
<1> QED
    BY <1>2, <1>3, <1>4, <1>6 DEF CorrInv

\* The invariant of the correlator holds with every consistent source.
LEMMA CorrInvariant == ConsistentSpec => []CorrInv
<1>1. CorrInit => CorrInv
    BY CorrInitInv
<1>2. CorrInv /\ [ConsistentNext]_corrVars => CorrInv'
    BY PushKeepsInv, FinishKeepsInv, StutterKeepsInv DEF ConsistentNext
<1> QED
    BY <1>1, <1>2, PTL DEF ConsistentSpec

-----------------------------------------------------------------------------
(* The population *)

\* The facts a record gives about the events of its id, times included.
LEMMA RecordFacts ==
    ASSUME CorrInv, NEW i \in Ids
    PROVE  /\ source[i] = NoRecord => EntriesOf(i) = {} /\ ReturnsOf(i) = {} /\ SamplesOf(i) = {}
           /\ source[i] # NoRecord =>
                 /\ source[i] \in SourceInvocation
                 /\ RecordAgrees(source[i], EntriesOf(i), ReturnsOf(i), SamplesOf(i))
           /\ \A d \in EntriesOf(i) \cup ReturnsOf(i) : d.fn \in Functions /\ d.ts \in Time
BY EventsOfId DEF CorrInv, SourceFits, RecordFits, CorrTypeOK, BoundaryEvent

\* A bracketed invocation's record holds its boundaries.
LEMMA BracketedRecord ==
    ASSUME CorrInv, NEW i \in Ids, NEW b, NEW r, Bracketed(i, b, r)
    PROVE  /\ source[i] # NoRecord /\ source[i].valid /\ Complete(source[i])
           /\ source[i].fn = b.fn /\ source[i].tid = b.tid
           /\ source[i].start = b.ts /\ source[i].end = r.ts
           /\ b.fn \in Functions /\ b.ts \in Time /\ r.ts \in Time /\ b.ts <= r.ts
<1>1. EntriesOf(i) = {b} /\ ReturnsOf(i) = {r} /\ b.ts <= r.ts
    BY DEF Bracketed
<1>2. source[i] # NoRecord
    BY <1>1, RecordFacts
<1>3. RecordAgrees(source[i], {b}, {r}, SamplesOf(i)) /\ source[i] \in SourceInvocation
    BY <1>1, <1>2, RecordFacts
<1>4. InOrder({b}, {r})
    BY <1>1 DEF InOrder, AtMostOne
<1>5. b.fn \in Functions /\ b.ts \in Time /\ r.ts \in Time
    BY <1>1, RecordFacts
<1> QED
    BY <1>1, <1>2, <1>3, <1>4, <1>5 DEF RecordAgrees, Complete, SourceInvocation

\* No violation kept catches it.
LEMMA BracketedUncaught ==
    ASSUME CorrInv, NEW i \in Ids, NEW b, NEW r,
           source[i] # NoRecord, source[i].tid = b.tid,
           source[i].start = b.ts, source[i].end = r.ts, b.ts \in Time, r.ts \in Time
    PROVE  (\E v \in violations : Caught(v, source[i])) <=>
              \E v \in Pushed("Violation") : v.tid = b.tid /\ v.ts \in b.ts..r.ts
<1>0. /\ \A v \in violations : v.ts \in Time
      /\ \A v \in Pushed("Violation") : v.ts \in Time
    BY EventKinds DEF CorrInv, CorrTypeOK, Pushed, ViolationEvent, Time
<1>1. b.ts # NoTime /\ r.ts # NoTime
    BY DEF Time, NoTime
<1>2. ASSUME NEW v \in violations, Caught(v, source[i])
      PROVE  \E e \in Pushed("Violation") : e.tid = b.tid /\ e.ts \in b.ts..r.ts
    <2>1. PICK e \in Pushed("Violation") : e.tid = v.tid /\ e.ts = v.ts
        BY DEF CorrInv, ViolationsFit
    <2>2. v.tid = b.tid /\ b.ts <= v.ts /\ v.ts <= r.ts
        BY <1>1, <1>2 DEF Caught
    <2> QED
        BY <1>0, <2>1, <2>2 DEF Time
<1>3. ASSUME NEW e \in Pushed("Violation"), e.tid = b.tid, e.ts \in b.ts..r.ts
      PROVE  \E v \in violations : Caught(v, source[i])
    <2>1. PICK v \in violations : e.tid = v.tid /\ e.ts = v.ts
        BY DEF CorrInv, ViolationsFit
    <2>2. b.ts <= v.ts /\ v.ts <= r.ts
        BY <1>3, <2>1 DEF Time
    <2> QED
        BY <1>1, <1>3, <2>1, <2>2 DEF Caught
<1> QED
    BY <1>2, <1>3

\* finish reports as valid exactly the bracketed invocations.
LEMMA ValidIsBracketed ==
    ASSUME CorrInv, NEW i \in Ids, NEW now \in Time
    PROVE  i \in ValidIds(now) <=> \E b \in EntriesOf(i), r \in ReturnsOf(i) : Bracketed(i, b, r)
<1>1. ASSUME i \in ValidIds(now)
      PROVE  \E b \in EntriesOf(i), r \in ReturnsOf(i) : Bracketed(i, b, r)
    <2>1. source[i] # NoRecord /\ ReportedValid(i, now)
        BY <1>1 DEF ValidIds, ReportedIds
    <2>2. source[i].valid /\ source[i].sawEntry /\ source[i].sawReturn
          /\ ~\E v \in violations : Caught(v, source[i])
        BY <2>1 DEF ReportedValid, Complete
    <2>3. RecordAgrees(source[i], EntriesOf(i), ReturnsOf(i), SamplesOf(i))
        BY <2>1, RecordFacts
    <2>4. PICK b \in EntriesOf(i) : source[i].start = b.ts
        BY <2>2, <2>3 DEF RecordAgrees
    <2>5. PICK r \in ReturnsOf(i) : source[i].end = r.ts
        BY <2>2, <2>3 DEF RecordAgrees
    <2>6. InOrder(EntriesOf(i), ReturnsOf(i))
        BY <2>2, <2>3 DEF RecordAgrees
    <2>7. EntriesOf(i) = {b} /\ ReturnsOf(i) = {r} /\ b.ts <= r.ts
        BY <2>6 DEF InOrder, AtMostOne
    <2>8. b.tid = source[i].tid /\ r.tid = source[i].tid /\ b.fn = r.fn
        BY <2>3 DEF RecordAgrees
    <2>9. b.ts \in Time /\ r.ts \in Time
        BY RecordFacts
    <2>10. ~\E v \in Pushed("Violation") : v.tid = b.tid /\ v.ts \in b.ts..r.ts
        BY <2>1, <2>2, <2>4, <2>5, <2>8, <2>9, BracketedUncaught
    <2> QED
        BY <2>7, <2>8, <2>10 DEF Bracketed
<1>2. ASSUME NEW b \in EntriesOf(i), NEW r \in ReturnsOf(i), Bracketed(i, b, r)
      PROVE  i \in ValidIds(now)
    <2>1. /\ source[i] # NoRecord /\ source[i].valid /\ Complete(source[i])
          /\ source[i].fn = b.fn /\ source[i].tid = b.tid
          /\ source[i].start = b.ts /\ source[i].end = r.ts
          /\ b.fn \in Functions /\ b.ts \in Time /\ r.ts \in Time /\ b.ts <= r.ts
        BY <1>2, BracketedRecord
    <2>2. b.fn # NoFunction /\ b.ts # NoTime /\ r.ts # NoTime
        <3>1. b.fn # NoFunction
            BY <2>1, CollectorAssumption
        <3>2. b.ts \in Nat /\ r.ts \in Nat
            BY <2>1 DEF Time
        <3> QED
            BY <3>1, <3>2 DEF NoTime
    <2>3. ~\E v \in violations : Caught(v, source[i])
        BY <1>2, <2>1, BracketedUncaught DEF Bracketed
    <2>4. EndOf(source[i], now) = r.ts
        BY <2>1, <2>2 DEF EndOf
    <2> QED
        BY <2>1, <2>2, <2>3, <2>4 DEF ValidIds, ReportedIds, ReportedValid
<1> QED
    BY <1>1, <1>2

\* And reports them with their boundaries.
LEMMA BracketedReport ==
    ASSUME CorrInv, NEW i \in Ids, NEW now \in Time, NEW b \in EntriesOf(i),
           NEW r \in ReturnsOf(i), Bracketed(i, b, r)
    PROVE  SourceReport(i, now) = Report(i, b.fn, b.tid, b.ts, r.ts, TRUE, TRUE)
<1>1. /\ source[i] # NoRecord /\ source[i].valid /\ Complete(source[i])
      /\ source[i].fn = b.fn /\ source[i].tid = b.tid
      /\ source[i].start = b.ts /\ source[i].end = r.ts
      /\ b.fn \in Functions /\ b.ts \in Time /\ r.ts \in Time /\ b.ts <= r.ts
    BY BracketedRecord
<1>2. EndOf(source[i], now) = r.ts
    BY <1>1 DEF EndOf, Time, NoTime
<1>3. i \in ValidIds(now)
    BY ValidIsBracketed
<1>4. ReportedValid(i, now) = TRUE
    BY <1>3 DEF ValidIds, ReportedValid
<1>5. Complete(source[i]) = TRUE
    BY <1>1 DEF Complete
<1> QED
    BY <1>1, <1>2, <1>4, <1>5 DEF SourceReport

\* The population of a finished profile.
LEMMA PopulationOf ==
    ASSUME CorrInv, NEW now \in Time, invocations = {SourceReport(i, now) : i \in ReportedIds}
    PROVE  Population = {SourceReport(i, now) : i \in ValidIds(now)}
<1>1. \A i \in ReportedIds : SourceReport(i, now).valid = ReportedValid(i, now)
    BY DEF SourceReport, Report
<1> QED
    BY <1>1 DEF Population, ValidIds

\* When push and finish are done with the events of a source of ids, the
\* invocations of the profile that are marked valid are exactly those whose one
\* entry and one return agree with no violation of their thread between them
\* (Correlator::finish), whatever the order in which the events of any number
\* of invocations were pushed.
THEOREM PopulationBracketed == ConsistentSpec => []PopulationIsWellBracketed
<1>1. CorrInv => PopulationIsWellBracketed
    <2> SUFFICES ASSUME CorrInv, finished, sourceMode
                 PROVE  Population = {Report(p[1].id, p[1].fn, p[1].tid, p[1].ts, p[2].ts, TRUE, TRUE) :
                                        p \in Brackets}
        BY DEF PopulationIsWellBracketed
    <2> DEFINE rep(p) == Report(p[1].id, p[1].fn, p[1].tid, p[1].ts, p[2].ts, TRUE, TRUE)
    <2>1. PICK now \in Time : invocations = {SourceReport(i, now) : i \in ReportedIds}
        BY DEF CorrInv, FinishFits
    <2>2. Population = {SourceReport(i, now) : i \in ValidIds(now)}
        BY <2>1, PopulationOf
    <2>3. ASSUME NEW i \in ValidIds(now) PROVE \E p \in Brackets : SourceReport(i, now) = rep(p)
        <3>1. i \in Ids
            BY DEF ValidIds, ReportedIds
        <3>2. PICK b \in EntriesOf(i), r \in ReturnsOf(i) : Bracketed(i, b, r)
            BY <3>1, ValidIsBracketed
        <3>3. SourceReport(i, now) = Report(i, b.fn, b.tid, b.ts, r.ts, TRUE, TRUE)
            BY <3>1, <3>2, BracketedReport
        <3>4. b.id = i /\ b \in Pushed("Entry") /\ r \in Pushed("Return")
            BY DEF EntriesOf, ReturnsOf
        <3>5. <<b, r>> \in Brackets
            BY <3>1, <3>2, <3>4 DEF Brackets
        <3>6. SourceReport(i, now) = rep(<<b, r>>)
            BY <3>3, <3>4
        <3> QED
            BY <3>5, <3>6
    <2>4. ASSUME NEW p \in Brackets PROVE \E i \in ValidIds(now) : rep(p) = SourceReport(i, now)
        <3> DEFINE i == p[1].id
        <3>1. i \in Ids /\ p[1] \in EntriesOf(i) /\ p[2] \in ReturnsOf(i) /\ Bracketed(i, p[1], p[2])
            BY DEF Brackets, EntriesOf, Bracketed
        <3>2. i \in ValidIds(now)
            BY <3>1, ValidIsBracketed
        <3>3. SourceReport(i, now) = Report(i, p[1].fn, p[1].tid, p[1].ts, p[2].ts, TRUE, TRUE)
            BY <3>1, BracketedReport
        <3> QED
            BY <3>2, <3>3
    <2> HIDE DEF rep
    <2>5. Population = {rep(p) : p \in Brackets}
        BY <2>2, <2>3, <2>4
    <2> QED
        BY <2>5 DEF rep
<1> QED
    BY <1>1, CorrInvariant, PTL

\* A waiting sample inside a reported invocation is a pushed one inside it.
LEMMA AcceptedSample ==
    ASSUME CorrInv, NEW now \in Time, NEW j \in ReportedIds, NEW e \in SamplesOf(j)
    PROVE  /\ Pending(e) \in source[j].samples
           /\ Attributed(j, Pending(e)) = Attributed(j, e)
           /\ Within(Pending(e), source[j], now) <=>
                 e.ts \in SourceReport(j, now).start..SourceReport(j, now).end
<1>1. source[j] # NoRecord /\ j \in Ids
    BY DEF ReportedIds
<1>2. source[j].samples = PendingOf(SamplesOf(j))
    BY <1>1, RecordFacts DEF RecordAgrees
<1>3. source[j].start \in Nat /\ EndOf(source[j], now) \in Nat
    BY ReportedTyped DEF CorrInv, Time
<1>4. e.ts \in Nat
    BY <1>1, EventsOfId DEF CorrInv, SampleEvent, Time
<1>5. SourceReport(j, now).start = source[j].start
      /\ SourceReport(j, now).end = EndOf(source[j], now)
    BY DEF SourceReport, Report
<1> QED
    BY <1>2, <1>3, <1>4, <1>5 DEF PendingOf, Pending, Attributed, Within

\* The samples of a profile made from a source of ids are those of the valid
\* invocations that lie inside them, each once and with its contents: samples
\* that arrive before their invocation's boundaries wait for them, and those
\* outside are left out.
THEOREM SamplesInside == ConsistentSpec => []SamplesAreThoseInside
<1>1. CorrInv => SamplesAreThoseInside
    <2> SUFFICES ASSUME CorrInv, finished, sourceMode
                 PROVE  samples = UNION {
                          {Attributed(i.id, s) : s \in {e \in SamplesOf(i.id) : e.ts \in i.start..i.end}} :
                             i \in Population}
        BY DEF SamplesAreThoseInside
    <2> DEFINE inside(i) == {e \in SamplesOf(i.id) : e.ts \in i.start..i.end}
               row(i) == {Attributed(i.id, s) : s \in inside(i)}
    <2>1. PICK now \in Time :
             /\ invocations = {SourceReport(i, now) : i \in ReportedIds}
             /\ samples = {Attributed(p[1], p[2]) : p \in AcceptedSamples(ValidIds(now), now)}
        BY DEF CorrInv, FinishFits
    <2>2. Population = {SourceReport(i, now) : i \in ValidIds(now)}
        BY <2>1, PopulationOf
    <2>3. ValidIds(now) \subseteq ReportedIds
        BY DEF ValidIds
    <2>4. \A j \in ReportedIds : SourceReport(j, now).id = j
        BY DEF SourceReport, Report
    <2>5. ASSUME NEW x \in samples PROVE \E i \in Population : x \in row(i)
        <3>1. PICK p \in AcceptedSamples(ValidIds(now), now) : x = Attributed(p[1], p[2])
            BY <2>1
        <3>2. PICK j \in ValidIds(now) : \E s \in source[j].samples : p = <<j, s>>
            BY DEF AcceptedSamples, PendingOfValid
        <3>3. j \in ReportedIds /\ p[1] = j /\ p[2] \in source[j].samples
              /\ Within(p[2], source[j], now)
            BY <2>3, <3>2 DEF AcceptedSamples
        <3>4. j \in Ids /\ source[j] # NoRecord
            BY <3>3 DEF ReportedIds
        <3>5. PICK e \in SamplesOf(j) : p[2] = Pending(e)
            BY <3>3, <3>4, RecordFacts DEF RecordAgrees, PendingOf
        <3>6. x = Attributed(j, e) /\ e.ts \in SourceReport(j, now).start..SourceReport(j, now).end
            BY <3>1, <3>3, <3>5, AcceptedSample
        <3>7. SourceReport(j, now) \in Population
            BY <2>2, <3>2
        <3>8. x \in row(SourceReport(j, now))
            BY <2>4, <3>3, <3>5, <3>6
        <3> QED
            BY <3>7, <3>8
    <2>6. ASSUME NEW i \in Population, NEW x \in row(i) PROVE x \in samples
        <3>1. PICK j \in ValidIds(now) : i = SourceReport(j, now)
            BY <2>2
        <3>2. j \in ReportedIds /\ i.id = j
            BY <2>3, <2>4, <3>1
        <3>3. PICK e \in SamplesOf(j) : x = Attributed(j, e) /\ e.ts \in i.start..i.end
            BY <3>2
        <3>4. /\ Pending(e) \in source[j].samples
              /\ Attributed(j, Pending(e)) = x
              /\ Within(Pending(e), source[j], now)
            BY <3>1, <3>2, <3>3, AcceptedSample
        <3>5. <<j, Pending(e)>> \in AcceptedSamples(ValidIds(now), now)
            BY <3>4 DEF AcceptedSamples, PendingOfValid
        <3> QED
            BY <2>1, <3>4, <3>5
    <2> HIDE DEF row
    <2>7. samples = UNION {row(i) : i \in Population}
        BY <2>5, <2>6
    <2> QED
        BY <2>7 DEF row
<1> QED
    BY <1>1, CorrInvariant, PTL

-----------------------------------------------------------------------------
(* Local mode: ids are spent once, and a sample keeps its invocation's *)

OwnedBy(s, i) == i.id = s.id /\ i.tid = s.tid

OwnedByOpen(s) == local[s.tid] # NoRecord /\ local[s.tid].id = s.id

LocalIdsFit ==
    /\ \A t \in Tids : local[t] # NoRecord => local[t].id < nextLocalId
    /\ \A t, u \in Tids : local[t] # NoRecord /\ local[u] # NoRecord /\ local[t].id = local[u].id => t = u
    /\ \A i \in invocations : i.id < nextLocalId
    /\ \A i, j \in invocations : i.id = j.id => i = j
    /\ ~finished => \A i \in invocations, t \in Tids : local[t] # NoRecord => i.id # local[t].id

LocalSamplesFit ==
    \A s \in samples :
       \/ \E i \in invocations : OwnedBy(s, i)
       \/ ~finished /\ OwnedByOpen(s)

LocalInv == ~(finished /\ sourceMode) => LocalIdsFit /\ LocalSamplesFit

LEMMA LocalInitFits == CorrInit => LocalInv
BY DEF CorrInit, LocalInv, LocalIdsFit, LocalSamplesFit

\* The parts of a tagged sample.
LEMMA TaggedSample ==
    ASSUME NEW e, NEW id, NEW S
    PROVE  LET s == Tagged([n |-> 0, id |-> id, tid |-> e.tid, ts |-> e.ts, state |-> e.state,
                            weight |-> e.weight, frames |-> e.frames], S)
           IN  s.id = id /\ s.tid = e.tid
BY DEF Tagged

LEMMA LocalEntryFits ==
    ASSUME CorrTypeOK, ~finished, finished' = finished, LocalIdsFit, LocalSamplesFit,
           NEW e \in BoundaryEvent, LocalEntry(e)
    PROVE  LocalIdsFit' /\ LocalSamplesFit'
<1> DEFINE new == [id |-> nextLocalId, fn |-> e.fn, start |-> e.ts, valid |-> TRUE]
           t == e.tid
<1>0. t \in Tids /\ e.ts \in Time
    BY DEF BoundaryEvent
<1>1. local' = [local EXCEPT ![t] = new] /\ nextLocalId' = nextLocalId + 1 /\ samples' = samples
    BY DEF LocalEntry, TakeLocalId
<1>2. /\ nextLocalId \in Nat /\ local \in [Tids -> LocalInvocation \cup {NoRecord}]
      /\ \A u \in Tids : local[u] # NoRecord => local[u].id \in Nat
      /\ \A i \in invocations : i.id \in Nat
      /\ \A s \in samples : s.tid \in Tids
    BY DEF CorrTypeOK, LocalInvocation, Invocation, Sample
<1>3. new # NoRecord /\ new.id = nextLocalId
    <2>1. new \in LocalInvocation
        BY <1>0, <1>2 DEF LocalInvocation, BoundaryEvent
    <2> QED
        BY <2>1, NoRecordAssumption
<1>4. \A u \in Tids : local'[u] = IF u = t THEN new ELSE local[u]
    BY <1>0, <1>1, <1>2
<1>5. CASE local[t] = NoRecord
    <2>1. invocations' = invocations
        BY <1>5 DEF LocalEntry
    <2> HIDE DEF new
    <2>2. LocalIdsFit'
        BY <1>1, <1>2, <1>3, <1>4, <2>1 DEF LocalIdsFit
    <2>3. LocalSamplesFit'
        BY <1>1, <1>2, <1>4, <1>5, <2>1 DEF LocalSamplesFit, OwnedBy, OwnedByOpen
    <2> QED
        BY <2>2, <2>3
<1>6. CASE local[t] # NoRecord
    <2> DEFINE x == Abandoned(t, e.ts)
    <2>1. invocations' = invocations \cup {x}
        BY <1>6 DEF LocalEntry
    <2>2. x.id = local[t].id /\ x.tid = t
        BY DEF Abandoned, Report
    <2> HIDE DEF new, x
    <2>3. LocalIdsFit'
        BY <1>0, <1>1, <1>2, <1>3, <1>4, <1>6, <2>1, <2>2 DEF LocalIdsFit
    <2>4. LocalSamplesFit'
        BY <1>1, <1>2, <1>4, <2>1, <2>2 DEF LocalSamplesFit, OwnedBy, OwnedByOpen
    <2> QED
        BY <2>3, <2>4
<1> QED
    BY <1>5, <1>6

LEMMA LocalReturnFits ==
    ASSUME CorrTypeOK, ~finished, finished' = finished, LocalIdsFit, LocalSamplesFit,
           NEW e \in BoundaryEvent, LocalReturn(e)
    PROVE  LocalIdsFit' /\ LocalSamplesFit'
<1> DEFINE t == e.tid
<1>0. t \in Tids
    BY DEF BoundaryEvent
<1>1. nextLocalId' = nextLocalId /\ samples' = samples
    BY DEF LocalReturn
<1>2. /\ nextLocalId \in Nat /\ local \in [Tids -> LocalInvocation \cup {NoRecord}]
      /\ \A s \in samples : s.tid \in Tids
    BY DEF CorrTypeOK, Sample
<1>3. CASE local[t] = NoRecord
    <2>1. UNCHANGED <<local, invocations>>
        BY <1>3 DEF LocalReturn
    <2> QED
        BY <1>1, <2>1 DEF LocalIdsFit, LocalSamplesFit, OwnedBy, OwnedByOpen
<1>4. CASE local[t] # NoRecord
    <2> DEFINE x == Report(local[t].id, local[t].fn, t, local[t].start, e.ts, TRUE,
                           ReturnMatches(local[t], e))
    <2>1. invocations' = invocations \cup {x} /\ local' = [local EXCEPT ![t] = NoRecord]
        BY <1>4 DEF LocalReturn
    <2>2. x.id = local[t].id /\ x.tid = t
        BY DEF Report
    <2>3. \A u \in Tids : local'[u] = IF u = t THEN NoRecord ELSE local[u]
        BY <1>0, <1>2, <2>1
    <2> HIDE DEF x
    <2>4. LocalIdsFit'
        BY <1>0, <1>1, <1>2, <1>4, <2>1, <2>2, <2>3 DEF LocalIdsFit
    <2>5. LocalSamplesFit'
        BY <1>1, <1>2, <2>1, <2>2, <2>3 DEF LocalSamplesFit, OwnedBy, OwnedByOpen
    <2> QED
        BY <2>4, <2>5
<1> QED
    BY <1>3, <1>4

LEMMA LocalPushFits ==
    ASSUME CorrTypeOK, LocalInv, NEW e \in CollectorEvent, Push(e)
    PROVE  LocalInv'
<1>0. ~finished /\ finished' = finished /\ LocalIdsFit /\ LocalSamplesFit
    BY DEF Push, LocalInv
<1> SUFFICES LocalIdsFit' /\ LocalSamplesFit'
    BY DEF LocalInv
<1>1. CASE e.kind \in AboutInvocation /\ e.id # NoId
    <2>1. UNCHANGED <<local, nextLocalId, invocations, samples>>
        BY <1>1 DEF Push, PushEntry, PushReturn, PushSample, PushToSource, AboutInvocation
    <2> QED
        BY <1>0, <2>1 DEF LocalIdsFit, LocalSamplesFit, OwnedBy, OwnedByOpen
<1>2. CASE e.kind = "Entry" /\ e.id = NoId
    BY <1>0, <1>2, EventKinds, LocalEntryFits DEF Push, PushEntry
<1>3. CASE e.kind = "Return" /\ e.id = NoId
    BY <1>0, <1>3, EventKinds, LocalReturnFits DEF Push, PushReturn
<1>4. CASE e.kind = "Sample" /\ e.id = NoId
    <2> DEFINE s == Tagged([n |-> 0, id |-> local[e.tid].id, tid |-> e.tid, ts |-> e.ts,
                            state |-> e.state, weight |-> e.weight, frames |-> e.frames], samples)
    <2>1. /\ UNCHANGED <<local, nextLocalId, invocations>>
          /\ \/ samples' = samples
             \/ local[e.tid] # NoRecord /\ samples' = samples \cup {s}
        BY <1>4 DEF Push, PushSample, LocalSample, tables
    <2>2. s.id = local[e.tid].id /\ s.tid = e.tid
        BY TaggedSample
    <2> HIDE DEF s
    <2>3. LocalIdsFit'
        BY <1>0, <2>1 DEF LocalIdsFit
    <2>4. LocalSamplesFit'
        BY <1>0, <2>1, <2>2 DEF LocalSamplesFit, OwnedBy, OwnedByOpen
    <2> QED
        BY <2>3, <2>4
<1>5. CASE e.kind = "Violation"
    <2> DEFINE t == e.tid
    <2>1. UNCHANGED <<nextLocalId, invocations, samples>>
          /\ local' = IF local[t] = NoRecord THEN local ELSE [local EXCEPT ![t].valid = FALSE]
        BY <1>5 DEF Push, PushViolation
    <2>2. local \in [Tids -> LocalInvocation \cup {NoRecord}] /\ \A s \in samples : s.tid \in Tids
        BY DEF CorrTypeOK, Sample
    <2>3. t \in Tids
        BY <1>5, EventKinds DEF ViolationEvent
    <2>4. \A u \in Tids : /\ local'[u] # NoRecord => local[u] # NoRecord
                          /\ local[u] # NoRecord => local'[u] # NoRecord
                          /\ local[u] # NoRecord => local'[u].id = local[u].id
        <3>1. CASE local[t] = NoRecord
            BY <2>1, <3>1
        <3>2. CASE local[t] # NoRecord
            <4>1. local[t] \in LocalInvocation
                BY <2>2, <2>3, <3>2
            <4>2. [local[t] EXCEPT !.valid = FALSE] \in LocalInvocation
                  /\ [local[t] EXCEPT !.valid = FALSE].id = local[t].id
                BY <4>1 DEF LocalInvocation
            <4>3. \A u \in Tids : local'[u] = IF u = t THEN [local[t] EXCEPT !.valid = FALSE] ELSE local[u]
                BY <2>1, <2>2, <2>3, <3>2
            <4> QED
                BY <3>2, <4>2, <4>3, NoRecordAssumption
        <3> QED
            BY <3>1, <3>2
    <2>5. LocalIdsFit'
        BY <1>0, <2>1, <2>4 DEF LocalIdsFit
    <2>6. LocalSamplesFit'
        BY <1>0, <2>1, <2>2, <2>4 DEF LocalSamplesFit, OwnedBy, OwnedByOpen
    <2> QED
        BY <2>5, <2>6
<1>6. CASE e.kind \in {"DroppedEvents", "DroppedSamples"}
    <2>1. UNCHANGED <<local, nextLocalId, invocations, samples>>
        BY <1>6 DEF Push, PushDropped, tables
    <2> QED
        BY <1>0, <2>1 DEF LocalIdsFit, LocalSamplesFit, OwnedBy, OwnedByOpen
<1> QED
    BY <1>1, <1>2, <1>3, <1>4, <1>5, <1>6 DEF Push, AboutInvocation

LEMMA LocalFinishFits ==
    ASSUME CorrTypeOK, LocalInv, NEW now \in Time, Finish(now)
    PROVE  LocalInv'
<1>0. ~finished /\ finished' = TRUE /\ LocalIdsFit /\ LocalSamplesFit /\ UNCHANGED tables
    BY DEF Finish, LocalInv
<1> SUFFICES ASSUME ~sourceMode PROVE LocalIdsFit' /\ LocalSamplesFit'
    BY <1>0 DEF LocalInv, tables
<1>1. invocations' = invocations \cup LocalLeftovers(now) /\ samples' = samples
    BY DEF Finish, FinishLocal
<1>2. \A x \in LocalLeftovers(now) :
         \E t \in Tids : local[t] # NoRecord /\ x = Abandoned(t, now) /\ x.id = local[t].id
    BY DEF LocalLeftovers, Abandoned, Report
<1>3. \A t \in Tids : local[t] # NoRecord => Abandoned(t, now) \in LocalLeftovers(now)
                                             /\ Abandoned(t, now).id = local[t].id
                                             /\ Abandoned(t, now).tid = t
    BY DEF LocalLeftovers, Abandoned, Report
<1>4. UNCHANGED <<local, nextLocalId>> /\ \A s \in samples : s.tid \in Tids
    BY <1>0 DEF tables, CorrTypeOK, Sample
<1>5. LocalIdsFit'
    BY <1>0, <1>1, <1>2, <1>4 DEF LocalIdsFit
<1>6. LocalSamplesFit'
    BY <1>0, <1>1, <1>3, <1>4 DEF LocalSamplesFit, OwnedBy, OwnedByOpen
<1> QED
    BY <1>5, <1>6

LEMMA LocalInvariant == CorrSpec => [](CorrTypeOK /\ CorrFinite /\ LocalInv)
<1>1. CorrInit => CorrTypeOK /\ CorrFinite /\ LocalInv
    BY CorrInitTyped, LocalInitFits
<1>2. CorrTypeOK /\ CorrFinite /\ LocalInv /\ [CorrNext]_corrVars
         => (CorrTypeOK /\ CorrFinite /\ LocalInv)'
    <2> SUFFICES ASSUME CorrTypeOK, CorrFinite, LocalInv, [CorrNext]_corrVars
                 PROVE  LocalInv'
        BY CorrStepTyped
    <2>1. CASE \E e \in CollectorEvent : Push(e)
        BY <2>1, LocalPushFits
    <2>2. CASE \E now \in Time : Finish(now)
        BY <2>2, LocalFinishFits
    <2>3. CASE UNCHANGED corrVars
        BY <2>3 DEF corrVars, tables, profileVars, LocalInv, LocalIdsFit, LocalSamplesFit,
                    OwnedBy, OwnedByOpen
    <2> QED
        BY <2>1, <2>2, <2>3 DEF CorrNext
<1> QED
    BY <1>1, <1>2, PTL DEF CorrSpec

\* Whatever is pushed, a correlator that was never given an id finishes with
\* every sample in exactly one reported invocation, and that one ran on the
\* sample's thread: an entry nested in an open invocation, which gives that one
\* up and takes a new id, never makes two of them share a sample.
THEOREM LocalSamplesHaveOneOwner == CorrSpec => []LocalSamplesOwned
<1>1. CorrTypeOK /\ CorrFinite /\ LocalInv => LocalSamplesOwned
    <2> SUFFICES ASSUME LocalInv, finished, ~sourceMode, NEW s \in samples
                 PROVE  Cardinality({i \in invocations : i.id = s.id /\ i.tid = s.tid}) = 1
        BY DEF LocalSamplesOwned
    <2>1. LocalIdsFit /\ LocalSamplesFit
        BY DEF LocalInv
    <2>2. PICK i \in invocations : OwnedBy(s, i)
        BY <2>1 DEF LocalSamplesFit
    <2>3. {j \in invocations : j.id = s.id /\ j.tid = s.tid} = {i}
        BY <2>1, <2>2 DEF LocalIdsFit, OwnedBy
    <2> QED
        BY <2>3, FS_Singleton
<1> QED
    BY <1>1, LocalInvariant, PTL

-----------------------------------------------------------------------------
(* Quality counters *)

Rejected == invocations \ Population

\* A counter moves by what is added to it.
LEMMA CountValue ==
    ASSUME NEW inc, Count(inc), NEW c \in Counters
    PROVE  quality'[c] = IF c \in DOMAIN inc THEN quality[c] + inc[c] ELSE quality[c]
BY DEF Count

\* A new report is counted on its side.
LEMMA ReportCounted ==
    ASSUME IsFiniteSet(invocations), NEW x, x \notin invocations, x.valid \in BOOLEAN,
           invocations' = invocations \cup {x}
    PROVE  /\ Cardinality(Population') = Cardinality(Population) + Bit(x.valid)
           /\ Cardinality(Rejected') = Cardinality(Rejected) + Bit(~x.valid)
           /\ Cardinality(Population) \in Nat /\ Cardinality(Rejected) \in Nat
<1>1. Population \in SUBSET invocations /\ Rejected \in SUBSET invocations
    BY DEF Population, Rejected
<1>2. IsFiniteSet(Population) /\ IsFiniteSet(Rejected)
    BY <1>1, FS_Subset
<1>3. Cardinality(Population) \in Nat /\ Cardinality(Rejected) \in Nat
    BY <1>2, FS_CardinalityType
<1>4. x \notin Population /\ x \notin Rejected
    BY DEF Population, Rejected
<1>5. CASE x.valid
    <2>1. Population' = Population \cup {x} /\ Rejected' = Rejected
        BY <1>5 DEF Population, Rejected
    <2>2. Cardinality(Population \cup {x}) = Cardinality(Population) + 1
        BY <1>2, <1>4, FS_AddElement
    <2> QED
        BY <1>3, <1>5, <2>1, <2>2 DEF Bit
<1>6. CASE ~x.valid
    <2>1. Population' = Population /\ Rejected' = Rejected \cup {x}
        BY <1>6 DEF Population, Rejected
    <2>2. Cardinality(Rejected \cup {x}) = Cardinality(Rejected) + 1
        BY <1>2, <1>4, FS_AddElement
    <2> QED
        BY <1>3, <1>6, <2>1, <2>2 DEF Bit
<1> QED
    BY <1>5, <1>6

\* Every invocation reported is counted once, as complete or as incomplete.
ReportsCounted ==
    /\ quality["complete"] = Cardinality(Population)
    /\ quality["incomplete"] = Cardinality(Rejected)

SamplesCounted == quality["samplesGenerated"] = Cardinality(Pushed("Sample"))

LEMMA PushCountsReports ==
    ASSUME CorrTypeOK, CorrFinite, LocalInv, ReportsCounted, NEW e \in CollectorEvent, Push(e)
    PROVE  ReportsCounted'
<1>0. /\ quality \in [Counters -> Nat]
      /\ {"complete", "incomplete"} \subseteq Counters
      /\ IsFiniteSet(invocations)
      /\ ~finished /\ LocalIdsFit
    BY DEF CorrTypeOK, CorrFinite, Counters, Push, LocalInv
<1>1. ASSUME UNCHANGED invocations, quality'["complete"] = quality["complete"],
             quality'["incomplete"] = quality["incomplete"]
      PROVE  ReportsCounted'
    BY <1>1 DEF ReportsCounted, Population, Rejected
<1>2. CASE e.kind \in AboutInvocation /\ e.id # NoId
    <2>1. UNCHANGED invocations
        BY <1>2 DEF Push, PushEntry, PushReturn, PushSample, PushToSource, AboutInvocation
    <2>2. Count([eventsGenerated |-> 1]) \/ Count([samplesGenerated |-> 1])
        BY <1>2 DEF Push, PushEntry, PushReturn, PushSample, AboutInvocation
    <2>3. quality'["complete"] = quality["complete"] /\ quality'["incomplete"] = quality["incomplete"]
        BY <1>0, <2>2, CountValue
    <2> QED
        BY <1>1, <2>1, <2>3
<1>3. CASE e.kind = "Entry" /\ e.id = NoId
    <2>0. e.tid \in Tids /\ LocalEntry(e)
        BY <1>3, EventKinds DEF BoundaryEvent, Push, PushEntry
    <2>1. CASE local[e.tid] = NoRecord
        <3>1. Count([eventsGenerated |-> 1]) /\ UNCHANGED invocations
            BY <2>0, <2>1 DEF LocalEntry
        <3>2. quality'["complete"] = quality["complete"] /\ quality'["incomplete"] = quality["incomplete"]
            BY <1>0, <3>1, CountValue
        <3> QED
            BY <1>1, <3>1, <3>2
    <2>2. CASE local[e.tid] # NoRecord
        <3> DEFINE x == Abandoned(e.tid, e.ts)
        <3>1. invocations' = invocations \cup {x} /\ Count(NestedCounts)
            BY <2>0, <2>2 DEF LocalEntry
        <3>2. x.id = local[e.tid].id /\ x.valid = FALSE
            BY DEF Abandoned, Report
        <3>3. x \notin invocations
            BY <1>0, <2>0, <2>2, <3>2 DEF LocalIdsFit
        <3>4. quality'["complete"] = quality["complete"] /\ quality'["incomplete"] = quality["incomplete"] + 1
            BY <1>0, <3>1, CountValue DEF NestedCounts
        <3> HIDE DEF x
        <3>5. /\ Cardinality(Population') = Cardinality(Population) + Bit(x.valid)
              /\ Cardinality(Rejected') = Cardinality(Rejected) + Bit(~x.valid)
              /\ Cardinality(Population) \in Nat
            BY <1>0, <3>1, <3>2, <3>3, ReportCounted
        <3> QED
            BY <3>2, <3>4, <3>5 DEF ReportsCounted, Bit
    <2> QED
        BY <2>1, <2>2
<1>4. CASE e.kind = "Return" /\ e.id = NoId
    <2>0. e.tid \in Tids /\ LocalReturn(e)
        BY <1>4, EventKinds DEF BoundaryEvent, Push, PushReturn
    <2>1. CASE local[e.tid] = NoRecord
        <3>1. Count([eventsGenerated |-> 1, mismatches |-> 1]) /\ UNCHANGED invocations
            BY <2>0, <2>1 DEF LocalReturn
        <3>2. quality'["complete"] = quality["complete"] /\ quality'["incomplete"] = quality["incomplete"]
            BY <1>0, <3>1, CountValue
        <3> QED
            BY <1>1, <3>1, <3>2
    <2>2. CASE local[e.tid] # NoRecord
        <3> DEFINE open == local[e.tid]
                   valid == ReturnMatches(open, e)
                   inc == [eventsGenerated |-> 1, mismatches |-> Bit(~valid),
                           complete |-> Bit(valid), incomplete |-> Bit(~valid)]
                   x == Report(open.id, open.fn, e.tid, open.start, e.ts, TRUE, valid)
        <3>1. invocations' = invocations \cup {x} /\ Count(inc)
            BY <2>0, <2>2 DEF LocalReturn
        <3>2. x.id = open.id /\ x.valid = valid
            BY DEF Report
        <3>3. valid \in BOOLEAN
            BY DEF ReturnMatches
        <3>4. x \notin invocations
            BY <1>0, <2>0, <2>2, <3>2 DEF LocalIdsFit
        <3>5. /\ DOMAIN inc = {"eventsGenerated", "mismatches", "complete", "incomplete"}
              /\ inc["complete"] = Bit(valid) /\ inc["incomplete"] = Bit(~valid)
            OBVIOUS
        <3> HIDE DEF open, valid, inc, x
        <3>6. quality'["complete"] = quality["complete"] + Bit(valid)
              /\ quality'["incomplete"] = quality["incomplete"] + Bit(~valid)
            BY <1>0, <3>1, <3>5, CountValue
        <3>7. /\ Cardinality(Population') = Cardinality(Population) + Bit(x.valid)
              /\ Cardinality(Rejected') = Cardinality(Rejected) + Bit(~x.valid)
            BY <1>0, <3>1, <3>2, <3>3, <3>4, ReportCounted
        <3> QED
            BY <3>2, <3>6, <3>7 DEF ReportsCounted
    <2> QED
        BY <2>1, <2>2
<1>5. CASE e.kind = "Sample" /\ e.id = NoId
    <2>1. Count([samplesGenerated |-> 1]) /\ UNCHANGED invocations
        BY <1>5 DEF Push, PushSample, LocalSample
    <2>2. quality'["complete"] = quality["complete"] /\ quality'["incomplete"] = quality["incomplete"]
        BY <1>0, <2>1, CountValue
    <2> QED
        BY <1>1, <2>1, <2>2
<1>6. CASE e.kind = "Violation"
    <2>1. UNCHANGED invocations
          /\ \E a, b \in {0, 1, 2} : Count([eventsGenerated |-> 1, mismatches |-> a, suspected |-> b])
        BY <1>6 DEF Push, PushViolation, Bit
    <2>2. quality'["complete"] = quality["complete"] /\ quality'["incomplete"] = quality["incomplete"]
        BY <1>0, <2>1, CountValue
    <2> QED
        BY <1>1, <2>1, <2>2
<1>7. CASE e.kind \in {"DroppedEvents", "DroppedSamples"}
    <2>1. UNCHANGED invocations
          /\ (Count([eventsDropped |-> e.count]) \/ Count([samplesDropped |-> e.count]))
        BY <1>7 DEF Push, PushDropped
    <2>2. quality'["complete"] = quality["complete"] /\ quality'["incomplete"] = quality["incomplete"]
        BY <1>0, <2>1, CountValue
    <2> QED
        BY <1>1, <2>1, <2>2
<1> QED
    BY <1>2, <1>3, <1>4, <1>5, <1>6, <1>7 DEF Push, AboutInvocation

\* A new sample is counted.
LEMMA PushCountsSamples ==
    ASSUME CorrTypeOK, CorrFinite, WellTagged(log), SamplesCounted,
           NEW e \in CollectorEvent, Push(e)
    PROVE  SamplesCounted'
<1> DEFINE t == Tagged(e, log)
           S == Pushed("Sample")
<1>0. quality \in [Counters -> Nat] /\ "samplesGenerated" \in Counters
    BY DEF CorrTypeOK, Counters
<1>1. t \notin log /\ \A k : Pushed(k)' = IF k = e.kind THEN Pushed(k) \cup {t} ELSE Pushed(k)
    BY LogGrows DEF Push
<1>2. S \in SUBSET log
    BY DEF Pushed
<1>3. IsFiniteSet(S)
    BY <1>2, FS_Subset DEF CorrFinite
<1>4. CASE e.kind = "Sample"
    <2>1. Count([samplesGenerated |-> 1])
        BY <1>4 DEF Push, PushSample, LocalSample
    <2>2. quality'["samplesGenerated"] = quality["samplesGenerated"] + 1
        BY <1>0, <2>1, CountValue
    <2>3. Pushed("Sample")' = S \cup {t} /\ t \notin S
        BY <1>1, <1>2, <1>4
    <2>4. Cardinality(S \cup {t}) = Cardinality(S) + 1
        BY <1>3, <2>3, FS_AddElement
    <2> QED
        BY <2>2, <2>3, <2>4 DEF SamplesCounted
<1>5. CASE e.kind # "Sample"
    <2>1. Pushed("Sample")' = Pushed("Sample")
        BY <1>1, <1>5
    <2>2. quality'["samplesGenerated"] = quality["samplesGenerated"]
        <3>1. CASE e.kind = "Entry"
            <4>1. Count([eventsGenerated |-> 1]) \/ Count(NestedCounts)
                BY <3>1 DEF Push, PushEntry, LocalEntry
            <4> QED
                BY <1>0, <4>1, CountValue DEF NestedCounts
        <3>2. CASE e.kind = "Return"
            <4>1. \/ Count([eventsGenerated |-> 1])
                  \/ Count([eventsGenerated |-> 1, mismatches |-> 1])
                  \/ \E a, b, c \in {0, 1} :
                        Count([eventsGenerated |-> 1, mismatches |-> a, complete |-> b, incomplete |-> c])
                BY <3>2 DEF Push, PushReturn, LocalReturn, Bit
            <4> QED
                BY <1>0, <4>1, CountValue
        <3>3. CASE e.kind = "Violation"
            <4>1. \E a, b \in {0, 1, 2} : Count([eventsGenerated |-> 1, mismatches |-> a, suspected |-> b])
                BY <3>3 DEF Push, PushViolation, Bit
            <4> QED
                BY <1>0, <4>1, CountValue
        <3>4. CASE e.kind \in {"DroppedEvents", "DroppedSamples"}
            <4>1. Count([eventsDropped |-> e.count]) \/ Count([samplesDropped |-> e.count])
                BY <3>4 DEF Push, PushDropped
            <4> QED
                BY <1>0, <4>1, CountValue
        <3> QED
            BY <1>5, <3>1, <3>2, <3>3, <3>4 DEF Push
    <2> QED
        BY <2>1, <2>2 DEF SamplesCounted
<1> QED
    BY <1>4, <1>5

\* What the source-mode half of finish adds.
SourceInc(now) ==
    [suspected |-> Cardinality(CaughtPairs),
     complete |-> Cardinality(ValidIds(now)),
     incomplete |-> Cardinality(ReportedIds \ ValidIds(now)) + Cardinality(LocalLeftovers(now)),
     mismatches |-> Cardinality(PendingOfValid(ValidIds(now)) \ AcceptedSamples(ValidIds(now), now))
                    + Cardinality(Broken(ValidIds(now)))]

\* The reports of a set of ids are as many as the ids.
LEMMA ReportsOfIds ==
    ASSUME NEW now \in Time, NEW S \in SUBSET ReportedIds
    PROVE  Cardinality({SourceReport(i, now) : i \in S}) = Cardinality(S)
<1> DEFINE f == [i \in S |-> SourceReport(i, now)]
<1>1. \A i \in S : f[i].id = i
    BY DEF SourceReport, Report
<1>2. DOMAIN f = S /\ f = [i \in S |-> f[i]] /\ {SourceReport(i, now) : i \in S} = {f[i] : i \in S}
    OBVIOUS
<1>3. IsFiniteSet(S)
    BY IdsFinite
<1> HIDE DEF f
<1>4. \A i, j \in S : f[i] = f[j] => i = j
    BY <1>1
<1> QED
    BY <1>2, <1>3, <1>4, FiniteImage

\* In source mode finish starts from an empty profile.
LEMMA FinishSourceMakes ==
    ASSUME CorrInv, NEW now \in Time, Finish(now), sourceMode
    PROVE  /\ Population' = {SourceReport(i, now) : i \in ValidIds(now)}
           /\ Rejected' = {SourceReport(i, now) : i \in ReportedIds \ ValidIds(now)}
           /\ samples' = {Attributed(p[1], p[2]) : p \in AcceptedSamples(ValidIds(now), now)}
           /\ Count(SourceInc(now))
           /\ invocations = {} /\ LocalLeftovers(now) = {}
<1>1. \A d \in log : d.kind \in AboutInvocation => d.id # NoId
    BY DEF CorrInv, ModeFits, LogConsistent, Agree
<1>2. (\A t \in Tids : local[t] = NoRecord) /\ invocations = {} /\ samples = {}
    BY <1>1 DEF CorrInv, ModeFits, Finish
<1>3. LocalLeftovers(now) = {}
    BY <1>2 DEF LocalLeftovers
<1>4. /\ invocations' = {SourceReport(i, now) : i \in ReportedIds}
      /\ samples' = {Attributed(p[1], p[2]) : p \in AcceptedSamples(ValidIds(now), now)}
      /\ Count(SourceInc(now))
    BY <1>2, <1>3 DEF Finish, FinishSource, ValidIds, SourceInc
<1>5. \A i \in ReportedIds : SourceReport(i, now).valid = ReportedValid(i, now)
                             /\ SourceReport(i, now).id = i
    BY DEF SourceReport, Report
<1>6. Population' = {SourceReport(i, now) : i \in ValidIds(now)}
    BY <1>4, <1>5 DEF Population, ValidIds
<1>7. Rejected' = {SourceReport(i, now) : i \in ReportedIds \ ValidIds(now)}
    BY <1>4, <1>5, <1>6 DEF Rejected, ValidIds
<1> QED
    BY <1>2, <1>3, <1>4, <1>6, <1>7

LEMMA FinishCountsReports ==
    ASSUME CorrInv, LocalInv, ReportsCounted, NEW now \in Time, Finish(now)
    PROVE  ReportsCounted'
<1>0. /\ quality \in [Counters -> Nat]
      /\ {"complete", "incomplete"} \subseteq Counters
      /\ CorrTypeOK /\ CorrFinite
      /\ ~finished /\ LocalIdsFit
    BY DEF CorrInv, CorrTypeOK, Counters, Finish, LocalInv
<1>1. CASE sourceMode
    <2>1. /\ Population' = {SourceReport(i, now) : i \in ValidIds(now)}
          /\ Rejected' = {SourceReport(i, now) : i \in ReportedIds \ ValidIds(now)}
          /\ Count(SourceInc(now))
          /\ invocations = {} /\ LocalLeftovers(now) = {}
        BY <1>1, FinishSourceMakes
    <2>2. Population = {} /\ Rejected = {}
        BY <2>1 DEF Population, Rejected
    <2>3. quality["complete"] = 0 /\ quality["incomplete"] = 0 /\ Cardinality(LocalLeftovers(now)) = 0
        BY <2>1, <2>2, FS_EmptySet DEF ReportsCounted
    <2>4. /\ Cardinality(ValidIds(now)) \in Nat
          /\ Cardinality(ReportedIds \ ValidIds(now)) \in Nat
          /\ Cardinality(Population') = Cardinality(ValidIds(now))
          /\ Cardinality(Rejected') = Cardinality(ReportedIds \ ValidIds(now))
        BY <2>1, IdsFinite, ReportsOfIds DEF ValidIds
    <2>5. quality'["complete"] = quality["complete"] + Cardinality(ValidIds(now))
          /\ quality'["incomplete"] = quality["incomplete"]
                + (Cardinality(ReportedIds \ ValidIds(now)) + Cardinality(LocalLeftovers(now)))
        <3> DEFINE inc == SourceInc(now)
        <3>1. /\ "complete" \in DOMAIN inc /\ "incomplete" \in DOMAIN inc
              /\ inc["complete"] = Cardinality(ValidIds(now))
              /\ inc["incomplete"] = Cardinality(ReportedIds \ ValidIds(now))
                                      + Cardinality(LocalLeftovers(now))
            BY DEF SourceInc
        <3>2. Count(inc)
            BY <2>1
        <3> HIDE DEF inc
        <3> QED
            BY <1>0, <3>1, <3>2, CountValue
    <2> QED
        BY <2>3, <2>4, <2>5 DEF ReportsCounted
<1>2. CASE ~sourceMode
    <2> DEFINE L == LocalLeftovers(now)
    <2>1. invocations' = invocations \cup L /\ Count([incomplete |-> Cardinality(L)])
        BY <1>2 DEF Finish, FinishLocal
    <2>2. \A x \in L : x.valid = FALSE /\ x \notin invocations
        BY <1>0 DEF LocalLeftovers, Abandoned, Report, LocalIdsFit
    <2>3. IsFiniteSet(L) /\ Cardinality(L) \in Nat
        BY <1>0, LeftoversTyped
    <2>4. Population' = Population /\ Rejected' = Rejected \cup L /\ Rejected \cap L = {}
        BY <2>1, <2>2 DEF Population, Rejected
    <2>5. Rejected \in SUBSET invocations
        BY DEF Rejected
    <2>6. IsFiniteSet(Rejected) /\ Cardinality(Rejected) \in Nat
        BY <1>0, <2>5, FS_Subset, FS_CardinalityType DEF CorrFinite
    <2>7. Cardinality(Rejected \cup L) = Cardinality(Rejected) + Cardinality(L) - Cardinality(Rejected \cap L)
        BY <2>3, <2>6, FS_Union
    <2>8. Cardinality(Rejected \cap L) = 0
        BY <2>4, FS_EmptySet
    <2>9. quality'["complete"] = quality["complete"]
          /\ quality'["incomplete"] = quality["incomplete"] + Cardinality(L)
        BY <1>0, <2>1, CountValue
    <2> HIDE DEF L
    <2> QED
        BY <2>3, <2>4, <2>6, <2>7, <2>8, <2>9 DEF ReportsCounted
<1> QED
    BY <1>1, <1>2

\* The waiting samples of some reported ids are the samples pushed for them.
LEMMA PendingCounted ==
    ASSUME CorrInv, NEW S \in SUBSET ReportedIds
    PROVE  Cardinality(PendingOfValid(S)) = Cardinality({e \in Pushed("Sample") : e.id \in S})
<1> DEFINE E == {e \in Pushed("Sample") : e.id \in S}
           f == [e \in E |-> <<e.id, Pending(e)>>]
<1>1. \A i \in S : i \in Ids /\ source[i].samples = PendingOf(SamplesOf(i))
    BY RecordFacts DEF ReportedIds, RecordAgrees
<1>2. PendingOfValid(S) = {f[e] : e \in E}
    <2>1. ASSUME NEW p \in PendingOfValid(S) PROVE \E e \in E : p = f[e]
        <3>1. PICK i \in S : \E s \in source[i].samples : p = <<i, s>>
            BY DEF PendingOfValid
        <3>2. PICK e \in SamplesOf(i) : p = <<i, Pending(e)>>
            BY <1>1, <3>1 DEF PendingOf
        <3>3. e \in E /\ e.id = i
            BY DEF SamplesOf
        <3> QED
            BY <3>2, <3>3
    <2>2. ASSUME NEW e \in E PROVE f[e] \in PendingOfValid(S)
        <3>1. e.id \in S /\ e \in SamplesOf(e.id)
            BY DEF SamplesOf
        <3>2. Pending(e) \in source[e.id].samples
            BY <1>1, <3>1 DEF PendingOf
        <3> QED
            BY <3>1, <3>2 DEF PendingOfValid
    <2> HIDE DEF f
    <2> QED
        BY <2>1, <2>2
<1>3. ASSUME NEW d \in E, NEW e \in E, f[d] = f[e] PROVE d = e
    <2>1. d.id = e.id /\ Pending(d) = Pending(e)
        BY <1>3
    <2>2. d \in SampleEvent /\ e \in SampleEvent
        BY EventKinds DEF Pushed, CorrInv, CorrTypeOK
    <2> QED
        BY <2>1, <2>2 DEF Pending, SampleEvent
<1>4. E \in SUBSET log
    BY DEF Pushed
<1>5. IsFiniteSet(E)
    BY <1>4, FS_Subset DEF CorrInv, CorrFinite
<1>6. DOMAIN f = E /\ f = [e \in E |-> f[e]]
    OBVIOUS
<1> HIDE DEF f, E
<1>7. Cardinality(PendingOfValid(S)) = Cardinality(E)
    BY <1>2, <1>3, <1>5, <1>6, FiniteImage
<1> QED
    BY <1>7 DEF E

\* A profile has one sample for each accepted one.
LEMMA AcceptedCounted ==
    ASSUME CorrInv, NEW now \in Time
    PROVE  LET accepted == AcceptedSamples(ValidIds(now), now)
           IN  /\ accepted \in SUBSET PendingOfValid(ValidIds(now))
               /\ Cardinality({Attributed(p[1], p[2]) : p \in accepted}) = Cardinality(accepted)
<1> DEFINE A == AcceptedSamples(ValidIds(now), now)
           f == [p \in A |-> Attributed(p[1], p[2])]
<1>0. ValidIds(now) \in SUBSET ReportedIds
    BY DEF ValidIds
<1>1. A \in SUBSET PendingOfValid(ValidIds(now))
    BY DEF AcceptedSamples
<1>2. IsFiniteSet(A)
    BY <1>0, <1>1, PendingFinite, FS_Subset DEF CorrInv
<1>3. ASSUME NEW p \in A, NEW q \in A, f[p] = f[q] PROVE p = q
    <2>1. ASSUME NEW x \in A
          PROVE  \E i \in ReportedIds, s \in PendingSample : x = <<i, s>>
        <3>1. PICK i \in ValidIds(now) : \E s \in source[i].samples : x = <<i, s>>
            BY <1>1 DEF PendingOfValid
        <3>2. i \in ReportedIds /\ source[i].samples \subseteq PendingSample
            BY <1>0, ReportedTyped DEF CorrInv
        <3> QED
            BY <3>1, <3>2
    <2>2. PICK i \in ReportedIds, s \in PendingSample : p = <<i, s>>
        BY <2>1
    <2>3. PICK j \in ReportedIds, u \in PendingSample : q = <<j, u>>
        BY <2>1
    <2>4. Attributed(i, s) = Attributed(j, u)
        BY <1>3, <2>2, <2>3
    <2>5. i = j /\ s = u
        BY <2>4 DEF Attributed, PendingSample
    <2> QED
        BY <2>2, <2>3, <2>5
<1>4. DOMAIN f = A /\ f = [p \in A |-> f[p]] /\ {Attributed(p[1], p[2]) : p \in A} = {f[p] : p \in A}
    OBVIOUS
<1> HIDE DEF f, A
<1>5. Cardinality({Attributed(p[1], p[2]) : p \in A}) = Cardinality(A)
    BY <1>2, <1>3, <1>4, FiniteImage
<1> QED
    BY <1>1, <1>5 DEF A

OnlyIds == \A e \in log : e.kind \in AboutInvocation => e.id # NoId

MismatchesCounted ==
    /\ (~finished /\ OnlyIds) => quality["mismatches"] = Cardinality(Pushed("Violation"))
    /\ (finished /\ sourceMode) =>
          quality["mismatches"] =
               Cardinality(Pushed("Violation"))
             + Cardinality({e \in Pushed("Sample") : \E i \in Population : e.id = i.id})
             - Cardinality(samples)
             + Cardinality({i \in Rejected : i.complete})

LEMMA PushCountsMismatches ==
    ASSUME CorrInv, MismatchesCounted, NEW e \in CollectorEvent, Push(e)
    PROVE  MismatchesCounted'
<1> DEFINE t == Tagged(e, log)
           V == Pushed("Violation")
<1>0. /\ quality \in [Counters -> Nat] /\ "mismatches" \in Counters
      /\ ~finished /\ finished' = FALSE
      /\ CorrTypeOK /\ CorrFinite /\ WellTagged(log)
    BY DEF CorrInv, CorrTypeOK, Counters, Push
<1>1. t \notin log /\ log' = log \cup {t}
      /\ \A k : Pushed(k)' = IF k = e.kind THEN Pushed(k) \cup {t} ELSE Pushed(k)
    BY <1>0, LogGrows DEF Push
<1>2. t.kind = e.kind /\ (e.kind \in AboutInvocation => t.id = e.id)
    BY <1>0, TaggedEvent DEF CorrFinite
<1> SUFFICES ASSUME OnlyIds'
             PROVE  quality'["mismatches"] = Cardinality(V')
    BY <1>0 DEF MismatchesCounted
<1>3. OnlyIds /\ (e.kind \in AboutInvocation => e.id # NoId)
    BY <1>1, <1>2 DEF OnlyIds
<1>4. quality["mismatches"] = Cardinality(V)
    BY <1>0, <1>3 DEF MismatchesCounted
<1>5. CASE e.kind = "Violation"
    <2>1. local[e.tid] = NoRecord
        BY <1>3, <1>5, EventKinds DEF CorrInv, ModeFits, OnlyIds, ViolationEvent
    <2>2. Count([eventsGenerated |-> 1, mismatches |-> 1 + Bit(FALSE), suspected |-> Bit(FALSE)])
        BY <1>5, <2>1 DEF Push, PushViolation
    <2>3. quality'["mismatches"] = quality["mismatches"] + 1
        BY <1>0, <2>2, CountValue DEF Bit
    <2>4. V' = V \cup {t} /\ t \notin V
        BY <1>1, <1>5 DEF Pushed
    <2>5. V \in SUBSET log
        BY DEF Pushed
    <2>6. IsFiniteSet(V)
        BY <1>0, <2>5, FS_Subset DEF CorrFinite
    <2>7. Cardinality(V \cup {t}) = Cardinality(V) + 1
        BY <2>4, <2>6, FS_AddElement
    <2> QED
        BY <1>4, <2>3, <2>4, <2>7
<1>6. CASE e.kind # "Violation"
    <2>1. V' = V
        BY <1>1, <1>6
    <2>2. \/ Count([eventsGenerated |-> 1]) \/ Count([samplesGenerated |-> 1])
          \/ Count([eventsDropped |-> e.count]) \/ Count([samplesDropped |-> e.count])
        BY <1>3, <1>6 DEF Push, PushEntry, PushReturn, PushSample, PushDropped, AboutInvocation
    <2>3. quality'["mismatches"] = quality["mismatches"]
        BY <1>0, <2>2, CountValue
    <2> QED
        BY <1>4, <2>1, <2>3
<1> QED
    BY <1>5, <1>6

LEMMA FinishCountsMismatches ==
    ASSUME CorrInv, MismatchesCounted, NEW now \in Time, Finish(now)
    PROVE  MismatchesCounted'
<1>0. /\ quality \in [Counters -> Nat] /\ "mismatches" \in Counters
      /\ ~finished /\ finished' = TRUE /\ log' = log /\ sourceMode' = sourceMode
      /\ CorrTypeOK /\ CorrFinite
    BY DEF CorrInv, CorrTypeOK, Counters, Finish, tables
<1> DEFINE V == Pushed("Violation")
           valid == ValidIds(now)
           P == PendingOfValid(valid)
           A == AcceptedSamples(valid, now)
           E == {e \in Pushed("Sample") : e.id \in valid}
           broken == Broken(valid)
<1> SUFFICES ASSUME sourceMode
             PROVE  quality'["mismatches"] =
                         Cardinality(V)
                       + Cardinality({e \in Pushed("Sample") : \E i \in Population' : e.id = i.id})
                       - Cardinality(samples')
                       + Cardinality({i \in Rejected' : i.complete})
    BY <1>0 DEF MismatchesCounted, Pushed
<1>1. /\ Population' = {SourceReport(i, now) : i \in valid}
      /\ Rejected' = {SourceReport(i, now) : i \in ReportedIds \ valid}
      /\ samples' = {Attributed(p[1], p[2]) : p \in A}
      /\ Count(SourceInc(now))
    BY FinishSourceMakes
<1>2. valid \in SUBSET ReportedIds /\ broken \in SUBSET ReportedIds
    BY DEF ValidIds, Broken
<1>3. quality["mismatches"] = Cardinality(V)
    <2>1. OnlyIds
        BY DEF CorrInv, ModeFits, LogConsistent, Agree, OnlyIds
    <2> QED
        BY <1>0, <2>1 DEF MismatchesCounted
<1>4. quality'["mismatches"] = quality["mismatches"] + (Cardinality(P \ A) + Cardinality(broken))
    <2> DEFINE inc == SourceInc(now)
    <2>1. "mismatches" \in DOMAIN inc /\ inc["mismatches"] = Cardinality(P \ A) + Cardinality(broken)
        BY DEF SourceInc
    <2>2. Count(inc)
        BY <1>1
    <2> HIDE DEF inc, P, A, broken
    <2> QED
        BY <1>0, <2>1, <2>2, CountValue
<1>5. {e \in Pushed("Sample") : \E i \in Population' : e.id = i.id} = E
    <2>1. \A i \in valid : SourceReport(i, now).id = i
        BY DEF SourceReport, Report
    <2> HIDE DEF valid
    <2> QED
        BY <1>1, <2>1
<1>6. Cardinality(P) = Cardinality(E) /\ IsFiniteSet(P) /\ Cardinality(P) \in Nat
    BY <1>0, <1>2, PendingCounted, PendingFinite
<1>7. A \in SUBSET P /\ Cardinality(samples') = Cardinality(A)
    BY <1>1, AcceptedCounted
<1>8. Cardinality(P \ A) = Cardinality(P) - Cardinality(A) /\ Cardinality(A) \in Nat
    <2>1. P \cap A = A
        BY <1>7
    <2> HIDE DEF P, A
    <2>2. Cardinality(P \ A) = Cardinality(P) - Cardinality(P \cap A) 
        BY <1>6, FS_Difference
    <2>3. Cardinality(A) \in Nat
        BY <1>6, <1>7, FS_Subset, FS_CardinalityType
    <2> QED
        BY <2>1, <2>2, <2>3
<1>9. Cardinality({i \in Rejected' : i.complete}) = Cardinality(broken) /\ Cardinality(broken) \in Nat
    <2>1. \A i \in ReportedIds : SourceReport(i, now).complete = Complete(source[i])
        BY DEF SourceReport, Report
    <2>2. {i \in Rejected' : i.complete} = {SourceReport(i, now) : i \in broken}
        BY <1>1, <2>1 DEF Broken
    <2> HIDE DEF broken
    <2> QED
        BY <1>2, <2>2, ReportsOfIds, IdsFinite
<1>10. Cardinality(V) \in Nat
    <2>1. V \in SUBSET log
        BY DEF Pushed
    <2> QED
        BY <1>0, <2>1, FS_Subset, FS_CardinalityType DEF CorrFinite
<1> DEFINE ofPopulation == {e \in Pushed("Sample") : \E i \in Population' : e.id = i.id}
           unmatched == {i \in Rejected' : i.complete}
<1>11. Cardinality(ofPopulation) = Cardinality(P)
    BY <1>5, <1>6
<1>12. Cardinality(unmatched) = Cardinality(broken) /\ Cardinality(broken) \in Nat
    BY <1>9
<1> HIDE DEF V, valid, P, A, E, broken, ofPopulation, unmatched
<1>13. quality'["mismatches"] = Cardinality(V) + Cardinality(ofPopulation)
                                - Cardinality(samples') + Cardinality(unmatched)
    BY <1>3, <1>4, <1>6, <1>7, <1>8, <1>10, <1>11, <1>12
<1> QED
    BY <1>13 DEF V, ofPopulation, unmatched

LEMMA FinishCountsSamples ==
    ASSUME CorrInv, SamplesCounted, NEW now \in Time, Finish(now)
    PROVE  SamplesCounted'
<1>0. quality \in [Counters -> Nat] /\ "samplesGenerated" \in Counters /\ log' = log
    BY DEF CorrInv, CorrTypeOK, Counters, Finish
<1>1. quality'["samplesGenerated"] = quality["samplesGenerated"]
    <2>1. CASE sourceMode
        <3> DEFINE inc == SourceInc(now)
        <3>1. "samplesGenerated" \notin DOMAIN inc
            BY DEF SourceInc
        <3>2. Count(inc)
            BY <2>1, FinishSourceMakes
        <3> HIDE DEF inc
        <3> QED
            BY <1>0, <3>1, <3>2, CountValue
    <2>2. CASE ~sourceMode
        <3>1. Count([incomplete |-> Cardinality(LocalLeftovers(now))])
            BY <2>2 DEF Finish, FinishLocal
        <3> QED
            BY <1>0, <3>1, CountValue
    <2> QED
        BY <2>1, <2>2
<1> QED
    BY <1>0, <1>1 DEF SamplesCounted, Pushed

QualityInv == CorrInv /\ LocalInv /\ ReportsCounted /\ SamplesCounted /\ MismatchesCounted

LEMMA QualityInit == CorrInit => QualityInv
<1> SUFFICES ASSUME CorrInit PROVE QualityInv
    OBVIOUS
<1>1. CorrInv /\ LocalInv
    BY CorrInitInv, LocalInitFits
<1>2. /\ \A c \in Counters : quality[c] = 0
      /\ {"complete", "incomplete", "samplesGenerated", "mismatches"} \subseteq Counters
      /\ Population = {} /\ Rejected = {} /\ Pushed("Sample") = {} /\ Pushed("Violation") = {}
      /\ finished = FALSE
    BY DEF CorrInit, Counters, Population, Rejected, Pushed
<1>3. Cardinality({}) = 0
    BY FS_EmptySet
<1>4. ReportsCounted /\ SamplesCounted /\ MismatchesCounted
    BY <1>2, <1>3 DEF ReportsCounted, SamplesCounted, MismatchesCounted
<1> QED
    BY <1>1, <1>4 DEF QualityInv

LEMMA QualityStep == QualityInv /\ [ConsistentNext]_corrVars => QualityInv'
<1> SUFFICES ASSUME QualityInv, [ConsistentNext]_corrVars PROVE QualityInv'
    OBVIOUS
<1>1. CorrTypeOK /\ CorrFinite /\ WellTagged(log)
    BY DEF QualityInv, CorrInv
<1>2. ASSUME NEW e \in CollectorEvent, Consistent(e), Push(e) PROVE QualityInv'
    BY <1>1, <1>2, PushKeepsInv, LocalPushFits, PushCountsReports, PushCountsSamples,
       PushCountsMismatches DEF QualityInv
<1>3. ASSUME NEW now \in Time, Finish(now) PROVE QualityInv'
    BY <1>1, <1>3, FinishKeepsInv, LocalFinishFits, FinishCountsReports, FinishCountsSamples,
       FinishCountsMismatches DEF QualityInv
<1>4. CASE UNCHANGED corrVars
    <2>1. CorrInv'
        BY <1>4, StutterKeepsInv DEF QualityInv
    <2>2. UNCHANGED <<source, sourceMode, violations, local, nextLocalId, invocations, samples,
                      quality, finished, log>>
        BY <1>4 DEF corrVars, tables, profileVars
    <2>3. LocalInv'
        BY <2>2 DEF QualityInv, LocalInv, LocalIdsFit, LocalSamplesFit, OwnedBy, OwnedByOpen
    <2>4. ReportsCounted' /\ SamplesCounted' /\ MismatchesCounted'
        BY <2>2 DEF QualityInv, ReportsCounted, SamplesCounted, MismatchesCounted, Population,
                    Rejected, Pushed, OnlyIds
    <2> QED
        BY <2>1, <2>3, <2>4 DEF QualityInv
<1> QED
    BY <1>2, <1>3, <1>4 DEF ConsistentNext

\* The quality record accounts for the profile: finish counts every invocation
\* once as complete or incomplete, every pushed sample is counted as generated,
\* and in source mode a mismatch is counted for every violation pushed, every
\* sample of a valid invocation left out of it, and every invocation with both
\* boundaries that is not valid.
THEOREM QualityIsAccurate == ConsistentSpec => []QualityAccounts
<1>1. QualityInv => QualityAccounts
    BY DEF QualityInv, QualityAccounts, ReportsCounted, SamplesCounted, MismatchesCounted, Rejected
<1> QED
    BY <1>1, QualityInit, QualityStep, PTL DEF ConsistentSpec

=============================================================================
