--------------------------- MODULE SliceCollector ---------------------------
(***************************************************************************)
(* The Correlator of slice-collector: it is pushed boundary, violation and *)
(* stack events in some order, and finish() turns what it holds into the   *)
(* invocations, samples and quality counters of a profile.                 *)
(*                                                                         *)
(* An event with an invocation id comes from a capture source (source      *)
(* mode); one without is associated by thread (local mode).  A Vec the     *)
(* code only appends to and filters is a set here, its equal elements told *)
(* apart by the field n.  A stack is its frames: interning them gives ids  *)
(* one to one.  Saturating counters are natural numbers.                   *)
(***************************************************************************)
EXTENDS Integers, FiniteSets

CONSTANTS
    Ids,             \* invocation ids a source may allocate
    Tids,            \* thread ids
    Functions,       \* function ids
    StackFrames,     \* what the frames of a sample may be
    States,          \* execution states of a sample
    NoRecord         \* a key the tables do not hold

NoId == 0
NoTime == -1
NoFunction == 0

ASSUME CollectorAssumption ==
    /\ Ids \subseteq Nat \ {NoId} /\ IsFiniteSet(Ids)
    /\ Functions \subseteq Nat \ {NoFunction}

VARIABLES
    source,          \* source_invocations
    sourceMode,      \* source_mode
    violations,      \* source_violations
    local,           \* active: the open invocation of each thread
    nextLocalId,     \* next_invocation_id
    invocations,     \* profile.invocations
    samples,         \* profile.samples
    quality,         \* profile.quality
    finished,        \* finish() has consumed the correlator
    log              \* ghost: every event pushed

tables == <<source, sourceMode, violations, local, nextLocalId>>
profileVars == <<invocations, samples, quality>>
corrVars == <<tables, profileVars, finished, log>>

-----------------------------------------------------------------------------
(* Types *)

Time == Nat
OptTime == Time \cup {NoTime}
OptFunction == Functions \cup {NoFunction}

PendingSample == [n : Nat, tid : Tids, ts : Time, state : States, weight : Nat,
                  frames : StackFrames]

SourceInvocation ==
    [fn : OptFunction, tid : Tids, start : OptTime, end : OptTime,
     sawEntry : BOOLEAN, sawReturn : BOOLEAN, valid : BOOLEAN,
     samples : SUBSET PendingSample]

LocalInvocation == [id : Nat, fn : Functions, start : Time, valid : BOOLEAN]

Invocation == [id : Nat, fn : Functions, tid : Tids, start : Time, end : Time,
               complete : BOOLEAN, valid : BOOLEAN]

Sample == [n : Nat, id : Nat, tid : Tids, ts : Time, state : States, weight : Nat,
           frames : StackFrames]

Counters == {"eventsGenerated", "eventsDropped", "samplesGenerated", "samplesDropped",
             "complete", "incomplete", "mismatches", "suspected"}

BoundaryEvent == [kind : {"Entry", "Return"}, n : Nat, id : Ids \cup {NoId},
                  fn : Functions, tid : Tids, ts : Time]
ViolationEvent == [kind : {"Violation"}, n : Nat, tid : Tids, ts : Time]
SampleEvent == [kind : {"Sample"}, n : Nat, id : Ids \cup {NoId},
                tid : Tids, ts : Time, state : States, weight : Nat, frames : StackFrames]
DropEvent == [kind : {"DroppedEvents", "DroppedSamples"}, n : Nat, count : Nat]
CollectorEvent == BoundaryEvent \cup ViolationEvent \cup SampleEvent \cup DropEvent

\* A free key of a table is no record.
ASSUME NoRecordAssumption ==
    NoRecord \notin SourceInvocation /\ NoRecord \notin LocalInvocation

\* The tables of the correlator and the profile under construction are typed;
\* a reported invocation always has a start and an end.
CorrTypeOK ==
    /\ source \in [Ids -> SourceInvocation \cup {NoRecord}]
    /\ sourceMode \in BOOLEAN
    /\ violations \subseteq [n : Nat, tid : Tids, ts : Time]
    /\ local \in [Tids -> LocalInvocation \cup {NoRecord}]
    /\ nextLocalId \in Nat
    /\ invocations \subseteq Invocation
    /\ samples \subseteq Sample
    /\ quality \in [Counters -> Nat]
    /\ finished \in BOOLEAN
    /\ log \subseteq CollectorEvent

\* Correlator::default() and an empty profile.
CorrInit ==
    /\ source = [i \in Ids |-> NoRecord]
    /\ sourceMode = FALSE
    /\ violations = {}
    /\ local = [t \in Tids |-> NoRecord]
    /\ nextLocalId = 1
    /\ invocations = {}
    /\ samples = {}
    /\ quality = [c \in Counters |-> 0]
    /\ finished = FALSE
    /\ log = {}

-----------------------------------------------------------------------------
(* Helpers *)

\* The elements of S that differ from x in n at most.
Alike(x, S) == {y \in S : [y EXCEPT !.n = 0] = [x EXCEPT !.n = 0]}

\* x as one more element of S: n tells it from the equal ones already there.
Tagged(x, S) == [x EXCEPT !.n = Cardinality(Alike(x, S))]

\* Add the numbers of inc, a function on some of the counters.
Count(inc) ==
    quality' = [c \in Counters |-> IF c \in DOMAIN inc THEN quality[c] + inc[c] ELSE quality[c]]

Bit(b) == IF b THEN 1 ELSE 0
MaxOf(a, b) == IF a >= b THEN a ELSE b

Logged(e) == log' = log \cup {Tagged(e, log)}

-----------------------------------------------------------------------------
(* Source mode: SourceInvocation records *)

\* or_insert_with: the record e meets, or the one it creates.
Fresh(fn, tid, start, end) ==
    [fn |-> fn, tid |-> tid, start |-> start, end |-> end, sawEntry |-> FALSE,
     sawReturn |-> FALSE, valid |-> TRUE, samples |-> {}]

OrInsert(r, fresh) == IF r = NoRecord THEN fresh ELSE r

StrictlyOrdered(start, end) == (start # NoTime /\ end # NoTime) => end > start

\* Whichever boundary comes second compares the two.
Ordered(start, end) == (start # NoTime /\ end # NoTime) => end >= start

\* source_entry on the record r of its id.
EntryRecorded(r, e) ==
    LET s == OrInsert(r, Fresh(e.fn, e.tid, e.ts, NoTime))
    IN IF s.sawEntry
       THEN [s EXCEPT !.valid = FALSE]
       ELSE [s EXCEPT !.sawEntry = TRUE, !.fn = e.fn, !.tid = e.tid, !.start = e.ts,
                      !.valid = @ /\ Ordered(e.ts, s.end)]

\* source_return.
ReturnRecorded(r, e) ==
    LET s == OrInsert(r, Fresh(e.fn, e.tid, NoTime, e.ts))
        fn == IF s.fn = NoFunction THEN e.fn ELSE s.fn
    IN [s EXCEPT !.sawReturn = TRUE, !.fn = fn, !.end = e.ts,
                 !.valid = /\ @
                           /\ ~s.sawReturn
                           /\ fn = e.fn /\ s.tid = e.tid
                           /\ Ordered(s.start, e.ts)]

\* The Sample arm: samples wait in the record, known or not.
SampleRecorded(r, e) ==
    LET s == OrInsert(r, Fresh(NoFunction, e.tid, NoTime, NoTime))
        pending == [n |-> 0, tid |-> e.tid, ts |-> e.ts, state |-> e.state,
                    weight |-> e.weight, frames |-> e.frames]
    IN [s EXCEPT !.samples = @ \cup {Tagged(pending, @)}]

\* The half of push that follows from Some(invocation_id).
PushToSource(id, record) ==
    /\ sourceMode' = TRUE
    /\ source' = [source EXCEPT ![id] = record]
    /\ UNCHANGED <<violations, local, nextLocalId, invocations, samples>>

-----------------------------------------------------------------------------
(* Local mode: one open invocation per thread *)

Report(id, fn, tid, start, end, complete, valid) ==
    [id |-> id, fn |-> fn, tid |-> tid, start |-> start, end |-> end,
     complete |-> complete, valid |-> valid]

\* An invocation that is given up at time now without its return.
Abandoned(tid, now) ==
    Report(local[tid].id, local[tid].fn, tid, local[tid].start,
           MaxOf(now, local[tid].start), FALSE, FALSE)

KeepLocalId == UNCHANGED nextLocalId

TakeLocalId == nextLocalId' = nextLocalId + 1

UncountedNested == [eventsGenerated |-> 1, mismatches |-> 1, suspected |-> 1]

NestedCounts == [eventsGenerated |-> 1, incomplete |-> 1, mismatches |-> 1, suspected |-> 1]

\* A nested entry gives up the open invocation and replaces it.
LocalEntry(e) ==
    /\ local' = [local EXCEPT ![e.tid] =
                    [id |-> nextLocalId, fn |-> e.fn, start |-> e.ts, valid |-> TRUE]]
    /\ TakeLocalId
    /\ IF local[e.tid] = NoRecord
       THEN Count([eventsGenerated |-> 1]) /\ UNCHANGED invocations
       ELSE /\ invocations' = invocations \cup {Abandoned(e.tid, e.ts)}
            /\ Count(NestedCounts)
    /\ UNCHANGED <<source, sourceMode, violations, samples>>

ReturnMatches(open, e) == open.valid /\ open.fn = e.fn /\ e.ts >= open.start

LocalReturn(e) ==
    /\ IF local[e.tid] = NoRecord
       THEN /\ Count([eventsGenerated |-> 1, mismatches |-> 1])
            /\ UNCHANGED <<local, invocations>>
       ELSE LET open == local[e.tid]
                valid == ReturnMatches(open, e)
            IN /\ local' = [local EXCEPT ![e.tid] = NoRecord]
               /\ invocations' = invocations \cup
                     {Report(open.id, open.fn, e.tid, open.start, e.ts, TRUE, valid)}
               /\ Count([eventsGenerated |-> 1, mismatches |-> Bit(~valid),
                         complete |-> Bit(valid), incomplete |-> Bit(~valid)])
    /\ UNCHANGED <<source, sourceMode, violations, nextLocalId, samples>>

\* A sample counts for the valid invocation its thread is in, if any.
LocalSample(e) ==
    /\ Count([samplesGenerated |-> 1])
    /\ samples' = IF local[e.tid] # NoRecord /\ local[e.tid].valid
                  THEN samples \cup
                       {Tagged([n |-> 0, id |-> local[e.tid].id, tid |-> e.tid, ts |-> e.ts,
                                state |-> e.state, weight |-> e.weight, frames |-> e.frames],
                               samples)}
                  ELSE samples
    /\ UNCHANGED <<tables, invocations>>

-----------------------------------------------------------------------------
(* push *)

PushEntry(e) ==
    IF e.id = NoId
    THEN LocalEntry(e)
    ELSE PushToSource(e.id, EntryRecorded(source[e.id], e)) /\ Count([eventsGenerated |-> 1])

PushReturn(e) ==
    IF e.id = NoId
    THEN LocalReturn(e)
    ELSE PushToSource(e.id, ReturnRecorded(source[e.id], e)) /\ Count([eventsGenerated |-> 1])

PushSample(e) ==
    IF e.id = NoId
    THEN LocalSample(e)
    ELSE PushToSource(e.id, SampleRecorded(source[e.id], e)) /\ Count([samplesGenerated |-> 1])

\* Remembered for finish(), and applied at once to the open local invocation.
PushViolation(e) ==
    LET open == local[e.tid]
        early == open # NoRecord /\ e.ts < open.start
    IN /\ violations' = violations \cup
             {Tagged([n |-> 0, tid |-> e.tid, ts |-> e.ts], violations)}
       /\ local' = IF open = NoRecord THEN local ELSE [local EXCEPT ![e.tid].valid = FALSE]
       /\ Count([eventsGenerated |-> 1, mismatches |-> 1 + Bit(early),
                 suspected |-> Bit(open # NoRecord)])
       /\ UNCHANGED <<source, sourceMode, nextLocalId, invocations, samples>>

PushDropped(e) ==
    /\ Count(IF e.kind = "DroppedEvents" THEN [eventsDropped |-> e.count]
             ELSE [samplesDropped |-> e.count])
    /\ UNCHANGED <<tables, invocations, samples>>

Push(e) ==
    /\ ~finished
    /\ \/ e.kind = "Entry" /\ PushEntry(e)
       \/ e.kind = "Return" /\ PushReturn(e)
       \/ e.kind = "Sample" /\ PushSample(e)
       \/ e.kind = "Violation" /\ PushViolation(e)
       \/ e.kind \in {"DroppedEvents", "DroppedSamples"} /\ PushDropped(e)
    /\ Logged(e)
    /\ UNCHANGED finished

-----------------------------------------------------------------------------
(* finish *)

CaughtExclusive(v, r) ==
    r # NoRecord /\ r.tid = v.tid /\ r.start # NoTime /\ r.start <= v.ts
    /\ (r.end # NoTime => v.ts < r.end)

\* A violation of the record's thread, at a time the record covers.
Caught(v, r) ==
    /\ r # NoRecord
    /\ r.tid = v.tid
    /\ r.start # NoTime /\ r.start <= v.ts
    /\ r.end # NoTime => v.ts <= r.end

CaughtPairs == {p \in violations \X Ids : Caught(p[1], source[p[2]])}

\* A record needs a function and a start to be reported.
ReportedIds ==
    {i \in Ids : source[i] # NoRecord /\ source[i].fn # NoFunction /\ source[i].start # NoTime}

LeftOpen(r, now) == r.end

\* An invocation without a return is closed when the capture ends.
EndOf(r, now) == IF r.end # NoTime THEN r.end ELSE MaxOf(now, r.start)

HalfComplete(r) == r.sawEntry \/ r.sawReturn

Complete(r) == r.sawEntry /\ r.sawReturn

ReportedValid(i, now) ==
    /\ source[i].valid
    /\ ~\E v \in violations : Caught(v, source[i])
    /\ Complete(source[i])
    /\ EndOf(source[i], now) >= source[i].start

WithinStart(s, r, now) == r.start <= s.ts

Within(s, r, now) == r.start <= s.ts /\ s.ts <= EndOf(r, now)

SourceReport(i, now) ==
    Report(i, source[i].fn, source[i].tid, source[i].start, EndOf(source[i], now),
           Complete(source[i]), ReportedValid(i, now))

Attributed(i, s) ==
    [n |-> s.n, id |-> i, tid |-> s.tid, ts |-> s.ts, state |-> s.state,
     weight |-> s.weight, frames |-> s.frames]

\* The samples of valid invocations, those in bounds and those not.
PendingOfValid(valid) == UNION {{<<i, s>> : s \in source[i].samples} : i \in valid}

AcceptedSamples(valid, now) ==
    {p \in PendingOfValid(valid) : Within(p[2], source[p[1]], now)}

LocalLeftovers(now) ==
    {Abandoned(t, now) : t \in {u \in Tids : local[u] # NoRecord}}

\* Complete invocations that are not valid count as mismatches.
Broken(valid) == {i \in ReportedIds \ valid : Complete(source[i])}

FinishSource(now) ==
    LET valid == {i \in ReportedIds : ReportedValid(i, now)}
        accepted == AcceptedSamples(valid, now)
    IN /\ invocations' = invocations \cup {SourceReport(i, now) : i \in ReportedIds}
                                     \cup LocalLeftovers(now)
       /\ samples' = samples \cup {Attributed(p[1], p[2]) : p \in accepted}
       /\ Count([suspected |-> Cardinality(CaughtPairs),
                 complete |-> Cardinality(valid),
                 incomplete |-> Cardinality(ReportedIds \ valid) + Cardinality(LocalLeftovers(now)),
                 mismatches |-> Cardinality(PendingOfValid(valid) \ accepted) + Cardinality(Broken(valid))])

FinishLocal(now) ==
    /\ invocations' = invocations \cup LocalLeftovers(now)
    /\ Count([incomplete |-> Cardinality(LocalLeftovers(now))])
    /\ UNCHANGED samples

Finish(now) ==
    /\ ~finished
    /\ finished' = TRUE
    /\ IF sourceMode THEN FinishSource(now) ELSE FinishLocal(now)
    /\ UNCHANGED <<tables, log>>

-----------------------------------------------------------------------------
CorrNext ==
    \/ \E e \in CollectorEvent : Push(e)
    \/ \E now \in Time : Finish(now)

CorrSpec == CorrInit /\ [][CorrNext]_corrVars

\* What a source says of invocations hangs together: it gives ids always or
\* never, and to one id one thread and one function.
AboutInvocation == {"Entry", "Return", "Sample"}

Agree(d, e) ==
    /\ d.id = NoId <=> e.id = NoId
    /\ (d.id = e.id /\ e.id # NoId) =>
          /\ d.tid = e.tid
          /\ (d.kind # "Sample" /\ e.kind # "Sample") => d.fn = e.fn

Consistent(e) ==
    e.kind \in AboutInvocation =>
       \A d \in log : d.kind \in AboutInvocation => Agree(d, e)

ConsistentNext ==
    \/ \E e \in CollectorEvent : Consistent(e) /\ Push(e)
    \/ \E now \in Time : Finish(now)

ConsistentSpec == CorrInit /\ [][ConsistentNext]_corrVars

-----------------------------------------------------------------------------
(* Properties *)

Pushed(kind) == {e \in log : e.kind = kind}
EntriesOf(i) == {e \in Pushed("Entry") : e.id = i}
ReturnsOf(i) == {e \in Pushed("Return") : e.id = i}
SamplesOf(i) == {e \in Pushed("Sample") : e.id = i}

\* b and r are the one entry and the one return pushed for i, they agree, and
\* no violation of their thread lies between them.
Bracketed(i, b, r) ==
    /\ EntriesOf(i) = {b} /\ ReturnsOf(i) = {r}
    /\ b.fn = r.fn /\ b.tid = r.tid /\ b.ts <= r.ts
    /\ ~\E v \in Pushed("Violation") : v.tid = b.tid /\ v.ts \in b.ts..r.ts

Brackets ==
    {p \in Pushed("Entry") \X Pushed("Return") :
        p[1].id \in Ids /\ Bracketed(p[1].id, p[1], p[2])}

Population == {i \in invocations : i.valid}

\* The valid population of the profile is a function of which events were
\* pushed, not of their order: an invocation is valid exactly when one entry
\* and one return of its id agree and no violation lies between them.
PopulationIsWellBracketed ==
    (finished /\ sourceMode) =>
       Population = {Report(p[1].id, p[1].fn, p[1].tid, p[1].ts, p[2].ts, TRUE, TRUE) : p \in Brackets}

\* The profile's samples are those of valid invocations whose time lies inside
\* them, each once; all others are left out.
SamplesAreThoseInside ==
    (finished /\ sourceMode) =>
       samples = UNION {
          {Attributed(i.id, s) : s \in {e \in SamplesOf(i.id) : e.ts \in i.start..i.end}} :
             i \in Population}

\* The counters account for the profile: every invocation is counted once as
\* complete or incomplete, and in source mode a mismatch is recorded for every
\* violation, every out-of-bounds sample of a valid invocation and every
\* complete invocation that is not valid, whatever the order of the events.
QualityAccounts ==
    finished =>
       /\ quality["complete"] = Cardinality(Population)
       /\ quality["incomplete"] = Cardinality(invocations \ Population)
       /\ quality["samplesGenerated"] = Cardinality(Pushed("Sample"))
       /\ sourceMode =>
             quality["mismatches"] =
                  Cardinality(Pushed("Violation"))
                + Cardinality({e \in Pushed("Sample") : \E i \in Population : e.id = i.id})
                - Cardinality(samples)
                + Cardinality({i \in invocations \ Population : i.complete})

\* In local mode every sample belongs to exactly one reported invocation, of
\* the sample's thread: overlapping entries never share one.
LocalSamplesOwned ==
    (finished /\ ~sourceMode) =>
       \A s \in samples :
          Cardinality({i \in invocations : i.id = s.id /\ i.tid = s.tid}) = 1

=============================================================================
