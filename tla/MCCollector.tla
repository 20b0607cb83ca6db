---------------------------- MODULE MCCollector ----------------------------
(***************************************************************************)
(* SliceCollector driven by a source that pushes up to MaxPushes events in *)
(* any order, as ConsistentSpec does.                                      *)
(***************************************************************************)
EXTENDS SliceCollector, TLC

CONSTANTS
    MaxTime,         \* bound on timestamps
    MaxPushes        \* bound on the events pushed

ASSUME DriverAssumption == {MaxTime, MaxPushes} \subseteq Nat

\* All invocations with an id ran on thread 1; thread 2 only suffers violations.
Owner == 1

DriverIds == Ids \cup {NoId}

DriverTids(id) == IF id = NoId THEN Tids ELSE {Owner}

DriverBoundaries ==
    UNION {[kind : {"Entry", "Return"}, n : {0}, id : {i}, fn : Functions,
            tid : DriverTids(i), ts : 0..MaxTime] : i \in DriverIds}

DriverViolations == [kind : {"Violation"}, n : {0}, tid : Tids, ts : 0..MaxTime]

DriverSamples ==
    UNION {[kind : {"Sample"}, n : {0}, id : {i}, tid : DriverTids(i), ts : 0..MaxTime,
            state : States, weight : {0}, frames : StackFrames] : i \in DriverIds}

DriverDrops == [kind : {"DroppedEvents", "DroppedSamples"}, n : {0}, count : {1}]

MCNext ==
    \/ /\ Cardinality(log) < MaxPushes
       /\ \E e \in DriverBoundaries \cup DriverViolations \cup DriverSamples \cup DriverDrops :
             Consistent(e) /\ Push(e)
    \/ \E now \in 0..MaxTime : Finish(now)

MCSpec == CorrInit /\ [][MCNext]_corrVars
=============================================================================
