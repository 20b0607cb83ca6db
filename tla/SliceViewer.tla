----------------------------- MODULE SliceViewer -----------------------------
(***************************************************************************)
(* The report a view leaves behind: the page's script, opened on the       *)
(* profile and the query that were written into it.  Every handler of the  *)
(* page is one action.  Places in the charts are fractions k of Places;    *)
(* latencies are hundredths of a nanosecond, percentiles Grain-ths of a    *)
(* percent, so that what the script computes in doubles is exact here.     *)
(***************************************************************************)
EXTENDS SliceCommand

CONSTANTS
    Grain,           \* parts of a percent
    Places,          \* fractions of a chart's width
    TimeEntries,     \* what may be typed into the time fields
    PercentEntries,  \* what may be typed into the percentile fields
    Buckets,         \* sizes of a histogram bucket, in nanoseconds; 0 for auto
    MaxEvents        \* bound on the events of a page

\* A unit of percentiles tells apart what a hundredth of a nanosecond does among
\* the invocations of a file, as a double would.
ASSUME ViewerAssumption ==
    /\ Grain \in Nat \ {0}
    /\ \A f \in Files : \A i \in f.profile.invocations :
          Duration(i) * (Cardinality(f.profile.invocations) - 1) <= Grain
    /\ Places \subseteq Nat
    /\ \E most \in Places \ {0} : \A place \in Places : place <= most
    /\ TimeEntries \subseteq Int /\ PercentEntries \subseteq Int
    /\ Buckets \subseteq Nat
    /\ MaxEvents \in Nat

VARIABLES
    state,           \* the script's `state`
    drag,            \* the drag in progress, or none
    histogram,       \* what the handlers of the last histogram drawn remember
    shown,           \* the population and the selection last rendered
    typed,           \* the percentile range asked for, until something moves it
    events           \* events so far

Exited == [kind |-> "exited"]

pageVars == <<state, drag, histogram, shown, typed, events>>
viewerVars == <<commandVars, pageVars>>

P == report[1].profile
Query == report[1].query

Open == state # <<>>

Clamp(low, high, x) == Max({low, Min({high, x})})

Bounds ==
    LET b == CaptureBounds(P)
    IN IF b = <<>> THEN [from |-> 0, to |-> 1]
       ELSE [from |-> b[1].from, to |-> Max({b[1].from + 1, b[1].to})]

ClampTime(t) == Clamp(Bounds.from, Bounds.to, t)

-----------------------------------------------------------------------------
(* The population *)

EligibleInvalid(s) ==
    {i \in P.invocations :
        /\ i.fn = Query.fn
        /\ i.tid \in s.threads
        /\ s.time.from <= i.start /\ i.start < s.time.to}

Eligible(s) ==
    {i \in P.invocations :
        /\ i.fn = Query.fn
        /\ i.complete /\ i.valid
        /\ i.tid \in s.threads
        /\ s.time.from <= i.start /\ i.start < s.time.to}

\* percentileAtDuration: the place of v among the durations; on the high side
\* a duration equal to v counts as passed.
PercentileAtDuration(durations, v, side) ==
    LET n == Len(durations)
        index == Cardinality({k \in 1..n : 100 * durations[k] < v
                                            \/ (side = "high" /\ 100 * durations[k] = v)})
        gap == Max({1, durations[index + 1] - durations[index]})
    IN IF n < 2 \/ v <= 100 * durations[1] THEN 0
       ELSE IF v >= 100 * durations[n] THEN 100 * Grain
       ELSE IF v \in {100 * durations[k] : k \in 1..n} THEN (100 * Grain * index) \div (n - 1)
       ELSE ((100 * (index - 1) * gap + (v - 100 * durations[index])) * Grain) \div (gap * (n - 1))

SyncedWindowOnly(s, durations) ==
    LET first == 100 * durations[1]
        last == 100 * durations[Len(durations)]
        window == IF s.latency # <<>> THEN s.latency[1] ELSE [low |-> first, high |-> last]
        low == Clamp(first, last, window.low)
    IN IF durations = <<>> THEN [s EXCEPT !.latency = <<[low |-> 0, high |-> 0]>>]
       ELSE [s EXCEPT !.latency = <<[low |-> low, high |-> Max({low, Min({last, window.high})})]>>]

\* The latency window set, and the percentiles to those of its two ends.
WithWindow(s, window, durations) ==
    [s EXCEPT !.latency = <<window>>,
              !.percentile = IF window.low < window.high
                             THEN [low |-> PercentileAtDuration(durations, window.low, "low"),
                                   high |-> PercentileAtDuration(durations, window.high, "high")]
                             ELSE @]

\* syncLatencyWindow: the latency window is kept, the percentiles follow it.
Synced(s, durations) ==
    LET n == Len(durations)
        at(percentile) == PercentileR7(durations, percentile \div Grain)[1]
        window == IF s.latency # <<>> THEN s.latency[1]
                  ELSE [low |-> at(s.percentile.low), high |-> at(s.percentile.high)]
        low == Clamp(100 * durations[1], 100 * durations[n], window.low)
        high == Max({low, Min({100 * durations[n], window.high})})
    IN IF durations = <<>> THEN [s EXCEPT !.latency = <<[low |-> 0, high |-> 0]>>]
       ELSE WithWindow(s, [low |-> low, high |-> high], durations)

Chosen(s) ==
    LET all == Eligible(s)
        at(percentile) == RankAt(Cardinality(all), percentile, 100 * Grain)
    IN InRanks(all, at(s.percentile.low), at(s.percentile.high))

Calculated(s) == Synced(s, Durations(Eligible(s)))

\* paintHistogram: the bounds of the chart, rounded out to whole buckets.
Painted(s) ==
    LET durations == Durations(Eligible(s))
        rawMin == durations[1]
        rawMax == durations[Len(durations)]
        low == IF s.bucket = 0 THEN rawMin ELSE s.bucket * (rawMin \div s.bucket)
        bins == Max({1, (rawMax - low + s.bucket - 1) \div s.bucket})
    IN <<[durations |-> durations,
          min |-> 100 * low,
          max |-> IF s.bucket = 0 THEN 100 * rawMax ELSE 100 * (low + bins * s.bucket)]>>

\* render, on the script's state s.  With nobody to draw the histogram is left
\* blank and the handlers of the last one stay on it.
Render(s) ==
    /\ state' = Calculated(s)
    /\ shown' = [all |-> Eligible(s), chosen |-> Chosen(Calculated(s))]
    /\ histogram' = IF Eligible(s) = {} THEN histogram ELSE Painted(s)

-----------------------------------------------------------------------------
(* Opening the page *)

PageInit ==
    /\ state = <<>>
    /\ drag = <<>>
    /\ histogram = <<>>
    /\ shown = [all |-> {}, chosen |-> {}]
    /\ typed = <<>>
    /\ events = 0

TimeAsAsked(q) == IF q.time # <<>> THEN q.time[1] ELSE Bounds

\* The time of the query, within the bounds of the capture; all of it if
\* nothing is left.
InitialTime(q) ==
    LET from == ClampTime(q.time[1].from)
        to == ClampTime(q.time[1].to)
    IN IF q.time # <<>> /\ from < to THEN [from |-> from, to |-> to] ELSE Bounds

Scaled(range) == [low |-> Grain * range.low, high |-> Grain * range.high]

\* The process of the view has exited.
OpenPage ==
    /\ report # <<>>
    /\ ~Open
    /\ Render([threads |-> IF Query.threads = <<>> THEN P.threads ELSE Query.threads[1],
               time |-> InitialTime(Query), percentile |-> Scaled(Query.percentile),
               latency |-> <<>>, bucket |-> 0, metric |-> Query.metric])
    /\ typed' = <<Scaled(Query.percentile)>>
    /\ command' = Exited
    /\ outcome' = Ok("nothing")
    /\ UNCHANGED <<report, drag, events>>

Event ==
    /\ Open
    /\ events < MaxEvents
    /\ events' = events + 1
    /\ UNCHANGED commandVars

-----------------------------------------------------------------------------
(* Fields *)

\* A checkbox of the picker, or the label of a lane.
ToggleThread ==
    /\ Event
    /\ \E t \in P.threads :
          Render([state EXCEPT !.threads = IF t \in @ THEN @ \ {t} ELSE @ \cup {t}])
    /\ typed' = <<>>
    /\ UNCHANGED drag

CommitTime ==
    /\ Event
    /\ \E entered \in TimeEntries :
          LET value == ClampTime(Bounds.from + entered)
          IN \/ Render([state EXCEPT !.time.from = Min({value, state.time.to - 1})])
             \/ Render([state EXCEPT !.time.to = Max({value, state.time.from + 1})])
    /\ typed' = <<>>
    /\ UNCHANGED drag

\* Math.round of a percentile.
Rounded(percentile) == (2 * percentile + Grain) \div (2 * Grain)

DraggingLow == drag # <<>> /\ drag[1].kind = "latency-low"

CrossedPercentileWindow(range) ==
    [low |-> Clamp(0, 99, Rounded(range.low)), high |-> Clamp(1, 100, Rounded(range.high))]

ClampPercentileWindow(range) ==
    LET low == Clamp(0, 99, Rounded(range.low))
        high == Clamp(1, 100, Rounded(range.high))
    IN IF low < high THEN [low |-> low, high |-> high]
       ELSE IF DraggingLow THEN [low |-> high - 1, high |-> high]
       ELSE [low |-> low, high |-> low + 1]

\* commitPercentile: with somebody to select from, the latency window is set
\* from the percentiles.
CommitPercentile ==
    /\ Event
    /\ \E entered \in PercentEntries, edge \in {"low", "high"} :
          LET durations == Durations(Eligible(state))
              next == ClampPercentileWindow([state.percentile EXCEPT ![edge] = Grain * entered])
              at(percentile) == PercentileR7(durations, percentile)[1]
          IN IF durations = <<>> THEN Render(state) /\ UNCHANGED typed
             ELSE /\ Render([state EXCEPT !.percentile = Scaled(next),
                                          !.latency = <<[low |-> at(next.low), high |-> at(next.high)]>>])
                  /\ typed' = <<Scaled(next)>>
    /\ UNCHANGED drag

SetBucketAndReset ==
    /\ Event
    /\ \E size \in Buckets : Render([state EXCEPT !.bucket = size, !.latency = <<>>,
                                                  !.percentile = Scaled([low |-> 0, high |-> 100])])
    /\ UNCHANGED <<drag, typed>>

SetBucket ==
    /\ Event
    /\ \E size \in Buckets : Render([state EXCEPT !.bucket = size])
    /\ UNCHANGED <<drag, typed>>

SetMetric ==
    /\ Event
    /\ \E metric \in Metrics : Render([state EXCEPT !.metric = metric])
    /\ UNCHANGED <<drag, typed>>

\* frame-search draws the flame graph alone, from a calculation of its own;
\* resizing, zooming and the wheel render as it is.
SearchFrames ==
    /\ Event
    /\ state' = Calculated(state)
    /\ UNCHANGED <<drag, typed, histogram, shown>>

-----------------------------------------------------------------------------
(* Drags *)

TimeAt(place) == Bounds.from + ((Bounds.to - Bounds.from) * place) \div Max(Places)

\* valueAt of the histogram last drawn.
LatencyAt(place) ==
    LET h == histogram[1]
    IN h.min + (Max({100, h.max - h.min}) * place) \div Max(Places)

Press(kind, start, low, high) ==
    drag' = <<[kind |-> kind, start |-> start, low |-> low, high |-> high]>>

\* A handle, the strip above the lanes, or the lanes.
PressTimeline ==
    /\ Event
    /\ drag = <<>>
    /\ \E kind \in {"time-from", "time-to", "time-move", "time-select"}, place \in Places :
          Press(kind, TimeAt(place), state.time.from, state.time.to)
    /\ UNCHANGED <<state, histogram, shown, typed>>

\* A handle, which is where its edge is, the rail above the bars, or the bars.
PressHistogram ==
    /\ Event
    /\ drag = <<>>
    /\ histogram # <<>>
    /\ LET window == state.latency[1]
       IN \/ /\ shown.all # {}
             /\ \/ Press("latency-low", window.low, window.low, window.high)
                \/ Press("latency-high", window.high, window.low, window.high)
          \/ \E kind \in {"latency-move", "latency-select"}, place \in Places :
                Press(kind, LatencyAt(place), window.low, window.high)
    /\ UNCHANGED <<state, histogram, shown, typed>>

MovedTime(value) ==
    LET d == drag[1]
        shift == Max({Bounds.from - d.low, Min({Bounds.to - d.high, value - d.start})})
        low == Min({d.start, value})
        high == Max({d.start, value})
    IN CASE d.kind = "time-from" -> [state.time EXCEPT !.from = Min({value, state.time.to - 1})]
         [] d.kind = "time-to" -> [state.time EXCEPT !.to = Max({value, state.time.from + 1})]
         [] d.kind = "time-move" -> [from |-> d.low + shift, to |-> d.high + shift]
         [] d.kind = "time-select" ->
               [from |-> low, to |-> IF low = high THEN Min({Bounds.to, low + 1}) ELSE high]

\* Only the window is redrawn until the button is up.
MoveTime ==
    /\ Event
    /\ drag # <<>>
    /\ drag[1].kind \in {"time-from", "time-to", "time-move", "time-select"}
    /\ \E place \in Places : state' = [state EXCEPT !.time = MovedTime(TimeAt(place))]
    /\ UNCHANGED <<drag, histogram, shown, typed>>

MovedLatency(next) ==
    LET d == drag[1]
        h == histogram[1]
        window == state.latency[1]
        size == d.high - d.low
        moved == Max({h.min, Min({h.max - size, next - (d.start - d.low)})})
        low == Min({d.start, next})
        high == Max({d.start, next})
    IN CASE d.kind = "latency-low" ->
               [window EXCEPT !.low = Min({next - (d.start - d.low), window.high})]
         [] d.kind = "latency-high" ->
               [window EXCEPT !.high = Max({next - (d.start - d.high), window.low})]
         [] d.kind = "latency-move" -> [low |-> moved, high |-> moved + size]
         [] d.kind = "latency-select" ->
               [low |-> low, high |-> IF high > low THEN high ELSE Min({h.max, low + 100})]

\* The percentiles follow at once, by the durations of the histogram last drawn,
\* whoever is eligible now; without a histogram to update the handler throws.
MoveLatency ==
    /\ Event
    /\ drag # <<>>
    /\ drag[1].kind \in {"latency-low", "latency-high", "latency-move", "latency-select"}
    /\ \E place \in Places :
          state' = Synced([state EXCEPT !.latency = <<MovedLatency(LatencyAt(place))>>],
                          histogram[1].durations)
    /\ typed' = <<>>
    /\ UNCHANGED <<drag, histogram, shown>>

ReleaseWithoutRender ==
    /\ Event
    /\ drag # <<>>
    /\ drag' = <<>>
    /\ typed' = <<>>
    /\ UNCHANGED <<state, histogram, shown>>

Release ==
    /\ Event
    /\ drag # <<>>
    /\ drag' = <<>>
    /\ Render(state)
    /\ typed' = <<>>

-----------------------------------------------------------------------------
Fields == ToggleThread \/ CommitTime \/ CommitPercentile \/ SetBucket \/ SetMetric \/ SearchFrames

Drags == PressTimeline \/ PressHistogram \/ MoveTime \/ MoveLatency \/ Release

ViewerNext == (CommandNext /\ UNCHANGED pageVars) \/ OpenPage \/ Fields \/ Drags

ViewerInit == CommandInit /\ PageInit

ViewerSpec == ViewerInit /\ [][ViewerNext]_viewerVars

-----------------------------------------------------------------------------
(* Properties *)

\* The script's state is typed, its windows are windows: percentiles in order,
\* a latency window of none or of two ends in order.
ViewerTypeOK ==
    /\ events \in 0..MaxEvents
    /\ Open =>
          /\ 0 <= state.percentile.low
          /\ state.percentile.low <= state.percentile.high
          /\ state.percentile.high <= 100 * Grain
          /\ state.latency[1].low <= state.latency[1].high
          /\ shown.chosen \subseteq shown.all

\* With no drag in progress the page shows what its state says: rendering it
\* again, or searching, changes nothing.
ShownIsCurrent ==
    (Open /\ drag = <<>>) =>
        /\ Calculated(state) = state
        /\ shown = [all |-> Eligible(state), chosen |-> Chosen(state)]

\* docs/viewer.md: the bucket control and the metric do not change the selected
\* population.
ViewControlsKeepPopulation ==
    [][(Open /\ drag = <<>> /\ (state.bucket # state'.bucket \/ state.metric # state'.metric))
          => shown' = shown]_viewerVars

\* The time window stays in the capture, whatever the command line asked for,
\* but for a nanosecond at either end: its open end may lie past the last one,
\* and an empty window that was moved to the first one is opened before it by
\* the field of its start.
WindowInBounds ==
    Open =>
       /\ Bounds.from - 1 <= state.time.from /\ state.time.from <= Bounds.to
       /\ Bounds.from <= state.time.to /\ state.time.to <= Bounds.to + 1
       /\ state.time.from <= state.time.to

\* Who is shown as selected is in the latency window, but for one invocation
\* that the rounding of the upper rank may let in.
WindowBoundsSelection ==
    (Open /\ drag = <<>> /\ state.latency[1].low < state.latency[1].high) =>
       /\ \A i \in shown.chosen : 100 * Duration(i) >= state.latency[1].low
       /\ Cardinality({i \in shown.chosen : 100 * Duration(i) > state.latency[1].high}) <= 1

\* The full range, with no time asked for, opens on the population the query
\* engine selects.
FullRangeAgrees ==
    (Open /\ events = 0 /\ Query.time = <<>> /\ typed = <<Scaled([low |-> 0, high |-> 100])>>) =>
       shown.chosen = {i \in Selected(P, Query) : i.start < Bounds.to}

\* docs/viewer.md: "the percentile fields provide exact percentile controls".
ExactPercentiles == (Open /\ typed # <<>>) => <<state.percentile>> = typed
=============================================================================
