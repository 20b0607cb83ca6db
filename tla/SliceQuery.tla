----------------------------- MODULE SliceQuery -----------------------------
(***************************************************************************)
(* The query engine of slice-core: which invocations a query selects, and  *)
(* what the flame tree of their samples counts.  Nothing is sorted here:   *)
(* the place of an invocation in the sorted population is the number of    *)
(* invocations before it.  An absent filter is the empty sequence.         *)
(***************************************************************************)
EXTENDS SliceProfile, Sequences, FiniteSetsExt

Duration(i) == IF i.start <= i.end THEN i.end - i.start ELSE 0

WallIsCpu(metric, state) ==
    \/ metric \in {"Wall", "Cpu"} /\ state = "OnCpu"
    \/ metric = "OffCpu" /\ state = "OffCpu"

Includes(metric, state) ==
    \/ metric = "Wall"
    \/ metric = "Cpu" /\ state = "OnCpu"
    \/ metric = "OffCpu" /\ state = "OffCpu"

ContainsStart(time, t) == time.from <= t /\ t < time.to

ValidPercentiles(range) == range.low < range.high /\ range.high <= 100

ValidQuery(q) ==
    /\ ValidPercentiles(q.percentile)
    /\ q.time # <<>> => q.time[1].from < q.time[1].to

Candidates(p, q) ==
    {i \in p.invocations :
        /\ i.fn = q.fn
        /\ i.complete /\ i.valid
        /\ q.threads # <<>> => i.tid \in q.threads[1]
        /\ q.time # <<>> => ContainsStart(q.time[1], i.start)}

BeforeById(i, j) == i.id < j.id

\* The order of the population: by duration, then by id.
Before(i, j) ==
    \/ Duration(i) < Duration(j)
    \/ Duration(i) = Duration(j) /\ i.id < j.id

Rank(i, S) == Cardinality({j \in S : Before(j, i)})

\* The durations of S, shortest first.
Durations(S) ==
    [k \in 1..Cardinality(S) |-> Duration(CHOOSE i \in S : Rank(i, S) = k - 1)]

\* The first rank at or after the fraction part/whole of n invocations.
RankAt(n, part, whole) ==
    LET rounded == (n * part + (whole - 1)) \div whole
    IN IF rounded < n THEN rounded ELSE n

InRanks(S, from, to) == {i \in S : from <= Rank(i, S) /\ Rank(i, S) < to}

RoundedOutwards(S, low, high) ==
    InRanks(S, (Cardinality(S) * low) \div 100, RankAt(Cardinality(S), high, 100))

\* rank_bounds, and the slice of the sorted population between the two.
InPercentiles(S, low, high) ==
    InRanks(S, RankAt(Cardinality(S), low, 100), RankAt(Cardinality(S), high, 100))

\* The R-7 percentile of sorted durations, in hundredths; none of none.
PercentileR7(durations, percent) ==
    LET position == percent * (Len(durations) - 1)
        lower == durations[position \div 100 + 1]
        upper == durations[(position + 99) \div 100 + 1]
    IN IF durations = <<>> THEN <<>>
       ELSE <<100 * lower + (upper - lower) * (position % 100)>>

Selected(p, q) == InPercentiles(Candidates(p, q), q.percentile.low, q.percentile.high)

-----------------------------------------------------------------------------
(* The flame tree *)

\* The frames at which the selected function is found, by id or by name.
Starts(q, name, frames) ==
    {k \in DOMAIN frames : frames[k].fn = q.fn \/ frames[k].label = name}

\* What the tree shows of a stack: it begins at the outermost such frame.
Path(q, name, frames) ==
    LET from == Min(Starts(q, name, frames))
    IN [k \in 1..(Len(frames) - from + 1) |-> frames[from + k - 1].label]

SamplesOf(p, invs) == {s \in p.samples : \E i \in invs : i.id = s.id}

Counted(p, q, name, invs) ==
    {s \in SamplesOf(p, invs) :
        Includes(q.metric, s.state) /\ Starts(q, name, s.stack) # {}}

TotalWeight(S) == MapThenSumSet(LAMBDA s : s.weight, S)

InState(S, state) == {s \in S : s.state = state}

\* A node is named by the path to it; the root is the empty path.
Nodes(p, q, name, invs) ==
    {<<>>} \cup UNION {{SubSeq(Path(q, name, s.stack), 1, k) :
                          k \in 1..Len(Path(q, name, s.stack))} :
                             s \in Counted(p, q, name, invs)}

NodeValue(p, q, name, invs, node) ==
    LET through(path) == Len(node) <= Len(path) /\ node = SubSeq(path, 1, Len(node))
    IN TotalWeight({s \in Counted(p, q, name, invs) : through(Path(q, name, s.stack))})

\* execute_query, for a query that is valid.
QueryResult(p, q, name) ==
    LET all == Candidates(p, q)
        chosen == Selected(p, q)
        counted == Counted(p, q, name, chosen)
    IN [selected |-> IdsOf(chosen),
        available |-> Cardinality(all),
        latency |-> {Duration(i) : i \in chosen},
        low |-> PercentileR7(Durations(all), q.percentile.low),
        high |-> PercentileR7(Durations(all), q.percentile.high),
        cpu |-> TotalWeight(InState(counted, "OnCpu")),
        offcpu |-> TotalWeight(InState(counted, "OffCpu")),
        tree |-> [node \in Nodes(p, q, name, chosen) |-> NodeValue(p, q, name, chosen, node)]]

-----------------------------------------------------------------------------
(* The whole capture *)

\* capture_bounds: of all invocations, the incomplete ones too; none of none.
CaptureBounds(p) ==
    IF p.invocations = {} THEN <<>>
    ELSE <<[from |-> Min({i.start : i \in p.invocations}),
            to |-> Max({i.end : i \in p.invocations})]>>
=============================================================================
