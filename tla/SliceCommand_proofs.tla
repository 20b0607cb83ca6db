------------------------- MODULE SliceCommand_proofs -------------------------
(***************************************************************************)
(* What a command guarantees when it goes on with what it was given, for   *)
(* every file, argument, module and host.                                  *)
(***************************************************************************)
EXTENDS SliceCommand, FiniteSetTheorems, TLAPS

-----------------------------------------------------------------------------
(* Commands *)

\* Every step runs one command, and every property of SliceCommand is about the
\* command that ran.
LEMMA ViewStep ==
    ASSUME View, outcome'.status = "ok"
    PROVE  \E f \in Files, args \in ViewArgs, checked \in BOOLEAN :
              /\ command' = [kind |-> "view", file |-> f, args |-> args]
              /\ ViewOutcome(f, args, checked).status = "ok"
              /\ outcome' = ViewOutcome(f, args, checked)
<1>1. PICK f \in Files, args \in ViewArgs, checked \in BOOLEAN, written \in BOOLEAN :
            /\ command' = [kind |-> "view", file |-> f, args |-> args]
            /\ outcome' = IF ViewOutcome(f, args, checked).status = "ok" /\ ~written
                          THEN Refused("write") ELSE ViewOutcome(f, args, checked)
    BY DEF View
<1>2. Refused("write").status # "ok"
    BY DEF Refused
<1> QED
    BY <1>1, <1>2

\* A view goes on only when every part of its query was parsed.
LEMMA ViewIsOfQuery ==
    ASSUME NEW f, NEW args, NEW checked, ViewOutcome(f, args, checked).status = "ok"
    PROVE  LET time == ParseTime(args.time, CaptureBounds(f.profile), checked)
           IN /\ Loads(f)
              /\ time.status = "ok"
              /\ ViewOutcome(f, args, checked) =
                    Ok([fn |-> f.profile.order[1], threads |-> args.threads, time |-> time.value,
                        percentile |-> args.percentile, metric |-> args.metric])
              /\ args.percentile.low \in 0..255 /\ args.percentile.high \in 0..255
              /\ ValidPercentiles(args.percentile)
<1> DEFINE p == f.profile
           time == ParseTime(args.time, CaptureBounds(p), checked)
           parts == <<ParseThreads(args.threads), time, ParsePercentile(args.percentile)>>
           I == {k \in 1..Len(parts) : parts[k].status # "ok"}
           bad == SelectInSeq(parts, LAMBDA part : part.status # "ok")
           query == [fn |-> p.order[1], threads |-> args.threads, time |-> time.value,
                     percentile |-> args.percentile, metric |-> args.metric]
<1>1. ViewOutcome(f, args, checked) =
         IF ~Loads(f) THEN Refused("profile")
         ELSE IF p.order = <<>> THEN Refused("no functions")
         ELSE IF bad # 0 THEN parts[bad]
         ELSE IF ~ValidQuery(query) THEN Refused("query")
         ELSE Ok(query)
    BY DEF ViewOutcome
<1>2. \A reason : Refused(reason).status # "ok"
    BY DEF Refused
<1>3. bad = IF I # {} THEN Min(I) ELSE 0
    BY DEF SelectInSeq
<1>4. Len(parts) = 3
    OBVIOUS
<1>5. I # {} => /\ Min(I) \in I
                /\ Min(I) # 0
    <2>1. ASSUME I # {} PROVE \E x \in I : \A y \in I : x <= y
        <3>1. CASE 1 \in I BY <3>1, <1>4
        <3>2. CASE 1 \notin I /\ 2 \in I BY <3>2, <1>4
        <3>3. CASE 1 \notin I /\ 2 \notin I BY <3>3, <2>1, <1>4
        <3> QED BY <3>1, <3>2, <3>3
    <2> QED
        BY <2>1, <1>4 DEF Min
<1>6. I = {}
    <2> SUFFICES ASSUME I # {} PROVE FALSE
        OBVIOUS
    <2>1. bad \in I /\ bad # 0
        BY <1>3, <1>5
    <2>2. parts[bad].status # "ok"
        BY <2>1
    <2> QED
        BY <1>1, <1>2, <2>1, <2>2
<1>7. bad = 0
    BY <1>3, <1>6
<1> HIDE DEF bad
<1>8. Loads(f) /\ ViewOutcome(f, args, checked) = Ok(query)
    BY <1>1, <1>2, <1>7
<1>9. ParsePercentile(args.percentile).status = "ok"
    <2>1. 3 \notin I
        BY <1>6
    <2> QED
        BY <2>1, <1>4
<1>10. args.percentile.low \in 0..255 /\ args.percentile.high \in 0..255
            /\ ValidPercentiles(args.percentile)
    BY <1>9, <1>2 DEF ParsePercentile
<1>11. time.status = "ok"
    <2>1. 2 \notin I
        BY <1>6
    <2> QED
        BY <2>1, <1>4
<1> QED
    BY <1>8, <1>10, <1>11

-----------------------------------------------------------------------------
(* Doctor *)

\* Root is authorized, reads what a host refused to others, and changes no other
\* check.
LEMMA ElevatedReport ==
    ASSUME NEW host \in Hosts, ~Authorized(host)
    PROVE  /\ HasFailures(DoctorReport(host)) <=> HasFailures(DoctorReport(Elevated(host)))
           /\ Checks(DoctorReport(Elevated(host)), "Warning") = {}
<1> DEFINE elevated == Elevated(host)
           before == DoctorReport(host)
           after == DoctorReport(elevated)
           answers == {IF answer = "denied" THEN "read" ELSE answer : answer \in host.tracing}
<1>1. /\ elevated.arch = host.arch /\ elevated.release = host.release /\ elevated.btf = host.btf
      /\ elevated.uprobeMulti = host.uprobeMulti /\ elevated.root = TRUE
      /\ elevated.tracing = answers
    BY CommandAssumption DEF Elevated
<1>2. Authorized(elevated)
    BY <1>1 DEF Authorized
<1>3. /\ "read" \in answers <=> "read" \in host.tracing \/ "denied" \in host.tracing
      /\ "denied" \notin answers
    OBVIOUS
<1>4. /\ TracepointStatus(elevated) # "Warning"
      /\ TracepointStatus(elevated) = "Failure" <=> TracepointStatus(host) = "Failure"
    <2>1. TracepointStatus(elevated) =
             IF "read" \in host.tracing \/ "denied" \in host.tracing THEN "Pass" ELSE "Failure"
        BY <1>1, <1>2, <1>3 DEF TracepointStatus, TracepointAccess
    <2>2. TracepointStatus(host) =
             IF "read" \in host.tracing THEN "Pass"
             ELSE IF "denied" \in host.tracing THEN "Warning" ELSE "Failure"
        BY DEF TracepointStatus, TracepointAccess
    <2> QED
        BY <2>1, <2>2
<1>5. /\ before = [architecture |-> Required(host.arch = "x86_64"),
                   kernel |-> Required(KernelAtLeast(host.release, 6, 6)),
                   btf |-> Required(host.btf),
                   uprobe_multi |-> Required(host.btf /\ host.uprobeMulti),
                   sched_switch |-> TracepointStatus(host),
                   authority |-> "Warning"]
      /\ after = [architecture |-> Required(host.arch = "x86_64"),
                  kernel |-> Required(KernelAtLeast(host.release, 6, 6)),
                  btf |-> Required(host.btf),
                  uprobe_multi |-> Required(host.btf /\ host.uprobeMulti),
                  sched_switch |-> TracepointStatus(elevated),
                  authority |-> "Pass"]
    BY <1>1, <1>2 DEF DoctorReport
<1>6. \A key \in DOMAIN before : before[key] = "Failure" <=> after[key] = "Failure"
    BY <1>4, <1>5
<1>7. \A key \in DOMAIN after : after[key] # "Warning"
    BY <1>4, <1>5 DEF Required
<1>8. DOMAIN before = DOMAIN after
    BY <1>5
<1> QED
    BY <1>6, <1>7, <1>8 DEF HasFailures, Checks

LEMMA DoctorAfter ==
    ASSUME CommandNext
    PROVE  DoctorVerdictHolds'
<1> SUFFICES ASSUME command'.kind = "doctor"
             PROVE  ~Authorized(command'.host) =>
                       /\ outcome'.status = "ok" <=> ~HasFailures(DoctorReport(Elevated(command'.host)))
                       /\ Checks(DoctorReport(Elevated(command'.host)), "Warning") = {}
    BY DEF DoctorVerdictHolds
<1>1. Doctor
    BY DEF CommandNext, View, Discover, ValidateFile, Symbols, ProbeSymbol
<1>2. PICK host \in Hosts :
            /\ command'.host = host
            /\ outcome' = IF HasFailures(DoctorReport(host)) THEN Refused("prerequisites")
                          ELSE Ok(DoctorReport(host))
    BY <1>1 DEF Doctor
<1>3. outcome'.status = "ok" <=> ~HasFailures(DoctorReport(host))
    BY <1>2 DEF Refused, Ok
<1> QED
    BY <1>2, <1>3, ElevatedReport

\* What doctor says to a caller without privileges is what it says to root: it
\* fails for the same hosts, and every warning was about privileges.
THEOREM DoctorTellsRoot == CommandSpec => []DoctorVerdictHolds
<1>1. CommandInit => DoctorVerdictHolds
    BY DEF CommandInit, NotRun, DoctorVerdictHolds
<1>2. DoctorVerdictHolds /\ [CommandNext]_commandVars => DoctorVerdictHolds'
    <2>1. CASE UNCHANGED commandVars
        BY <2>1 DEF commandVars, DoctorVerdictHolds
    <2> QED
        BY <2>1, DoctorAfter
<1> QED
    BY <1>1, <1>2, PTL DEF CommandSpec

-----------------------------------------------------------------------------
(* Ranks *)

Measured(S) == \A i \in S : i.id \in Nat /\ i.start \in Nat /\ i.end \in Nat

LEMMA RankType ==
    ASSUME NEW S, IsFiniteSet(S), NEW i
    PROVE  Rank(i, S) \in Nat /\ Rank(i, S) <= Cardinality(S)
<1> DEFINE before == {j \in S : Before(j, i)}
<1>1. IsFiniteSet(before) /\ Cardinality(before) <= Cardinality(S)
    BY FS_Subset
<1> QED
    BY <1>1, FS_CardinalityType DEF Rank

\* Fewer invocations come before one of S than S has.
LEMMA RankBound ==
    ASSUME NEW S, IsFiniteSet(S), Measured(S), NEW i \in S
    PROVE  Rank(i, S) < Cardinality(S)
<1> DEFINE before == {j \in S : Before(j, i)}
<1>1. i \notin before
    BY DEF Before, Duration, Measured
<1>2. IsFiniteSet(before) /\ Cardinality(before) <= Cardinality(S)
            /\ (Cardinality(S) = Cardinality(before) => S = before)
    BY FS_Subset
<1> QED
    BY <1>1, <1>2, FS_CardinalityType DEF Rank

\* A faster invocation comes before a slower one.
LEMMA RankFollowsDuration ==
    ASSUME NEW S, IsFiniteSet(S), Measured(S), NEW i \in S, NEW j \in S,
           Duration(i) < Duration(j)
    PROVE  Rank(i, S) <= Rank(j, S)
<1> DEFINE before(k) == {l \in S : Before(l, k)}
<1>1. \A k \in S : Duration(k) \in Nat
    BY DEF Measured, Duration
<1>2. before(i) \subseteq before(j)
    BY <1>1 DEF Before
<1>3. IsFiniteSet(before(j))
    BY FS_Subset
<1> QED
    BY <1>2, <1>3, FS_Subset DEF Rank

LEMMA RankAtType ==
    ASSUME NEW n \in Nat, NEW part \in Nat
    PROVE  RankAt(n, part, 100) \in 0..n
<1>1. n * part \in Nat
    OBVIOUS
<1>2. (n * part + (100 - 1)) \div 100 \in Nat
    BY <1>1
<1> QED
    BY <1>2 DEF RankAt

\* Both ends of a range are rounded alike: a later fraction has no earlier rank.
LEMMA RankAtMonotone ==
    ASSUME NEW n \in Nat, NEW low \in Nat, NEW high \in Nat, low <= high
    PROVE  RankAt(n, low, 100) <= RankAt(n, high, 100)
<1>1. n * low \in Nat /\ n * high \in Nat /\ n * low <= n * high
    <2>1. PICK gap \in Nat : high = low + gap
        <3>1. high - low \in Nat
            OBVIOUS
        <3> QED
            BY <3>1
    <2>2. n * high = n * low + n * gap
        BY <2>1
    <2>3. n * gap \in Nat /\ n * low \in Nat
        BY <2>1
    <2> QED
        BY <2>2, <2>3
<1> DEFINE x == n * low
           y == n * high
<1> HIDE DEF x, y
<1>2. ASSUME x \in Nat, y \in Nat, x <= y
      PROVE  /\ (x + (100 - 1)) \div 100 \in Nat /\ (y + (100 - 1)) \div 100 \in Nat
             /\ (x + (100 - 1)) \div 100 <= (y + (100 - 1)) \div 100
    BY <1>2
<1>3. /\ (n * low + (100 - 1)) \div 100 \in Nat /\ (n * high + (100 - 1)) \div 100 \in Nat
      /\ (n * low + (100 - 1)) \div 100 <= (n * high + (100 - 1)) \div 100
    BY <1>1, <1>2 DEF x, y
<1> QED
    BY <1>3 DEF RankAt

LEMMA RankAtEnds ==
    ASSUME NEW n \in Nat
    PROVE  RankAt(n, 0, 100) = 0 /\ RankAt(n, 100, 100) = n
<1>1. n * 0 = 0 /\ (0 + (100 - 1)) \div 100 = 0
    OBVIOUS
<1>2. (n * 100 + (100 - 1)) \div 100 = n
    OBVIOUS
<1> QED
    BY <1>1, <1>2 DEF RankAt

-----------------------------------------------------------------------------
(* The selection of a view *)

\* The population and the percentiles of a query that a view goes on with.
ViewedPopulation(p, q) ==
    /\ IsFiniteSet(Candidates(p, q))
    /\ Measured(Candidates(p, q))
    /\ q.percentile.low \in Nat /\ q.percentile.high \in Nat
    /\ ValidPercentiles(q.percentile)

LEMMA ViewedAfter ==
    ASSUME CommandNext, Ran({"view"})'
    PROVE  /\ ViewedPopulation(command'.file.profile, outcome'.value)
           /\ Loads(command'.file)
           /\ command'.file \in Files
<1>1. View /\ outcome'.status = "ok"
    BY DEF Ran, CommandNext, Discover, ValidateFile, Doctor, Symbols, ProbeSymbol
<1>2. PICK f \in Files, args \in ViewArgs, checked \in BOOLEAN :
            /\ command' = [kind |-> "view", file |-> f, args |-> args]
            /\ ViewOutcome(f, args, checked).status = "ok"
            /\ outcome' = ViewOutcome(f, args, checked)
    BY <1>1, ViewStep
<1>3. /\ Loads(f)
      /\ outcome'.value.percentile = args.percentile
      /\ args.percentile.low \in 0..255 /\ args.percentile.high \in 0..255
      /\ ValidPercentiles(args.percentile)
    <2>1. PICK time :
             ViewOutcome(f, args, checked) =
                Ok([fn |-> f.profile.order[1], threads |-> args.threads, time |-> time,
                    percentile |-> args.percentile, metric |-> args.metric])
        BY <1>2, ViewIsOfQuery
    <2> QED
        BY <1>2, <2>1, ViewIsOfQuery DEF Ok
<1>4. /\ IsFiniteSet(f.profile.invocations)
      /\ Measured(f.profile.invocations)
    BY CommandAssumption DEF Measured
<1>5. \A q : /\ IsFiniteSet(Candidates(f.profile, q))
             /\ Measured(Candidates(f.profile, q))
    <2> TAKE q
    <2>1. Candidates(f.profile, q) \subseteq f.profile.invocations
        BY DEF Candidates
    <2> QED
        BY <1>4, <2>1, FS_Subset DEF Measured
<1> QED
    BY <1>2, <1>3, <1>5 DEF ViewedPopulation

\* Two neighbouring ranges of ranks make up the range of both.
LEMMA NeighbouringRanks ==
    ASSUME NEW S, IsFiniteSet(S), NEW low \in Nat, NEW middle \in Nat, NEW high \in Nat,
           low <= middle, middle <= high
    PROVE  /\ InPercentiles(S, low, middle) \cap InPercentiles(S, middle, high) = {}
           /\ InPercentiles(S, low, middle) \cup InPercentiles(S, middle, high) =
                 InPercentiles(S, low, high)
<1> DEFINE n == Cardinality(S)
           a == RankAt(n, low, 100)
           b == RankAt(n, middle, 100)
           c == RankAt(n, high, 100)
<1>1. n \in Nat
    BY FS_CardinalityType
<1> HIDE DEF n
<1>2. a \in Nat /\ b \in Nat /\ c \in Nat /\ a <= b /\ b <= c
    <2>1. a \in 0..n /\ b \in 0..n /\ c \in 0..n
        BY <1>1, RankAtType
    <2>2. a <= b
        BY <1>1, RankAtMonotone
    <2>3. b <= c
        BY <1>1, RankAtMonotone
    <2> HIDE DEF a, b, c
    <2> QED
        BY <1>1, <2>1, <2>2, <2>3
<1>3. \A i : Rank(i, S) \in Nat
    BY RankType
<1> HIDE DEF a, b, c
<1>4. /\ InRanks(S, a, b) \cap InRanks(S, b, c) = {}
      /\ InRanks(S, a, b) \cup InRanks(S, b, c) = InRanks(S, a, c)
    BY <1>2, <1>3 DEF InRanks
<1> QED
    BY <1>4 DEF a, b, c, n, InPercentiles

LEMMA RangesAfter ==
    ASSUME CommandNext
    PROVE  RangesPartition'
<1> DEFINE p == command.file.profile
           q == outcome.value
<1> SUFFICES ASSUME Ran({"view"})',
                    NEW middle \in (q'.percentile.low + 1)..(q'.percentile.high - 1)
             PROVE  LET all == Candidates(p', q')
                        below == InPercentiles(all, q'.percentile.low, middle)
                        above == InPercentiles(all, middle, q'.percentile.high)
                    IN below \cap above = {} /\ below \cup above = Selected(p', q')
    BY DEF RangesPartition
<1>1. /\ IsFiniteSet(Candidates(p', q'))
      /\ q'.percentile.low \in Nat /\ q'.percentile.high \in Nat
    BY ViewedAfter DEF ViewedPopulation
<1>2. middle \in Nat /\ q'.percentile.low <= middle /\ middle <= q'.percentile.high
    BY <1>1
<1> QED
    BY <1>1, <1>2, NeighbouringRanks DEF Selected

\* A percentile range split at any percentile is two ranges that share no
\* invocation and lose none, whatever the durations and however many of them
\* are equal: rank_bounds rounds the end of one as the beginning of the other.
THEOREM RangesSplit == CommandSpec => []RangesPartition
<1>1. CommandInit => RangesPartition
    BY DEF CommandInit, NotRun, RangesPartition, Ran
<1>2. RangesPartition /\ [CommandNext]_commandVars => RangesPartition'
    <2>1. CASE UNCHANGED commandVars
        BY <2>1 DEF commandVars, RangesPartition, Ran
    <2> QED
        BY <2>1, RangesAfter
<1> QED
    BY <1>1, <1>2, PTL DEF CommandSpec

\* A range that ends at 100 has the slowest, and from 0 it has everybody.
LEMMA SlowestInRange ==
    ASSUME NEW S, IsFiniteSet(S), Measured(S), NEW low \in Nat
    PROVE  /\ \A j \in InPercentiles(S, low, 100), i \in S \ InPercentiles(S, low, 100) :
                 Duration(i) <= Duration(j)
           /\ InPercentiles(S, 0, 100) = S
<1> DEFINE n == Cardinality(S)
           a == RankAt(n, low, 100)
<1>1. n \in Nat
    BY FS_CardinalityType
<1>2. \A i \in S : Rank(i, S) \in Nat /\ Rank(i, S) < n
    BY RankType, RankBound
<1> HIDE DEF n
<1>3. a \in Nat
    BY <1>1, RankAtType
<1>4. RankAt(n, 0, 100) = 0 /\ RankAt(n, 100, 100) = n
    BY <1>1, RankAtEnds
<1>5. \A from : InRanks(S, from, n) = {i \in S : from <= Rank(i, S)}
    BY <1>2 DEF InRanks
<1>6. \A i \in S : Duration(i) \in Nat
    BY DEF Measured, Duration
<1>7. ASSUME NEW j \in InPercentiles(S, low, 100), NEW i \in S \ InPercentiles(S, low, 100)
      PROVE  Duration(i) <= Duration(j)
    <2>1. j \in S /\ i \in S /\ a <= Rank(j, S) /\ ~(a <= Rank(i, S))
        BY <1>4, <1>5, <1>7 DEF InPercentiles, n
    <2>2. Rank(i, S) < Rank(j, S)
        BY <1>2, <1>3, <2>1
    <2>3. ~(Duration(j) < Duration(i))
        BY <1>2, <2>1, <2>2, RankFollowsDuration
    <2> QED
        BY <1>6, <2>1, <2>3
<1>8. InPercentiles(S, 0, 100) = S
    BY <1>2, <1>4, <1>5 DEF InPercentiles, n
<1> QED
    BY <1>7, <1>8

LEMMA SlowestAfter ==
    ASSUME CommandNext
    PROVE  SlowestAreSelected'
<1> DEFINE p == command.file.profile
           q == outcome.value
<1> SUFFICES ASSUME Ran({"view"})', q'.percentile.high = 100
             PROVE  /\ \A j \in Selected(p', q'), i \in Candidates(p', q') \ Selected(p', q') :
                          Duration(i) <= Duration(j)
                    /\ q'.percentile.low = 0 => Selected(p', q') = Candidates(p', q')
    BY DEF SlowestAreSelected
<1>1. /\ IsFiniteSet(Candidates(p', q'))
      /\ Measured(Candidates(p', q'))
      /\ q'.percentile.low \in Nat
    BY ViewedAfter DEF ViewedPopulation
<1> QED
    BY <1>1, SlowestInRange DEF Selected

\* Nobody outside a percentile range that ends at 100 is slower than somebody
\* inside, and the range 0:100 is the whole population (rank_bounds and the
\* slice execute_query takes).
THEOREM SlowestSelected == CommandSpec => []SlowestAreSelected
<1>1. CommandInit => SlowestAreSelected
    BY DEF CommandInit, NotRun, SlowestAreSelected, Ran
<1>2. SlowestAreSelected /\ [CommandNext]_commandVars => SlowestAreSelected'
    <2>1. CASE UNCHANGED commandVars
        BY <2>1 DEF commandVars, SlowestAreSelected, Ran
    <2> QED
        BY <2>1, SlowestAfter
<1> QED
    BY <1>1, <1>2, PTL DEF CommandSpec

-----------------------------------------------------------------------------
(* Ancestors *)

\* Induction, on a set instead of a formula.
LEMMA InductiveSet ==
    ASSUME NEW S, 0 \in S, \A n \in Nat : n \in S => n + 1 \in S
    PROVE  Nat \subseteq S
<1> DEFINE T == Nat \ S
           less == {pair \in Nat \X Nat : pair[1] < pair[2]}
<1> SUFFICES ASSUME T # {} PROVE FALSE
    OBVIOUS
<1>1. OpToRel(<, Nat) = less
    BY DEF OpToRel
<1>2. IsWellFoundedOn(less, Nat)
    BY <1>1, NatLessThanWellFounded
<1>3. PICK x \in T : \A y \in T : <<y, x>> \notin less
    <2>1. T \subseteq Nat
        OBVIOUS
    <2> HIDE DEF T, less
    <2> QED
        BY <1>2, <2>1, WFMin
<1>4. x # 0 /\ x - 1 \in Nat /\ <<x - 1, x>> \in less
    BY <1>3
<1>5. x - 1 \in S
    BY <1>3, <1>4
<1>6. (x - 1) + 1 \in S
    BY <1>4, <1>5
<1> QED
    BY <1>3, <1>6

\* One step of the walk of Ancestor.
Climbed(invs, at) == IF at = NoParent THEN NoParent ELSE ParentOf(invs, at)

IsWalk(f, invs, id, m) == f = [n \in 0..m |-> IF n = 0 THEN id ELSE Climbed(invs, f[n - 1])]

\* The walk of Ancestor exists, however long.
LEMMA WalkExists ==
    ASSUME NEW invs, NEW id, NEW m \in Nat
    PROVE  \E f : IsWalk(f, invs, id, m)
<1> DEFINE walks(n, f) == f = [k \in 0..n |-> IF k = 0 THEN id ELSE Climbed(invs, f[k - 1])]
           S == {n \in Nat : \E f : walks(n, f)}
<1>1. 0 \in S
    <2>1. walks(0, [k \in 0..0 |-> id])
        OBVIOUS
    <2> QED
        BY <2>1
<1>2. ASSUME NEW n \in Nat, n \in S
      PROVE  n + 1 \in S
    <2>1. PICK f : walks(n, f)
        BY <1>2
    <2> DEFINE g == [k \in 0..(n + 1) |-> IF k = n + 1 THEN Climbed(invs, f[n]) ELSE f[k]]
    <2>2. \A k \in 0..n : g[k] = f[k]
        OBVIOUS
    <2>3. \A k \in 0..n : f[k] = IF k = 0 THEN id ELSE Climbed(invs, f[k - 1])
        BY <2>1
    <2>4. \A k \in 0..(n + 1) : g[k] = IF k = 0 THEN id ELSE Climbed(invs, g[k - 1])
        <3> TAKE k \in 0..(n + 1)
        <3>1. CASE k = n + 1
            BY <2>2, <3>1
        <3>2. CASE k \in 1..n
            <4>1. k - 1 \in 0..n /\ k \in 0..n /\ k # 0
                BY <3>2
            <4> QED
                BY <2>2, <2>3, <4>1
        <3>3. CASE k = 0
            BY <2>2, <2>3, <3>3
        <3> QED
            BY <3>1, <3>2, <3>3
    <2>5. g = [k \in 0..(n + 1) |-> g[k]]
        OBVIOUS
    <2> HIDE DEF g
    <2>6. walks(n + 1, g)
        BY <2>4, <2>5
    <2> QED
        BY <2>6
<1> HIDE DEF S
<1>3. m \in S
    BY <1>1, <1>2, InductiveSet
<1> QED
    BY <1>3 DEF S, IsWalk

LEMMA AncestorSteps ==
    ASSUME NEW invs, NEW id, IsFiniteSet(invs)
    PROVE  /\ Cardinality(invs) \in Nat
           /\ Ancestor(invs, id)[0] = id
           /\ \A n \in 1..Cardinality(invs) :
                 Ancestor(invs, id)[n] = Climbed(invs, Ancestor(invs, id)[n - 1])
<1> DEFINE m == Cardinality(invs)
           walk == Ancestor(invs, id)
<1>1. m \in Nat
    BY FS_CardinalityType
<1>2. \E f : IsWalk(f, invs, id, m)
    BY <1>1, WalkExists
<1>3. walk = CHOOSE f : f = [n \in 0..m |->
                IF n = 0 THEN id
                ELSE IF f[n - 1] = NoParent THEN NoParent ELSE ParentOf(invs, f[n - 1])]
    BY DEF Ancestor
<1>4. walk = CHOOSE f : IsWalk(f, invs, id, m)
    BY <1>3 DEF Climbed, IsWalk
<1> HIDE DEF walk, m
<1>5. walk = [n \in 0..m |-> IF n = 0 THEN id ELSE Climbed(invs, walk[n - 1])]
    BY <1>2, <1>4 DEF IsWalk
<1>6. /\ walk[0] = id
      /\ \A n \in 1..m : walk[n] = Climbed(invs, walk[n - 1])
    BY <1>1, <1>5
<1> QED
    BY <1>1, <1>6 DEF walk, m

\* In a set of invocations that are each other's parents no walk ever ends.
LEMMA ClosedWalk ==
    ASSUME NEW invs, IsFiniteSet(invs), UniqueIds(invs), \A i \in invs : i.id \in Nat,
           NEW closed \in SUBSET invs, \A i \in closed : i.parent \in IdsOf(closed),
           NEW first \in closed
    PROVE  ~Acyclic(invs, first.id)
<1> DEFINE m == Cardinality(invs)
           walk == Ancestor(invs, first.id)
           S == {n \in Nat : n <= m => walk[n] \in IdsOf(closed)}
<1>1. \A id \in IdsOf(closed) : id # NoParent /\ Climbed(invs, id) \in IdsOf(closed)
    <2> TAKE id \in IdsOf(closed)
    <2>1. PICK i \in closed : i.id = id
        BY DEF IdsOf
    <2>2. id # NoParent
        BY <2>1 DEF NoParent
    <2>3. id \in IdsOf(invs)
        BY <2>1 DEF IdsOf
    <2>4. (CHOOSE j \in invs : j.id = id) = i
        BY <2>1 DEF UniqueIds
    <2>5. Climbed(invs, id) = i.parent
        BY <2>2, <2>3, <2>4 DEF Climbed, ParentOf
    <2> QED
        BY <2>1, <2>2, <2>5
<1>2. /\ m \in Nat /\ walk[0] = first.id
      /\ \A n \in 1..m : walk[n] = Climbed(invs, walk[n - 1])
    BY AncestorSteps
<1> HIDE DEF walk, m
<1>3. 0 \in S
    BY <1>2 DEF IdsOf
<1>4. ASSUME NEW n \in Nat, n \in S
      PROVE  n + 1 \in S
    <2> SUFFICES ASSUME n + 1 <= m PROVE walk[n + 1] \in IdsOf(closed)
        OBVIOUS
    <2>1. walk[n] \in IdsOf(closed)
        BY <1>2, <1>4
    <2>2. n + 1 \in 1..m /\ (n + 1) - 1 = n
        BY <1>2
    <2>3. walk[n + 1] = Climbed(invs, walk[n])
        BY <1>2, <2>2
    <2> QED
        BY <1>1, <2>1, <2>3
<1>5. walk[m] \in IdsOf(closed)
    <2> HIDE DEF S
    <2>1. m \in S
        BY <1>2, <1>3, <1>4, InductiveSet
    <2> QED
        BY <1>2, <2>1 DEF S
<1> QED
    BY <1>1, <1>5 DEF Acyclic, walk, m

LEMMA CyclesAfter ==
    ASSUME CommandNext
    PROVE  CyclesAreRefused'
<1> DEFINE invs == command.file.profile.invocations
<1> SUFFICES ASSUME Ran({"view", "discover", "validate"})',
                    NEW closed \in (SUBSET invs') \ {{}},
                    \A i \in closed : i.parent \in IdsOf(closed)
             PROVE  FALSE
    BY DEF CyclesAreRefused
<1>1. command'.kind \in {"view", "discover", "validate"} /\ outcome'.status = "ok"
    BY DEF Ran
<1>2. Loads(command'.file) /\ command'.file \in Files
    <2>1. CASE View
        <3>1. command'.kind = "view"
            BY <2>1 DEF View
        <3> QED
            BY <1>1, <3>1, ViewedAfter DEF Ran
    <2>2. CASE Discover
        BY <1>1, <2>2 DEF Discover, Refused
    <2>3. CASE ValidateFile
        BY <1>1, <2>3 DEF ValidateFile, Refused
    <2>4. CASE Doctor \/ Symbols \/ ProbeSymbol
        BY <1>1, <2>4 DEF Doctor, Symbols, ProbeSymbol
    <2> QED
        BY <2>1, <2>2, <2>3, <2>4 DEF CommandNext
<1>3. /\ IsFiniteSet(invs') /\ UniqueIds(invs')
      /\ \A i \in invs' : i.id \in Nat /\ Acyclic(invs', i.id)
    BY <1>2, CommandAssumption DEF Loads, Validates, ValidInvocation
<1>4. PICK first \in closed : TRUE
    OBVIOUS
<1> HIDE DEF invs
<1> QED
    BY <1>3, <1>4, ClosedWalk

\* No command goes on with a profile in which some invocations are each other's
\* ancestors, however many of them and however long the cycle: the walk of
\* Profile::validate over the parents refuses it.
THEOREM CyclesRefused == CommandSpec => []CyclesAreRefused
<1>1. CommandInit => CyclesAreRefused
    BY DEF CommandInit, NotRun, CyclesAreRefused, Ran
<1>2. CyclesAreRefused /\ [CommandNext]_commandVars => CyclesAreRefused'
    <2>1. CASE UNCHANGED commandVars
        BY <2>1 DEF commandVars, CyclesAreRefused, Ran
    <2> QED
        BY <2>1, CyclesAfter
<1> QED
    BY <1>1, <1>2, PTL DEF CommandSpec

-----------------------------------------------------------------------------
(* Pages *)

\* Multiples of a page compare as their numbers do.
LEMMA PageOrder ==
    ASSUME NEW page \in Nat \ {0}, NEW x \in Int, NEW y \in Int
    PROVE  /\ x <= y => page * x <= page * y
           /\ page * x < page * (y + 1) => x <= y
<1>1. \A a, b \in Int : a <= b => page * a <= page * b
    <2> TAKE a, b \in Int
    <2> SUFFICES ASSUME a <= b PROVE page * a <= page * b
        OBVIOUS
    <2>1. PICK d \in Nat : b = a + d
        <3>1. b - a \in Nat /\ b = a + (b - a)
            OBVIOUS
        <3> QED
            BY <3>1
    <2>2. page * b = page * a + page * d
        BY <2>1
    <2>3. page * d \in Nat /\ page * a \in Int
        OBVIOUS
    <2> QED
        BY <2>2, <2>3
<1>2. ASSUME page * x < page * (y + 1) PROVE x <= y
    <2> SUFFICES ASSUME y + 1 <= x PROVE FALSE
        OBVIOUS
    <2>1. page * (y + 1) <= page * x
        BY <1>1
    <2>2. page * (y + 1) \in Int /\ page * x \in Int
        OBVIOUS
    <2> QED
        BY <1>2, <2>1, <2>2
<1> QED
    BY <1>1, <1>2

LEMMA PageDownBounds ==
    ASSUME NEW page \in Nat \ {0}, NEW x \in Nat
    PROVE  /\ x \div page \in Nat
           /\ PageDown(page, x) \in Nat
           /\ PageDown(page, x) <= x /\ x < PageDown(page, x) + page
           /\ x % page = 0 => PageDown(page, x) = x
<1>1. /\ x \div page \in Nat /\ x % page \in 0..(page - 1)
      /\ x = page * (x \div page) + (x % page)
    OBVIOUS
<1>2. page * (x \div page) \in Nat
    BY <1>1
<1> QED
    BY <1>1, <1>2 DEF PageDown

-----------------------------------------------------------------------------
(* Probes and frames *)

LEMMA MinOfNaturals ==
    ASSUME NEW I \in SUBSET Nat, I # {}
    PROVE  Min(I) \in I /\ \A y \in I : Min(I) <= y
<1> DEFINE less == {pair \in Nat \X Nat : pair[1] < pair[2]}
<1>1. IsWellFoundedOn(less, Nat)
    <2>1. OpToRel(<, Nat) = less
        BY DEF OpToRel
    <2> QED
        BY <2>1, NatLessThanWellFounded
<1>2. PICK x \in I : \A y \in I : <<y, x>> \notin less
    <2> HIDE DEF less
    <2>1. I \subseteq Nat
        OBVIOUS
    <2> QED
        BY <1>1, <2>1, WFMin
<1>3. \A y \in I : x <= y
    <2> TAKE y \in I
    <2>1. x \in Nat /\ y \in Nat /\ <<y, x>> \in Nat \X Nat
        OBVIOUS
    <2>2. <<y, x>> \notin less
        BY <1>2
    <2> QED
        BY <2>1, <2>2
<1> QED
    BY <1>2, <1>3 DEF Min

LEMMA MaxOfNaturals ==
    ASSUME NEW I \in SUBSET Nat, NEW x \in I, \A y \in I : y <= x
    PROVE  Max(I) = x
<1> DEFINE top(z) == \A y \in I : z >= y
<1>0. top(x)
    OBVIOUS
<1>1. ASSUME NEW z \in I, top(z) PROVE z = x
    <2>1. z \in Nat /\ x \in Nat /\ z >= x /\ z <= x
        BY <1>1
    <2> QED
        BY <2>1
<1>2. Max(I) = CHOOSE z \in I : top(z)
    BY DEF Max
<1> HIDE DEF top
<1> QED
    BY <1>0, <1>1, <1>2

SegmentRecord == [address : Nat, offset : Nat, size : Nat, exec : BOOLEAN]

SegmentRecords == Seq(SegmentRecord)

LEMMA SegmentTypes ==
    ASSUME NEW segments \in SegmentRecords, NEW k \in DOMAIN segments
    PROVE  /\ segments[k] \in SegmentRecord
           /\ segments[k].address \in Nat /\ segments[k].offset \in Nat
           /\ segments[k].size \in Nat /\ segments[k].exec \in BOOLEAN
<1>1. segments[k] \in SegmentRecord
    BY DEF SegmentRecords
<1> QED
    BY <1>1 DEF SegmentRecord

LEMMA FoundSegment ==
    ASSUME NEW elf, elf.segments \in SegmentRecords, NEW a \in Nat, SegmentOfAddress(elf, a) # 0
    PROVE  /\ SegmentOfAddress(elf, a) \in DOMAIN elf.segments
           /\ LET g == elf.segments[SegmentOfAddress(elf, a)]
              IN g.address <= a /\ a < g.address + g.size
<1> DEFINE segments == elf.segments
           I == {k \in 1..Len(segments) : segments[k].address <= a
                                          /\ a < segments[k].address + segments[k].size}
<1>1. SegmentOfAddress(elf, a) = IF I # {} THEN Min(I) ELSE 0
    BY DEF SegmentOfAddress, SelectInSeq
<1>2. Len(segments) \in Nat /\ DOMAIN segments = 1..Len(segments)
    BY DEF SegmentRecords
<1>3. I \in SUBSET Nat /\ I # {}
    BY <1>1, <1>2
<1>4. Min(I) \in I
    BY <1>3, MinOfNaturals
<1> QED
    BY <1>1, <1>2, <1>3, <1>4

SymbolRecord == [name : STRING, address : Nat, text : BOOLEAN]

LEMMA SymbolTypes ==
    ASSUME NEW symbols \in Seq(SymbolRecord), NEW c \in DOMAIN symbols
    PROVE  c \in Nat /\ symbols[c].address \in Nat
<1>1. symbols[c] \in SymbolRecord /\ c \in Nat
    OBVIOUS
<1> QED
    BY <1>1 DEF SymbolRecord

\* The bytes of the file of no other segment: the resolver finds this one.
LEMMA SegmentOfOwnOffset ==
    ASSUME NEW elf, elf.segments \in SegmentRecords, NEW k \in DOMAIN elf.segments, NEW o \in Nat,
           o \in FileRange(elf.segments[k]),
           \A l \in DOMAIN elf.segments : l # k => o \notin FileRange(elf.segments[l])
    PROVE  SegmentOfOffset(elf, o) = k /\ k # 0
<1> DEFINE segments == elf.segments
           I == {l \in 1..Len(segments) : segments[l].offset <= o
                                          /\ o < segments[l].offset + segments[l].size}
<1>1. SegmentOfOffset(elf, o) = IF I # {} THEN Min(I) ELSE 0
    BY DEF SegmentOfOffset, SelectInSeq
<1>2. Len(segments) \in Nat /\ DOMAIN segments = 1..Len(segments)
    BY DEF SegmentRecords
<1>3. \A l \in DOMAIN segments : segments[l].offset \in Nat /\ segments[l].size \in Nat
    BY SegmentTypes
<1>4. I = {k}
    <2>1. \A l \in DOMAIN segments :
             o \in FileRange(segments[l]) <=>
                segments[l].offset <= o /\ o < segments[l].offset + segments[l].size
        BY <1>3 DEF FileRange
    <2> QED
        BY <1>2, <2>1
<1>5. I \in SUBSET Nat /\ I # {}
    BY <1>2, <1>4
<1>6. Min(I) = k
    BY <1>4, <1>5, MinOfNaturals
<1> QED
    BY <1>1, <1>2, <1>5, <1>6

\* Code that begins a page: g is segment k, loaded to line.
LEMMA LoadedSegments ==
    ASSUME NEW elf, NEW bias \in Nat, NEW page \in Nat \ {0}, LinkedElf(elf, page),
           NEW k \in DOMAIN elf.segments
    PROVE  LET g == elf.segments[k]
               first == PageDown(page, g.address)
               past == PageDown(page, g.address + g.size + page - 1)
           IN /\ g.address \in Nat /\ g.offset \in Nat /\ g.size \in Nat /\ g.exec \in BOOLEAN
              /\ first \in Nat /\ past \in Nat /\ g.address + g.size <= past /\ first <= g.address
              /\ MemoryRange(g, page) = first..(past - 1)
              /\ PageDown(page, g.offset) \in Nat
<1> DEFINE g == elf.segments[k]
<1>1. /\ g.address \in Nat /\ g.offset \in Nat /\ g.size \in Nat /\ g.exec \in BOOLEAN
    <2>1. elf.segments \in SegmentRecords
        BY DEF LinkedElf, SegmentRecords, SegmentRecord
    <2> QED
        BY <2>1, SegmentTypes
<1>2. g.address + g.size + page - 1 \in Nat
    BY <1>1
<1> HIDE DEF g
<1>3. /\ PageDown(page, g.address) \in Nat
      /\ PageDown(page, g.address) <= g.address
      /\ PageDown(page, g.offset) \in Nat
    BY <1>1, PageDownBounds
<1>4. /\ PageDown(page, g.address + g.size + page - 1) \in Nat
      /\ g.address + g.size + page - 1 < PageDown(page, g.address + g.size + page - 1) + page
    BY <1>2, PageDownBounds
<1>5. g.address + g.size <= PageDown(page, g.address + g.size + page - 1)
    BY <1>1, <1>4
<1> QED
    BY <1>1, <1>3, <1>4, <1>5 DEF g, MemoryRange

\* What /proc/pid/maps says of segment k.
Line(elf, bias, page, k) ==
    LET g == elf.segments[k]
    IN [start |-> bias + PageDown(page, g.address),
        end |-> bias + PageDown(page, g.address + g.size + page - 1),
        offset |-> PageDown(page, g.offset),
        module |-> TRUE, exec |-> g.exec]

LEMMA LoadedLines ==
    ASSUME NEW elf, NEW bias, NEW page
    PROVE  LoadedMaps(elf, bias, page) = {Line(elf, bias, page, k) : k \in DOMAIN elf.segments}
BY DEF LoadedMaps, Line

IsCode(elf, page, k) ==
    /\ LinkedElf(elf, page)
    /\ AlignedCode(elf, page)
    /\ k \in DOMAIN elf.segments
    /\ elf.segments[k].exec

CodeLine(elf, bias, page, k) ==
    LET g == elf.segments[k]
        line == Line(elf, bias, page, k)
        past == PageDown(page, g.address + g.size + page - 1)
    IN /\ line.start = bias + g.address /\ line.offset = g.offset
       /\ line.end = bias + past /\ line.module = TRUE /\ line.exec = TRUE
       /\ past \in Nat /\ g.address + g.size <= past
       /\ MemoryRange(g, page) = g.address..(past - 1)

LEMMA LineOfCode ==
    ASSUME NEW elf, NEW bias \in Nat, NEW page \in Nat \ {0}, NEW k, IsCode(elf, page, k)
    PROVE  CodeLine(elf, bias, page, k)
<1> DEFINE g == elf.segments[k]
<1>1. /\ g.address \in Nat /\ g.offset \in Nat
      /\ g.address % page = 0 /\ g.offset % page = 0
    BY LoadedSegments DEF AlignedCode, IsCode
<1>2. PageDown(page, g.address) = g.address /\ PageDown(page, g.offset) = g.offset
    <2> HIDE DEF g
    <2> QED
        BY <1>1, PageDownBounds
<1> QED
    BY <1>2, LoadedSegments DEF Line, IsCode, CodeLine

\* Pages of code that share no byte of the file share no page of it.
LEMMA CodePagesApart ==
    ASSUME NEW page \in Nat \ {0}, NEW g \in SegmentRecord, NEW h \in SegmentRecord,
           g.offset % page = 0, h.address % page = 0, h.offset % page = 0,
           FileRange(g) \cap FileRange(h) = {},
           NEW o \in FileRange(g)
    PROVE  ~(/\ h.offset <= o
             /\ o < h.offset + (PageDown(page, h.address + h.size + page - 1) - h.address))
<1>1. /\ g.offset \in Nat /\ g.size \in Nat
      /\ h.address \in Nat /\ h.offset \in Nat /\ h.size \in Nat
    BY DEF SegmentRecord
<1>2. o \in Nat /\ g.offset <= o /\ o < g.offset + g.size
    BY <1>1 DEF FileRange
<1> DEFINE y == h.address + h.size + page - 1
           past == page * (y \div page)
           a == h.address \div page
           b == h.offset \div page
           c == g.offset \div page
           q == y \div page
<1>3. y \in Nat
    BY <1>1
<1>4. /\ a \in Nat /\ b \in Nat /\ c \in Nat /\ q \in Nat
      /\ h.address = page * a /\ h.offset = page * b /\ g.offset = page * c
      /\ page * q <= y
    <2> HIDE DEF y
    <2> QED
        BY <1>1, <1>3, PageDownBounds DEF PageDown
<1>5. PageDown(page, y) = page * q
    BY DEF PageDown
<1> SUFFICES ASSUME h.offset <= o, o < h.offset + (PageDown(page, y) - h.address)
             PROVE  FALSE
    OBVIOUS
<1>6. CASE h.size = 0
    <2>1. page * q < page * (a + 1)
        <3>1. page * (a + 1) = page * a + page
            BY <1>4
        <3>2. y < page * a + page
            BY <1>1, <1>4, <1>6
        <3> HIDE DEF y, q, a
        <3> QED
            BY <1>3, <1>4, <3>1, <3>2
    <2>2. q <= a
        <3> HIDE DEF q, a
        <3> QED
            BY <1>4, <2>1, PageOrder
    <2>3. page * q <= page * a
        <3> HIDE DEF q, a
        <3> QED
            BY <1>4, <2>2, PageOrder
    <2> HIDE DEF y, q, a
    <2> QED
        BY <1>1, <1>2, <1>4, <1>5, <2>3
<1>7. CASE h.size # 0
    <2>1. \/ g.offset + g.size <= h.offset
          \/ h.offset + h.size <= g.offset
        <3> SUFFICES ASSUME h.offset < g.offset + g.size, g.offset < h.offset + h.size
                     PROVE  FALSE
            BY <1>1
        <3>1. CASE g.offset <= h.offset
            <4>1. h.offset \in FileRange(g) /\ h.offset \in FileRange(h)
                BY <1>1, <1>7, <3>1 DEF FileRange
            <4> QED
                BY <4>1
        <3>2. CASE h.offset <= g.offset
            <4>1. g.offset \in FileRange(g) /\ g.offset \in FileRange(h)
                BY <1>1, <1>2, <3>2 DEF FileRange
            <4> QED
                BY <4>1
        <3> QED
            BY <1>1, <3>1, <3>2
    <2>2. h.offset + h.size <= g.offset
        BY <1>1, <1>2, <2>1
    <2> DEFINE n == b + q - a
    <2>3. page * n = page * b + page * q - page * a
        <3> HIDE DEF a, b, q
        <3> QED
            BY <1>4
    <2>4. page * (c + 1) = page * c + page
        <3> HIDE DEF c
        <3> QED
            BY <1>4
    <2>5. page * q <= page * a + h.size + page - 1
        BY <1>1, <1>4
    <2> HIDE DEF y, q, a, b, c
    <2>6. page * a \in Nat /\ page * b \in Nat /\ page * c \in Nat /\ page * q \in Nat
        BY <1>4
    <2>7. page * n < page * (c + 1)
        <3> HIDE DEF n
        <3>1. page * n <= page * b + h.size + page - 1
            BY <1>1, <2>3, <2>5, <2>6
        <3>2. page * b + h.size <= page * c
            BY <1>4, <2>2
        <3> QED
            BY <1>1, <2>3, <2>4, <2>6, <3>1, <3>2
    <2>8. n \in Int
        BY <1>4
    <2>9. page * n <= page * c
        <3> HIDE DEF n
        <3>1. n <= c
            BY <1>4, <2>7, <2>8, PageOrder
        <3> QED
            BY <1>4, <2>8, <3>1, PageOrder
    <2>10. h.offset + (PageDown(page, y) - h.address) <= g.offset
        BY <1>4, <1>5, <2>3, <2>6, <2>9
    <2>11. h.offset + (PageDown(page, y) - h.address) \in Int
        BY <1>1, <1>4, <1>5, <2>6
    <2> QED
        BY <1>1, <1>2, <2>10, <2>11
<1> QED
    BY <1>6, <1>7

\* The function is in segment k, at its address.
InCode(elf, page, k, address) ==
    /\ IsCode(elf, page, k)
    /\ address \in elf.segments[k].address..(elf.segments[k].address + elf.segments[k].size - 1)

OffsetOf(elf, k, address) == elf.segments[k].offset + (address - elf.segments[k].address)

\* A uprobe at the offset of an address of code fires there and nowhere else.
LEMMA ProbedOnce ==
    ASSUME NEW elf, NEW bias \in Nat, NEW page \in Nat \ {0}, NEW k, NEW address \in Nat,
           InCode(elf, page, k, address)
    PROVE  ProbedAddresses(LoadedMaps(elf, bias, page), OffsetOf(elf, k, address)) = {bias + address}
<1> DEFINE g == elf.segments[k]
           o == g.offset + (address - g.address)
           line(l) == Line(elf, bias, page, l)
           fires(m) == m.exec /\ m.offset <= o /\ o < m.offset + (m.end - m.start)
<1>1. /\ LinkedElf(elf, page) /\ AlignedCode(elf, page) /\ k \in DOMAIN elf.segments /\ g.exec
      /\ g.address <= address /\ address < g.address + g.size
      /\ g.address \in Nat /\ g.offset \in Nat /\ g.size \in Nat
    <2>1. g.address \in Nat /\ g.offset \in Nat /\ g.size \in Nat
        BY LoadedSegments DEF InCode, IsCode
    <2> QED
        BY <2>1 DEF InCode, IsCode
<1>2. o \in FileRange(g)
    BY <1>1 DEF FileRange
<1>3. fires(line(k)) /\ line(k).start + (o - line(k).offset) = bias + address
    <2> DEFINE past == PageDown(page, g.address + g.size + page - 1)
    <2>1. /\ line(k).start = bias + g.address /\ line(k).offset = g.offset
          /\ line(k).end = bias + past /\ line(k).exec
          /\ past \in Nat /\ g.address + g.size <= past
        <3>1. IsCode(elf, page, k)
            BY DEF InCode
        <3>2. CodeLine(elf, bias, page, k)
            BY <3>1, LineOfCode
        <3> QED
            BY <3>2 DEF CodeLine
    <2> HIDE DEF past, g
    <2>2. o \in Nat /\ g.offset <= o /\ o < g.offset + g.size
        BY <1>1
    <2>3. line(k).end - line(k).start = past - g.address
        BY <1>1, <2>1
    <2> HIDE DEF line
    <2> QED
        BY <1>1, <2>1, <2>2, <2>3
<1>4. ASSUME NEW l \in DOMAIN elf.segments, l # k, fires(line(l))
      PROVE  FALSE
    <2> DEFINE h == elf.segments[l]
               past == PageDown(page, h.address + h.size + page - 1)
    <2>1. h.exec
        BY <1>4 DEF Line
    <2>2. /\ line(l).start = bias + h.address /\ line(l).offset = h.offset
          /\ line(l).end = bias + past /\ past \in Nat
        <3>1. IsCode(elf, page, l)
            BY <1>1, <2>1 DEF IsCode
        <3>2. CodeLine(elf, bias, page, l)
            BY <3>1, LineOfCode
        <3> QED
            BY <3>2 DEF CodeLine
    <2>3. g \in SegmentRecord /\ h \in SegmentRecord
        <3>1. elf.segments \in SegmentRecords
            BY <1>1 DEF LinkedElf, SegmentRecords, SegmentRecord
        <3> QED
            BY <1>1, <3>1, SegmentTypes
    <2>4. /\ g.offset % page = 0 /\ h.address % page = 0 /\ h.offset % page = 0
          /\ FileRange(g) \cap FileRange(h) = {}
        BY <1>1, <1>4, <2>1 DEF AlignedCode, LinkedElf
    <2>5. h.address \in Nat
        BY <2>3 DEF SegmentRecord
    <2>6. line(l).end - line(l).start = past - h.address
        BY <2>2, <2>5
    <2>7. h.offset <= o /\ o < h.offset + (past - h.address)
        BY <1>4, <2>2, <2>6
    <2> QED
        BY <1>2, <2>3, <2>4, <2>7, CodePagesApart
<1>5. {m \in LoadedMaps(elf, bias, page) : fires(m)} = {line(k)}
    <2>1. LoadedMaps(elf, bias, page) = {line(l) : l \in DOMAIN elf.segments}
        BY LoadedLines
    <2> HIDE DEF line, fires
    <2> QED
        BY <1>1, <1>3, <1>4, <2>1
<1>6. ProbedAddresses(LoadedMaps(elf, bias, page), o) =
         {m.start + (o - m.offset) : m \in {l \in LoadedMaps(elf, bias, page) : fires(l)}}
    BY DEF ProbedAddresses
<1> HIDE DEF fires, line, o
<1>7. ProbedAddresses(LoadedMaps(elf, bias, page), o) = {bias + address}
    BY <1>3, <1>5, <1>6
<1> QED
    BY <1>7 DEF o, OffsetOf

Covering(elf, maps, x) == {m \in Mappings(elf, maps) : m.start <= x /\ x < m.end}

CoveredOnce(elf, maps, x, a) ==
    \E mapping : Covering(elf, maps, x) = {mapping} /\ mapping.file + (x - mapping.start) = a

\* Of what the resolver reads, the mapping of segment k alone covers an address
\* of its code, and gives the address back.
LEMMA CoveringMapping ==
    ASSUME NEW elf, NEW bias \in Nat, NEW page \in Nat \ {0}, NEW k, NEW a \in Nat,
           InCode(elf, page, k, a)
    PROVE  CoveredOnce(elf, LoadedMaps(elf, bias, page), bias + a, a)
<1> DEFINE g == elf.segments[k]
           maps == LoadedMaps(elf, bias, page)
           line(l) == Line(elf, bias, page, l)
           past(l) == PageDown(page, elf.segments[l].address + elf.segments[l].size + page - 1)
           fileOf(n) == LET s == elf.segments[SegmentOfOffset(elf, n.offset)]
                        IN s.address + (n.offset - s.offset)
           mapOf(n) == [start |-> n.start, end |-> n.end, file |-> fileOf(n)]
           covers(m) == m.start <= bias + a /\ bias + a < m.end
           named == {n \in maps : n.module /\ SegmentOfOffset(elf, n.offset) # 0}
<1>1. /\ LinkedElf(elf, page) /\ k \in DOMAIN elf.segments /\ elf.segments \in SegmentRecords
      /\ g.address <= a /\ a < g.address + g.size
      /\ g.address \in Nat /\ g.offset \in Nat /\ g.size \in Nat
    <2>1. g.address \in Nat /\ g.offset \in Nat /\ g.size \in Nat
        BY LoadedSegments DEF InCode, IsCode
    <2>2. LinkedElf(elf, page) /\ k \in DOMAIN elf.segments
        BY DEF InCode, IsCode
    <2>3. elf.segments \in SegmentRecords
        BY <2>2 DEF LinkedElf, SegmentRecords, SegmentRecord
    <2> QED
        BY <2>1, <2>2, <2>3 DEF InCode
<1>2. /\ line(k).start = bias + g.address /\ line(k).offset = g.offset
      /\ line(k).end = bias + past(k) /\ line(k).module = TRUE
      /\ past(k) \in Nat /\ g.address + g.size <= past(k)
      /\ MemoryRange(g, page) = g.address..(past(k) - 1)
    <2>1. CodeLine(elf, bias, page, k)
        BY LineOfCode DEF InCode
    <2> QED
        BY <2>1 DEF CodeLine
<1>3. SegmentOfOffset(elf, g.offset) = k /\ k # 0
    <2>1. g.offset \in FileRange(g)
        BY <1>1 DEF FileRange
    <2>2. \A l \in DOMAIN elf.segments : l # k => g.offset \notin FileRange(elf.segments[l])
        BY <1>1, <2>1 DEF LinkedElf
    <2> QED
        BY <1>1, <2>1, <2>2, SegmentOfOwnOffset
<1>4. /\ mapOf(line(k)).start = bias + g.address /\ mapOf(line(k)).end = bias + past(k)
      /\ mapOf(line(k)).file = g.address
    BY <1>1, <1>2, <1>3
<1>5. line(k) \in maps /\ line(k) \in named
    <2>1. line(k) \in maps
        BY <1>1, LoadedLines
    <2> QED
        BY <1>2, <1>3, <2>1
<1>6. covers(mapOf(line(k)))
    BY <1>1, <1>2, <1>4
<1>7. ASSUME NEW l \in DOMAIN elf.segments, l # k, covers(line(l))
      PROVE  FALSE
    <2> DEFINE h == elf.segments[l]
               first == PageDown(page, h.address)
    <2>1. /\ first \in Nat /\ past(l) \in Nat
          /\ MemoryRange(h, page) = first..(past(l) - 1)
        BY <1>1, LoadedSegments
    <2>2. line(l).start = bias + first /\ line(l).end = bias + past(l)
        BY DEF Line
    <2> HIDE DEF first, past, line
    <2>3. a \in MemoryRange(h, page)
        BY <1>7, <2>1, <2>2
    <2>4. a \in MemoryRange(g, page)
        BY <1>1, <1>2
    <2> QED
        BY <1>1, <1>7, <2>3, <2>4 DEF LinkedElf
<1>8. Mappings(elf, maps) = {mapOf(n) : n \in named}
    BY DEF Mappings
<1>9. \A n : covers(mapOf(n)) <=> covers(n)
    OBVIOUS
<1>10. maps = {line(l) : l \in DOMAIN elf.segments}
    BY LoadedLines
<1>11. named \subseteq maps
    OBVIOUS
<1> HIDE DEF named, covers, line, maps, mapOf
<1>12. {m \in Mappings(elf, maps) : covers(m)} = {mapOf(line(k))}
    BY <1>5, <1>6, <1>7, <1>8, <1>9, <1>10, <1>11
<1>13. mapOf(line(k)).file + ((bias + a) - mapOf(line(k)).start) = a
    <2> HIDE DEF g
    <2> QED
        BY <1>1, <1>4
<1> QED
    BY <1>12, <1>13 DEF maps, covers, Covering, CoveredOnce

\* The name of every address in the body of a function with one name.
LEMMA BodyIsNamed ==
    ASSUME NEW elf, NEW bias \in Nat, NEW page \in Nat \ {0}, NEW k, NEW address \in Nat, NEW name,
           InCode(elf, page, k, address), SegmentOfAddress(elf, address) = k,
           OneName(elf, address), address \in RequestedAddresses(elf, name),
           NEW a \in Body(elf, address)
    PROVE  FrameLabel(elf, LoadedMaps(elf, bias, page), bias + a) = name
<1> DEFINE g == elf.segments[k]
           maps == LoadedMaps(elf, bias, page)
           covering == Covering(elf, maps, bias + a)
           mapping == CHOOSE m \in covering : TRUE
           under(x) == {elf.symbols[c].address : c \in {d \in Callable(elf) : elf.symbols[d].address <= x}}
           at == {c \in Callable(elf) : elf.symbols[c].address = address}
<1>1. /\ g.address \in Nat /\ g.size \in Nat /\ address \in g.address..(g.address + g.size - 1)
    BY LoadedSegments DEF InCode, IsCode
<1>2. /\ a \in address..(g.address + g.size - 1)
      /\ \A c \in Callable(elf) : elf.symbols[c].address \notin (address + 1)..a
    BY DEF Body
<1>3. a \in Nat /\ address <= a /\ InCode(elf, page, k, a)
    BY <1>1, <1>2 DEF InCode
<1>4. covering = {mapping} /\ mapping.file + ((bias + a) - mapping.start) = a
    <2>1. CoveredOnce(elf, maps, bias + a, a)
        BY <1>3, CoveringMapping
    <2>2. PICK m : covering = {m} /\ m.file + ((bias + a) - m.start) = a
        BY <2>1 DEF CoveredOnce
    <2> HIDE DEF covering
    <2> QED
        BY <2>2
<1>5. PICK c0 \in Callable(elf) : elf.symbols[c0].name = name /\ elf.symbols[c0].address = address
    BY DEF RequestedAddresses
<1>6. \A c \in Callable(elf) : elf.symbols[c].address \in Nat /\ c \in Nat
    <2>1. elf.symbols \in Seq(SymbolRecord)
        BY DEF InCode, IsCode, LinkedElf, SymbolRecord
    <2>2. \A c \in Callable(elf) : c \in DOMAIN elf.symbols
        BY DEF Callable
    <2> QED
        BY <2>1, <2>2, SymbolTypes
<1>7. Max(under(a)) = address /\ under(a) # {}
    <2>1. address \in under(a)
        BY <1>3, <1>5
    <2>2. \A x \in under(a) : x \in Nat /\ x <= address
        BY <1>2, <1>3, <1>6
    <2> HIDE DEF under
    <2> QED
        BY <2>1, <2>2, MaxOfNaturals
<1>8. NameAt(elf, address) = name
    <2>1. at \in SUBSET Nat /\ at # {}
        BY <1>5, <1>6
    <2>2. Min(at) \in at
        <3> HIDE DEF at
        <3> QED
            BY <2>1, MinOfNaturals
    <2>3. elf.symbols[Min(at)].name = elf.symbols[c0].name
        BY <1>5, <2>2 DEF OneName
    <2> QED
        BY <1>5, <2>3 DEF NameAt
<1>9. FrameLabel(elf, maps, bias + a) =
         LET below == under(mapping.file + ((bias + a) - mapping.start))
         IN IF covering = {} \/ below = {} THEN "unknown" ELSE NameAt(elf, Max(below))
    BY DEF FrameLabel, Covering
<1> HIDE DEF under, covering, mapping, maps
<1>10. FrameLabel(elf, maps, bias + a) = name
    BY <1>4, <1>7, <1>8, <1>9
<1> QED
    BY <1>10 DEF maps

\* An off-CPU stack of one such address needs no second root.
LEMMA NamedStack ==
    ASSUME NEW elf, NEW maps, NEW x, NEW name, FrameLabel(elf, maps, x) = name
    PROVE  OffcpuFrames(elf, maps, <<x>>, name) = <<name>>
<1>1. Reverse(<<x>>) = <<x>>
    BY DEF Reverse
<1>2. Frames(elf, maps, <<x>>) = <<name>>
    BY <1>1 DEF Frames
<1> QED
    BY <1>2 DEF OffcpuFrames, ToSet

\* What select_symbol found is the requested name at an address of segment k.
LEMMA SelectedSymbol ==
    ASSUME NEW elf, NEW name, SelectSymbol(elf, name).status = "selected"
    PROVE  LET selected == SelectSymbol(elf, name)
               k == SegmentOfAddress(elf, selected.address)
           IN /\ selected.address \in RequestedAddresses(elf, name)
              /\ k # 0
              /\ selected.offset =
                    elf.segments[k].offset + (selected.address - elf.segments[k].address)
<1> DEFINE found == RequestedAddresses(elf, name)
           address == CHOOSE a \in found : TRUE
           k == SegmentOfAddress(elf, address)
           offset == elf.segments[k].offset + (address - elf.segments[k].address)
<1>1. SelectSymbol(elf, name) =
         IF found = {} THEN NotSelected("unknown")
         ELSE IF Cardinality(found) > 1 THEN NotSelected("ambiguous")
         ELSE IF k = 0 THEN NotSelected("unmapped")
         ELSE [status |-> "selected", address |-> address, offset |-> offset]
    BY DEF SelectSymbol
<1>2. \A reason : NotSelected(reason).status = reason
    BY DEF NotSelected
<1> HIDE DEF offset, k
<1>3. /\ found # {} /\ k # 0
      /\ SelectSymbol(elf, name) = [status |-> "selected", address |-> address, offset |-> offset]
    BY <1>1, <1>2
<1>4. address \in found
    BY <1>3
<1> HIDE DEF address, found
<1> QED
    BY <1>3, <1>4 DEF k, offset, found

LEMMA SelectedIsCode ==
    ASSUME NEW elf, NEW page, LinkedElf(elf, page), AlignedCode(elf, page), NEW name,
           NEW address \in RequestedAddresses(elf, name), SegmentOfAddress(elf, address) # 0
    PROVE  address \in Nat /\ InCode(elf, page, SegmentOfAddress(elf, address), address)
<1> DEFINE k == SegmentOfAddress(elf, address)
           g == elf.segments[k]
<1>1. PICK c \in Callable(elf) : elf.symbols[c].address = address
    BY DEF RequestedAddresses
<1>2. address \in Nat
    <2>1. elf.symbols \in Seq(SymbolRecord) /\ c \in DOMAIN elf.symbols
        BY DEF LinkedElf, SymbolRecord, Callable
    <2> QED
        BY <1>1, <2>1, SymbolTypes
<1>3. elf.segments \in SegmentRecords
    BY DEF LinkedElf, SegmentRecords, SegmentRecord
<1>4. k \in DOMAIN elf.segments /\ g.address <= address /\ address < g.address + g.size
    BY <1>2, <1>3, FoundSegment
<1>5. g.address \in Nat /\ g.size \in Nat
    BY <1>3, <1>4, SegmentTypes
<1>6. address \in g.address..(g.address + g.size - 1)
    <2> HIDE DEF g
    <2> QED
        BY <1>2, <1>4, <1>5
<1>7. g.exec
    BY <1>1, <1>4, <1>6 DEF LinkedElf
<1> QED
    BY <1>2, <1>4, <1>6, <1>7 DEF InCode, IsCode

LEMMA ProbeAfter ==
    ASSUME CommandNext
    PROVE  ProbeResolvesToItself'
<1> SUFFICES ASSUME Ran({"profile"})',
                    AlignedCode(command'.module.elf, command'.module.page),
                    OneName(command'.module.elf, outcome'.value.address)
             PROVE  LET m == command'.module
                        address == outcome'.value.address
                        maps == LoadedMaps(m.elf, m.bias, m.page)
                    IN /\ ProbedAddresses(maps, outcome'.value.offset) = {m.bias + address}
                       /\ \A a \in Body(m.elf, address) :
                             OffcpuFrames(m.elf, maps, <<m.bias + a>>, command'.name) =
                                <<command'.name>>
    BY DEF ProbeResolvesToItself
<1>1. ProbeSymbol
    BY DEF Ran, CommandNext, View, Discover, ValidateFile, Doctor, Symbols
<1>2. PICK module \in Elves, name \in Names :
            /\ command' = [kind |-> "profile", module |-> module, name |-> name]
            /\ outcome' = IF SelectSymbol(module.elf, name).status = "selected"
                          THEN Ok(SelectSymbol(module.elf, name))
                          ELSE Refused(SelectSymbol(module.elf, name).status)
    BY <1>1 DEF ProbeSymbol
<1> DEFINE elf == module.elf
           page == module.page
           bias == module.bias
           address == SelectSymbol(elf, name).address
           k == SegmentOfAddress(elf, address)
           g == elf.segments[k]
           maps == LoadedMaps(elf, bias, page)
<1>3. /\ SelectSymbol(elf, name).status = "selected"
      /\ outcome'.value = SelectSymbol(elf, name)
      /\ command'.module = module /\ command'.name = name
    BY <1>2 DEF Ran, Ok, Refused
<1>4. /\ address \in RequestedAddresses(elf, name) /\ k # 0
      /\ SelectSymbol(elf, name).offset = g.offset + (address - g.address)
    BY <1>3, SelectedSymbol
<1>5. bias \in Nat /\ page \in Nat \ {0} /\ LinkedElf(elf, page)
    BY CommandAssumption
<1>6. AlignedCode(elf, page) /\ OneName(elf, address)
    BY <1>3
<1>7. address \in Nat /\ InCode(elf, page, k, address)
    <2> HIDE DEF elf, page, address
    <2> QED
        BY <1>4, <1>5, <1>6, SelectedIsCode
<1>8. ProbedAddresses(maps, SelectSymbol(elf, name).offset) = {bias + address}
    <2> HIDE DEF elf, page, address, k, bias
    <2>1. ProbedAddresses(maps, OffsetOf(elf, k, address)) = {bias + address}
        BY <1>5, <1>7, ProbedOnce
    <2> QED
        BY <1>4, <2>1 DEF OffsetOf
<1>9. ASSUME NEW a \in Body(elf, address)
      PROVE  OffcpuFrames(elf, maps, <<bias + a>>, name) = <<name>>
    <2> HIDE DEF elf, page, address, bias
    <2>1. FrameLabel(elf, maps, bias + a) = name
        BY <1>4, <1>5, <1>6, <1>7, BodyIsNamed
    <2> QED
        BY <2>1, NamedStack
<1> QED
    BY <1>3, <1>8, <1>9

\* In a module whose code is laid out in pages, and for an address that has one
\* name, the probe select_symbol computes fires at the entry of the function and
\* nowhere else, and every address of its body is shown under its own name, so
\* that capture_pid gives an off-CPU stack no second root; this for every
\* number of segments and symbols, every page size and every load address.
THEOREM ProbeAtOwnEntry == CommandSpec => []ProbeResolvesToItself
<1>1. CommandInit => ProbeResolvesToItself
    BY DEF CommandInit, NotRun, ProbeResolvesToItself, Ran
<1>2. ProbeResolvesToItself /\ [CommandNext]_commandVars => ProbeResolvesToItself'
    <2>1. CASE UNCHANGED commandVars
        BY <2>1 DEF commandVars, ProbeResolvesToItself, Ran
    <2> QED
        BY <2>1, ProbeAfter
<1> QED
    BY <1>1, <1>2, PTL DEF CommandSpec

-----------------------------------------------------------------------------
(* Sums over finite sets *)

Some(T) == CHOOSE x \in T : TRUE

\* The recursion of MapThenSumSet, for numbers w given by a function.
Sums(w, S, it) ==
    it = [T \in SUBSET S |-> IF T = {} THEN 0 ELSE w[Some(T)] + it[T \ {Some(T)}]]

LEMMA TotalWeightIs ==
    ASSUME NEW S
    PROVE  TotalWeight(S) =
              (CHOOSE it : it = [T \in SUBSET S |->
                  IF T = {} THEN 0 ELSE Some(T).weight + it[T \ {Some(T)}]])[S]
BY DEF TotalWeight, MapThenSumSet, MapThenFoldSet, Some

LEMMA SumIs ==
    ASSUME NEW S, NEW w
    PROVE  MapThenSumSet(LAMBDA x : w[x], S) = (CHOOSE it : Sums(w, S, it))[S]
BY DEF MapThenSumSet, MapThenFoldSet, Some, Sums

\* Induction over the subsets of a finite set, on a set instead of a formula.
LEMMA SubsetInduction ==
    ASSUME NEW S, IsFiniteSet(S), NEW F,
           \A T \in SUBSET S : (\A U \in SUBSET T : U # T => U \in F) => T \in F
    PROVE  SUBSET S \subseteq F
<1> DEFINE N == {n \in Nat : \A T \in SUBSET S : Cardinality(T) < n => T \in F}
<1>1. \A T \in SUBSET S : IsFiniteSet(T) /\ Cardinality(T) \in Nat
    BY FS_Subset, FS_CardinalityType
<1>2. 0 \in N
    BY <1>1
<1>3. ASSUME NEW n \in Nat, n \in N PROVE n + 1 \in N
  <2>1. ASSUME NEW T \in SUBSET S, Cardinality(T) < n + 1 PROVE T \in F
    <3>1. ASSUME NEW U \in SUBSET T, U # T PROVE U \in F
      <4>1. Cardinality(U) <= Cardinality(T) /\ Cardinality(U) # Cardinality(T)
        BY <1>1, <3>1, FS_Subset
      <4>2. U \in SUBSET S /\ Cardinality(U) \in Nat /\ Cardinality(T) \in Nat
        BY <1>1, <2>1
      <4> QED
        BY <1>3, <2>1, <4>1, <4>2
    <3> QED
      BY <3>1
  <2> QED
    BY <2>1
<1> HIDE DEF N
<1>4. Nat \subseteq N
    BY <1>2, <1>3, InductiveSet
<1>5. ASSUME NEW T \in SUBSET S PROVE T \in F
  <2>1. Cardinality(T) + 1 \in N /\ Cardinality(T) \in Nat
    BY <1>1, <1>4
  <2> QED
    BY <2>1 DEF N
<1> QED
    BY <1>5

Step(w, it, T) == IF T = {} THEN 0 ELSE w[Some(T)] + it[T \ {Some(T)}]

LEMMA SomeIsIn ==
    ASSUME NEW T, T # {}
    PROVE  Some(T) \in T /\ T \ {Some(T)} \in SUBSET T /\ T \ {Some(T)} # T
BY DEF Some

\* The recursion has a solution: the sum exists, however large the set.
LEMMA SumsExist ==
    ASSUME NEW S, IsFiniteSet(S), NEW w
    PROVE  \E it : Sums(w, S, it)
<1> DEFINE Below(n) == {T \in SUBSET S : Cardinality(T) <= n}
           N == {n \in Nat : \E f : \A T \in Below(n) : f[T] = Step(w, f, T)}
<1>1. \A T \in SUBSET S : IsFiniteSet(T) /\ Cardinality(T) \in Nat
    BY FS_Subset, FS_CardinalityType
<1>2. 0 \in N
  <2>1. ASSUME NEW T \in Below(0) PROVE T = {}
    <3>1. IsFiniteSet(T) /\ Cardinality(T) = 0
      BY <1>1
    <3> QED
      BY <3>1, FS_EmptySet
  <2>2. \A T \in Below(0) : [U \in SUBSET S |-> 0][T] = Step(w, [U \in SUBSET S |-> 0], T)
    BY <2>1 DEF Step
  <2> QED
    BY <2>2
<1>3. ASSUME NEW n \in Nat, n \in N PROVE n + 1 \in N
  <2>1. PICK f : \A T \in Below(n) : f[T] = Step(w, f, T)
    BY <1>3
  <2> DEFINE g == [T \in SUBSET S |-> IF Cardinality(T) <= n THEN f[T] ELSE Step(w, f, T)]
  <2>2. ASSUME NEW T \in Below(n + 1) PROVE g[T] = Step(w, f, T)
    BY <2>1
  <2>3. ASSUME NEW T \in Below(n + 1), T # {} PROVE g[T \ {Some(T)}] = f[T \ {Some(T)}]
    <3>1. T \in SUBSET S /\ Some(T) \in T
      BY <2>3, SomeIsIn
    <3>2. Cardinality(T \ {Some(T)}) = Cardinality(T) - 1
      BY <1>1, <3>1, FS_RemoveElement
    <3>3. T \ {Some(T)} \in SUBSET S /\ Cardinality(T \ {Some(T)}) <= n
      BY <1>1, <2>3, <3>1, <3>2
    <3> QED
      BY <3>3
  <2> HIDE DEF g
  <2>4. \A T \in Below(n + 1) : g[T] = Step(w, g, T)
    BY <2>2, <2>3 DEF Step
  <2> QED
    BY <2>4
<1> HIDE DEF N
<1>4. Cardinality(S) \in N
    BY <1>1, <1>2, <1>3, InductiveSet
<1>5. PICK f : \A T \in SUBSET S : f[T] = Step(w, f, T)
  <2>1. SUBSET S \subseteq Below(Cardinality(S))
    BY FS_Subset
  <2> QED
    BY <1>4, <2>1 DEF N
<1> DEFINE it == [T \in SUBSET S |-> f[T]]
<1>6. \A T \in SUBSET S : it[T] = Step(w, it, T)
  <2>1. \A T \in SUBSET S : T # {} => it[T \ {Some(T)}] = f[T \ {Some(T)}]
    BY SomeIsIn
  <2> QED
    BY <1>5, <2>1 DEF Step
<1>7. it = [T \in SUBSET S |-> it[T]]
    OBVIOUS
<1> HIDE DEF it
<1>8. Sums(w, S, it)
    BY <1>6, <1>7 DEF Sums, Step
<1> QED
    BY <1>8

Unfolds(w, S, it) ==
    /\ it[{}] = 0
    /\ \A T \in SUBSET S : T # {} => it[T] = w[Some(T)] + it[T \ {Some(T)}]

LEMMA SumsStep ==
    ASSUME NEW S, NEW w, NEW it, Sums(w, S, it)
    PROVE  Unfolds(w, S, it)
<1>1. PICK g : g = it
    OBVIOUS
<1>2. g = [T \in SUBSET S |-> IF T = {} THEN 0 ELSE w[Some(T)] + g[T \ {Some(T)}]]
    BY <1>1 DEF Sums
<1>3. \A T \in SUBSET S : g[T] = IF T = {} THEN 0 ELSE w[Some(T)] + g[T \ {Some(T)}]
    BY <1>2
<1> QED
    BY <1>1, <1>3 DEF Unfolds

\* Whatever satisfies the recursion below T has the same sum there.
LEMMA SumsAgree ==
    ASSUME NEW S, IsFiniteSet(S), NEW w, NEW it, Sums(w, S, it), NEW T \in SUBSET S,
           NEW v, NEW jt, Sums(v, T, jt), \A x \in T : v[x] = w[x]
    PROVE  jt[T] = it[T]
<1> DEFINE F == {U \in SUBSET T : jt[U] = it[U]}
<1>0. /\ jt[{}] = 0 /\ it[{}] = 0
      /\ \A U \in SUBSET T : U # {} => jt[U] = v[Some(U)] + jt[U \ {Some(U)}]
      /\ \A U \in SUBSET S : U # {} => it[U] = w[Some(U)] + it[U \ {Some(U)}]
  <2>1. Unfolds(v, T, jt) /\ Unfolds(w, S, it)
    BY SumsStep
  <2> QED
    BY <2>1 DEF Unfolds
<1>1. ASSUME NEW U \in SUBSET T, \A V \in SUBSET U : V # U => V \in F PROVE U \in F
  <2>1. CASE U = {}
    BY <1>0, <2>1
  <2>2. CASE U # {}
    <3>1. Some(U) \in U /\ U \ {Some(U)} \in F
      BY <1>1, <2>2, SomeIsIn
    <3>2. jt[U] = v[Some(U)] + jt[U \ {Some(U)}]
      BY <1>0, <2>2
    <3>3. it[U] = w[Some(U)] + it[U \ {Some(U)}]
      BY <1>0, <2>2
    <3> QED
      BY <3>1, <3>2, <3>3
  <2> QED
    BY <2>1, <2>2
<1>2. IsFiniteSet(T)
    BY FS_Subset
<1> HIDE DEF F
<1>3. SUBSET T \subseteq F
    BY <1>1, <1>2, SubsetInduction
<1>4. T \in F
    BY <1>3
<1> QED
    BY <1>4 DEF F

LEMMA SumsType ==
    ASSUME NEW S, IsFiniteSet(S), NEW w, NEW it, Sums(w, S, it), \A x \in S : w[x] \in Nat
    PROVE  \A T \in SUBSET S : it[T] \in Nat
<1> DEFINE F == {T \in SUBSET S : it[T] \in Nat}
<1>1. ASSUME NEW T \in SUBSET S, \A U \in SUBSET T : U # T => U \in F PROVE T \in F
  <2>1. CASE T = {}
    BY <2>1, SumsStep DEF Unfolds
  <2>2. CASE T # {}
    <3>1. Some(T) \in T /\ T \ {Some(T)} \in F
      BY <1>1, <2>2, SomeIsIn
    <3>2. it[T] = w[Some(T)] + it[T \ {Some(T)}]
      BY <2>2, SumsStep DEF Unfolds
    <3> QED
      BY <3>1, <3>2
  <2> QED
    BY <2>1, <2>2
<1> HIDE DEF F
<1>2. SUBSET S \subseteq F
    BY <1>1, SubsetInduction
<1> QED
    BY <1>2 DEF F

\* A sum does not depend on the order in which its terms are taken.
LEMMA SumsAny ==
    ASSUME NEW S, IsFiniteSet(S), NEW w, NEW it, Sums(w, S, it), \A x \in S : w[x] \in Nat
    PROVE  \A T \in SUBSET S : \A x \in T : it[T] = w[x] + it[T \ {x}]
<1> DEFINE F == {T \in SUBSET S : \A x \in T : it[T] = w[x] + it[T \ {x}]}
<1>0. \A T \in SUBSET S : T # {} => it[T] = w[Some(T)] + it[T \ {Some(T)}]
    BY SumsStep DEF Unfolds
<1>1. ASSUME NEW T \in SUBSET S, \A U \in SUBSET T : U # T => U \in F PROVE T \in F
  <2>1. ASSUME NEW x \in T PROVE it[T] = w[x] + it[T \ {x}]
    <3>0. Some(T) \in T /\ it[T] = w[Some(T)] + it[T \ {Some(T)}]
      BY <1>0, <2>1, SomeIsIn
    <3>1. PICK y \in T : it[T] = w[y] + it[T \ {y}]
      BY <3>0
    <3>2. CASE x # y
      <4>1. PICK V \in SUBSET S : V = (T \ {x}) \ {y} /\ V = (T \ {y}) \ {x}
        OBVIOUS
      <4>2. T \ {x} \in F /\ T \ {y} \in F
        BY <1>1, <2>1
      <4>3. it[T \ {x}] = w[y] + it[V] /\ it[T \ {y}] = w[x] + it[V]
        BY <3>2, <4>1, <4>2
      <4>4. it[V] \in Nat /\ w[x] \in Nat /\ w[y] \in Nat
        BY SumsType
      <4> QED
        BY <3>1, <4>3, <4>4
    <3> QED
      BY <3>1, <3>2
  <2> QED
    BY <2>1
<1> HIDE DEF F
<1>2. SUBSET S \subseteq F
    BY <1>1, SubsetInduction
<1> QED
    BY <1>2 DEF F

LEMMA SumsUnion ==
    ASSUME NEW S, IsFiniteSet(S), NEW w, NEW it, Sums(w, S, it), \A x \in S : w[x] \in Nat,
           NEW T \in SUBSET S
    PROVE  \A U \in SUBSET S : T \cap U = {} => it[T \cup U] = it[T] + it[U]
<1> DEFINE F == {U \in SUBSET S : T \cap U = {} => it[T \cup U] = it[T] + it[U]}
<1>0. it[{}] = 0 /\ \A V \in SUBSET S : it[V] \in Nat
  <2>1. it[{}] = 0
    BY SumsStep DEF Unfolds
  <2> QED
    BY <2>1, SumsType
<1>1. ASSUME NEW U \in SUBSET S, \A V \in SUBSET U : V # U => V \in F PROVE U \in F
  <2>1. CASE U = {}
    <3>1. T \cup U = T /\ it[U] = 0 /\ it[T] \in Nat
      BY <1>0, <2>1
    <3>2. it[T \cup U] = it[T]
      BY Zenon, <3>1
    <3> QED
      BY <3>1, <3>2
  <2>2. ASSUME U # {}, T \cap U = {} PROVE it[T \cup U] = it[T] + it[U]
    <3>1. PICK x \in U : TRUE
      BY <2>2
    <3>2. /\ U \ {x} \in SUBSET S /\ U \ {x} \in SUBSET U /\ U \ {x} # U
          /\ T \cap (U \ {x}) = {} /\ (T \cup U) \ {x} = T \cup (U \ {x})
      BY <2>2, <3>1
    <3>3. it[T \cup (U \ {x})] = it[T] + it[U \ {x}]
      BY <1>1, <3>2
    <3>4. it[U] = w[x] + it[U \ {x}]
      BY <3>1, SumsAny
    <3>5. it[T \cup U] = w[x] + it[T \cup (U \ {x})]
      <4>1. T \cup U \in SUBSET S /\ x \in T \cup U
        BY <3>1
      <4>2. it[T \cup U] = w[x] + it[(T \cup U) \ {x}]
        BY <4>1, SumsAny
      <4> QED
        BY <3>2, <4>2
    <3>6. it[U \ {x}] \in Nat /\ it[T] \in Nat /\ w[x] \in Nat
      BY <1>0, <3>1, <3>2
    <3> QED
      BY <3>3, <3>4, <3>5, <3>6
  <2> QED
    BY <2>1, <2>2
<1> HIDE DEF F
<1>2. SUBSET S \subseteq F
    BY <1>1, SubsetInduction
<1> QED
    BY <1>2 DEF F

LEMMA SumsMonotone ==
    ASSUME NEW S, IsFiniteSet(S), NEW w, NEW it, Sums(w, S, it), \A x \in S : w[x] \in Nat,
           NEW T \in SUBSET S, NEW U \in SUBSET T
    PROVE  it[U] <= it[T]
<1>0. U \in SUBSET S /\ T \ U \in SUBSET S /\ U \cap (T \ U) = {}
    OBVIOUS
<1>1. T = U \cup (T \ U)
    OBVIOUS
<1>2. it[U \cup (T \ U)] = it[U] + it[T \ U]
    BY <1>0, SumsUnion
<1>3. it[U] \in Nat /\ it[T \ U] \in Nat
    BY <1>0, SumsType
<1>4. it[T] = it[U \cup (T \ U)]
    BY Zenon, <1>1
<1> QED
    BY <1>2, <1>3, <1>4

\* v[n] is the sum over part[n], for each n in B, and the parts share nothing.
Parted(S, it, B, part, v) ==
    /\ \A n \in B : part[n] \in SUBSET S /\ v[n] = it[part[n]]
    /\ \A m, n \in B : m # n => part[m] \cap part[n] = {}

\* A sum of sums over sets that share nothing is the sum over their union.
LEMMA SumsOfSums ==
    ASSUME NEW S, IsFiniteSet(S), NEW w, NEW it, Sums(w, S, it), \A x \in S : w[x] \in Nat,
           NEW B, IsFiniteSet(B), NEW part, NEW v, NEW jt, Sums(v, B, jt), Parted(S, it, B, part, v)
    PROVE  jt[B] = it[UNION {part[n] : n \in B}]
<1> DEFINE All(D) == UNION {part[n] : n \in D}
           F == {D \in SUBSET B : jt[D] = it[All(D)]}
<1>0. /\ it[{}] = 0 /\ jt[{}] = 0
      /\ \A D \in SUBSET B : D # {} => jt[D] = v[Some(D)] + jt[D \ {Some(D)}]
  <2>1. Unfolds(w, S, it) /\ Unfolds(v, B, jt)
    BY SumsStep
  <2> QED
    BY <2>1 DEF Unfolds
<1>00. \A T, U \in SUBSET S : T \cap U = {} => it[T \cup U] = it[T] + it[U]
    BY SumsUnion
<1>1. ASSUME NEW D \in SUBSET B, \A E \in SUBSET D : E # D => E \in F PROVE D \in F
  <2>1. CASE D = {}
    <3>1. All(D) = {}
      BY <2>1
    <3> QED
      BY <1>0, <2>1, <3>1
  <2>2. CASE D # {}
    <3>0. Some(D) \in D /\ jt[D] = v[Some(D)] + jt[D \ {Some(D)}]
      BY <1>0, <2>2, SomeIsIn
    <3>1. PICK n \in D : jt[D] = v[n] + jt[D \ {n}]
      BY <3>0
    <3>2. PICK E \in SUBSET B : E = D \ {n}
      OBVIOUS
    <3>3. jt[E] = it[All(E)]
      BY <1>1, <3>2
    <3>4. All(D) = part[n] \cup All(E)
      BY <3>1, <3>2
    <3>5. part[n] \in SUBSET S /\ All(E) \in SUBSET S /\ part[n] \cap All(E) = {}
      BY <3>1, <3>2 DEF Parted
    <3> HIDE DEF All
    <3>6. it[part[n] \cup All(E)] = it[part[n]] + it[All(E)]
      BY <1>00, <3>5
    <3>7. it[All(D)] = it[part[n] \cup All(E)]
      BY Zenon, <3>4
    <3> QED
      BY <3>1, <3>2, <3>3, <3>6, <3>7 DEF Parted
  <2> QED
    BY <2>1, <2>2
<1> HIDE DEF F
<1>2. SUBSET B \subseteq F
    BY <1>1, SubsetInduction
<1>3. B \in F
    BY <1>2
<1> QED
    BY <1>3 DEF F

\* TotalWeight of part of a set is the sum over that part.
LEMMA WeightIsSum ==
    ASSUME NEW S, IsFiniteSet(S), NEW w, w = [s \in S |-> s.weight],
           NEW it, Sums(w, S, it), NEW T \in SUBSET S
    PROVE  TotalWeight(T) = it[T]
<1> DEFINE v == [s \in T |-> s.weight]
           Q(j) == j = [U \in SUBSET T |->
                           IF U = {} THEN 0 ELSE Some(U).weight + j[U \ {Some(U)}]]
<1>1. \A j : Sums(v, T, j) <=> Q(j)
  <2> SUFFICES ASSUME NEW j PROVE Sums(v, T, j) <=> Q(j)
    OBVIOUS
  <2>1. \A U \in SUBSET T : U # {} => v[Some(U)] = Some(U).weight
    BY SomeIsIn
  <2>2. [U \in SUBSET T |-> IF U = {} THEN 0 ELSE v[Some(U)] + j[U \ {Some(U)}]]
        = [U \in SUBSET T |-> IF U = {} THEN 0 ELSE Some(U).weight + j[U \ {Some(U)}]]
    BY <2>1
  <2> QED
    BY <2>2 DEF Sums
<1>2. \A x \in T : v[x] = w[x]
    OBVIOUS
<1> HIDE DEF v
<1>3. \E j : Q(j)
    BY <1>1, FS_Subset, SumsExist
<1>4. PICK j : j = (CHOOSE k : Q(k))
    OBVIOUS
<1>5. Q(j)
    BY <1>3, <1>4
<1>6. TotalWeight(T) = j[T]
    BY <1>4, TotalWeightIs
<1>7. Sums(v, T, j)
    BY <1>1, <1>5
<1> QED
    BY <1>2, <1>6, <1>7, SumsAgree

LEMMA ValueIsSum ==
    ASSUME NEW B, IsFiniteSet(B), NEW v
    PROVE  \E jt : Sums(v, B, jt) /\ SumOver(v, B) = jt[B]
<1>1. PICK jt : jt = (CHOOSE it : Sums(v, B, it))
    OBVIOUS
<1>2. Sums(v, B, jt)
    BY <1>1, SumsExist
<1>3. SumOver(v, B) = jt[B]
    BY <1>1, SumIs DEF SumOver
<1> QED
    BY <1>2, <1>3

-----------------------------------------------------------------------------
(* The flame tree *)

Frame == [label : STRING, fn : Nat]

LEMMA PathType ==
    ASSUME NEW q, NEW name, NEW frames \in Seq(Frame), Starts(q, name, frames) # {}
    PROVE  Path(q, name, frames) \in Seq(STRING)
<1>0. PICK len \in Nat : len = Len(frames) /\ DOMAIN frames = 1..len
    OBVIOUS
<1>1. PICK starts \in SUBSET (1..len) : starts = Starts(q, name, frames)
    BY <1>0 DEF Starts
<1>2. PICK from \in 1..len : from = Min(starts)
  <2>1. starts \in SUBSET Nat /\ starts # {}
    BY <1>1
  <2> QED
    BY <2>1, MinOfNaturals
<1>3. PICK n \in Nat : n = len - from + 1
    BY <1>2
<1>4. Path(q, name, frames) = [k \in 1..n |-> frames[from + k - 1].label]
    BY <1>0, <1>1, <1>2, <1>3 DEF Path
<1>5. \A k \in 1..n : frames[from + k - 1].label \in STRING
  <2>1. \A k \in 1..n : from + k - 1 \in 1..len
    BY <1>3
  <2>2. \A k \in 1..len : frames[k] \in Frame
    BY <1>0
  <2> QED
    BY <2>1, <2>2 DEF Frame
<1>6. [k \in 1..n |-> frames[from + k - 1].label] \in Seq(STRING)
    BY <1>5
<1> QED
    BY <1>4, <1>6

\* The sample's path goes through the node.
Prefix(node, path) == Len(node) <= Len(path) /\ node = SubSeq(path, 1, Len(node))

LEMMA PrefixFacts ==
    ASSUME NEW path \in Seq(STRING)
    PROVE  /\ Prefix(<<>>, path)
           /\ \A m, n \in Seq(STRING) : Len(m) = Len(n) /\ Prefix(m, path) /\ Prefix(n, path) => m = n
           /\ \A m, n \in Seq(STRING) :
                 Len(n) = Len(m) + 1 /\ Front(n) = m /\ Prefix(n, path) => Prefix(m, path)
           /\ \A k \in 1..Len(path) : SubSeq(path, 1, k) \in Seq(STRING)
<1>1. Prefix(<<>>, path)
    BY DEF Prefix
<1>2. \A m, n \in Seq(STRING) : Len(m) = Len(n) /\ Prefix(m, path) /\ Prefix(n, path) => m = n
    BY DEF Prefix
<1>3. ASSUME NEW m \in Seq(STRING), NEW n \in Seq(STRING), Len(n) = Len(m) + 1, Front(n) = m, Prefix(n, path)
      PROVE  Prefix(m, path)
  <2>1. PICK k \in Nat : k = Len(m) /\ Len(n) = k + 1 /\ k + 1 <= Len(path) /\ n = SubSeq(path, 1, k + 1)
    BY <1>3 DEF Prefix
  <2>2. m = SubSeq(n, 1, k)
    BY <1>3, <2>1 DEF Front
  <2>3. \A i \in 1..k : m[i] = path[i]
    BY <2>1, <2>2
  <2>4. SubSeq(path, 1, k) \in Seq(STRING) /\ Len(SubSeq(path, 1, k)) = k
        /\ \A i \in 1..k : SubSeq(path, 1, k)[i] = path[i]
    BY <2>1
  <2>5. m = SubSeq(path, 1, k)
    BY <1>3, <2>1, <2>3, <2>4
  <2> QED
    BY <2>1, <2>5 DEF Prefix
<1>4. \A k \in 1..Len(path) : SubSeq(path, 1, k) \in Seq(STRING)
    OBVIOUS
<1> QED
    BY <1>1, <1>2, <1>3, <1>4

LEMMA FiniteRange ==
    ASSUME NEW S, IsFiniteSet(S), NEW f
    PROVE  IsFiniteSet({f[x] : x \in S})
<1> DEFINE T == {f[x] : x \in S}
           g == [x \in S |-> f[x]]
<1>1. g \in Surjection(S, T)
    BY DEF Surjection
<1> HIDE DEF g, T
<1>2. IsFiniteSet(T)
    BY <1>1, FS_Surjection
<1> QED
    BY <1>2 DEF T

\* The nodes that the paths of the samples C make, and the samples of C whose
\* path goes through one.
Tops(C, path) ==
    {<<>>} \cup UNION {{SubSeq(path[s], 1, k) : k \in 1..Len(path[s])} : s \in C}

Under(C, path, node) == {s \in C : Prefix(node, path[s])}

Tree(C, path) == [node \in Tops(C, path) |-> TotalWeight(Under(C, path, node))]

Pathed(S, path) == IsFiniteSet(S) /\ \A s \in S : s.weight \in Nat /\ path[s] \in Seq(STRING)

\* What the nodes of a tree are worth, as sums over its samples.
LEMMA TreeFacts ==
    ASSUME NEW S, NEW path, Pathed(S, path), NEW w, w = [s \in S |-> s.weight],
           NEW it, Sums(w, S, it), NEW C \in SUBSET S
    PROVE  /\ IsFiniteSet(Tops(C, path)) /\ Tops(C, path) \subseteq Seq(STRING)
           /\ <<>> \in Tops(C, path)
           /\ \A node \in Seq(STRING) : ValueAt(Tree(C, path), node) = it[Under(C, path, node)]
<1>1. IsFiniteSet(C) /\ \A s \in C : path[s] \in Seq(STRING)
    BY FS_Subset DEF Pathed
<1>2. Tops(C, path) \subseteq Seq(STRING) /\ <<>> \in Tops(C, path)
  <2>1. ASSUME NEW node \in Tops(C, path) PROVE node \in Seq(STRING)
    <3>1. CASE node = <<>>
      BY <3>1
    <3>2. CASE node # <<>>
      <4>1. PICK s \in C : \E k \in 1..Len(path[s]) : node = SubSeq(path[s], 1, k)
        BY <3>2 DEF Tops
      <4> QED
        BY <1>1, <4>1, PrefixFacts
    <3> QED
      BY <3>1, <3>2
  <2>2. <<>> \in Tops(C, path)
    BY DEF Tops
  <2> QED
    BY <2>1, <2>2
<1>3. IsFiniteSet(Tops(C, path))
  <2> DEFINE cut == [s \in C |-> {SubSeq(path[s], 1, k) : k \in 1..Len(path[s])}]
             all == {cut[s] : s \in C}
  <2>1. ASSUME NEW s \in C PROVE IsFiniteSet(cut[s])
    <3> DEFINE f == [k \in 1..Len(path[s]) |-> SubSeq(path[s], 1, k)]
    <3>1. IsFiniteSet(1..Len(path[s]))
      BY <1>1, FS_Interval
    <3>2. cut[s] = {f[k] : k \in 1..Len(path[s])}
      OBVIOUS
    <3> HIDE DEF f, cut
    <3> QED
      BY <3>1, <3>2, FiniteRange
  <2>2. Tops(C, path) = {<<>>} \cup UNION all
    BY DEF Tops
  <2> HIDE DEF cut
  <2>3. IsFiniteSet(all) /\ \A T \in all : IsFiniteSet(T)
    BY <1>1, <2>1, FiniteRange
  <2> HIDE DEF all
  <2>4. IsFiniteSet(UNION all) /\ IsFiniteSet({<<>>})
    BY <2>3, FS_UNION, FS_Singleton
  <2>5. IsFiniteSet({<<>>} \cup UNION all)
    BY <2>4, FS_Union
  <2> QED
    BY <2>2, <2>5
<1>4. ASSUME NEW node \in Seq(STRING)
      PROVE  ValueAt(Tree(C, path), node) = it[Under(C, path, node)]
  <2>1. Under(C, path, node) \in SUBSET S
    BY DEF Under
  <2>2. CASE node \in Tops(C, path)
    <3>1. ValueAt(Tree(C, path), node) = TotalWeight(Under(C, path, node))
      BY <2>2 DEF ValueAt, Tree
    <3> QED
      BY <2>1, <3>1, WeightIsSum DEF Pathed
  <2>3. CASE node \notin Tops(C, path)
    <3>1. Under(C, path, node) = {}
      <4> SUFFICES ASSUME NEW s \in C, Prefix(node, path[s]) PROVE FALSE
        BY DEF Under
      <4>1. Len(node) \in 1..Len(path[s]) /\ node = SubSeq(path[s], 1, Len(node))
        BY <1>1, <1>2, <2>3 DEF Prefix
      <4>2. node \in {SubSeq(path[s], 1, k) : k \in 1..Len(path[s])}
        BY Zenon, <4>1
      <4>3. node \in UNION {{SubSeq(path[d], 1, k) : k \in 1..Len(path[d])} : d \in C}
        BY Zenon, <4>2
      <4> QED
        BY Zenon, <2>3, <4>3 DEF Tops
    <3>2. ValueAt(Tree(C, path), node) = 0
      BY <2>3 DEF ValueAt, Tree
    <3> QED
      BY <3>1, <3>2, SumsStep DEF Unfolds
  <2> QED
    BY <2>2, <2>3
<1> QED
    BY <1>2, <1>3, <1>4

\* The samples under the children of a node are apart, and under the node.
LEMMA ChildrenApart ==
    ASSUME NEW S, NEW path, Pathed(S, path), NEW C \in SUBSET S, NEW tree, tree = Tree(C, path),
           NEW node \in Seq(STRING), Tops(C, path) \subseteq Seq(STRING)
    PROVE  /\ \A m, n \in Children(tree, node) :
                 m # n => Under(C, path, m) \cap Under(C, path, n) = {}
           /\ \A n \in Children(tree, node) : Under(C, path, n) \subseteq Under(C, path, node)
<1>1. Children(tree, node) \subseteq Seq(STRING)
    BY DEF Children, Tree
<1>2. \A s \in C : path[s] \in Seq(STRING)
    BY DEF Pathed
<1>3. \A m, n \in Children(tree, node) :
         m # n => Under(C, path, m) \cap Under(C, path, n) = {}
  <2> SUFFICES ASSUME NEW m \in Children(tree, node), NEW n \in Children(tree, node), NEW s \in C,
                      Prefix(m, path[s]), Prefix(n, path[s])
               PROVE  m = n
    BY DEF Under
  <2>1. Len(m) = Len(n)
    BY DEF Children
  <2> QED
    BY <1>1, <1>2, <2>1, PrefixFacts
<1>4. \A n \in Children(tree, node) : Under(C, path, n) \subseteq Under(C, path, node)
  <2> SUFFICES ASSUME NEW n \in Children(tree, node), NEW s \in C, Prefix(n, path[s])
               PROVE  Prefix(node, path[s])
    BY DEF Under
  <2>1. Len(n) = Len(node) + 1 /\ Front(n) = node
    BY DEF Children
  <2> QED
    BY <1>1, <1>2, <2>1, PrefixFacts
<1> QED
    BY <1>3, <1>4

\* The three trees of a set of samples that is in two parts.
LEMMA TreeSums ==
    ASSUME NEW S, NEW path, Pathed(S, path), NEW On \in SUBSET S, NEW Off \in SUBSET S,
           On \cap Off = {}, NEW All, All = On \cup Off,
           NEW wall, wall = Tree(All, path)
    PROVE  /\ \A node \in DOMAIN wall :
                 /\ wall[node] = ValueAt(Tree(On, path), node) + ValueAt(Tree(Off, path), node)
                 /\ SumOver(wall, Children(wall, node)) <= wall[node]
           /\ wall[<<>>] = TotalWeight(On) + TotalWeight(Off)
<1>0. PICK w : w = [s \in S |-> s.weight]
    OBVIOUS
<1>1. IsFiniteSet(S) /\ \A s \in S : w[s] \in Nat /\ path[s] \in Seq(STRING)
    BY <1>0 DEF Pathed
<1>2. PICK it : Sums(w, S, it)
    BY <1>1, SumsExist
<1>3. All \in SUBSET S
    OBVIOUS
<1>4. /\ IsFiniteSet(Tops(All, path)) /\ Tops(All, path) \subseteq Seq(STRING)
      /\ <<>> \in Tops(All, path)
      /\ \A node \in Seq(STRING) : ValueAt(Tree(All, path), node) = it[Under(All, path, node)]
    BY <1>0, <1>2, <1>3, TreeFacts
<1>5. \A node \in Seq(STRING) : /\ ValueAt(Tree(On, path), node) = it[Under(On, path, node)]
                                /\ ValueAt(Tree(Off, path), node) = it[Under(Off, path, node)]
    BY <1>0, <1>2, TreeFacts
<1>6. /\ DOMAIN wall = Tops(All, path)
      /\ \A node \in DOMAIN wall : node \in Seq(STRING) /\ wall[node] = it[Under(All, path, node)]
  <2>1. DOMAIN wall = Tops(All, path)
    BY DEF Tree
  <2> QED
    BY <1>4, <2>1 DEF ValueAt
<1>7. \A T \in SUBSET S : \A U \in SUBSET S : T \cap U = {} => it[T \cup U] = it[T] + it[U]
    BY <1>1, <1>2, SumsUnion
<1>8. ASSUME NEW node \in DOMAIN wall
      PROVE  wall[node] = ValueAt(Tree(On, path), node) + ValueAt(Tree(Off, path), node)
  <2>1. /\ Under(On, path, node) \in SUBSET S /\ Under(Off, path, node) \in SUBSET S
        /\ Under(On, path, node) \cap Under(Off, path, node) = {}
        /\ Under(All, path, node) = Under(On, path, node) \cup Under(Off, path, node)
    BY DEF Under
  <2>2. it[Under(All, path, node)] = it[Under(On, path, node)] + it[Under(Off, path, node)]
    BY <1>7, <2>1
  <2> QED
    BY <1>5, <1>6, <2>2
<1>9. ASSUME NEW node \in DOMAIN wall
      PROVE  SumOver(wall, Children(wall, node)) <= wall[node]
  <2>1. PICK B \in SUBSET DOMAIN wall : B = Children(wall, node)
    BY DEF Children
  <2>2. IsFiniteSet(B)
    BY <1>4, <1>6, <2>1, FS_Subset
  <2>3. PICK jt : Sums(wall, B, jt) /\ SumOver(wall, B) = jt[B]
    BY <2>2, ValueIsSum
  <2>4. PICK part : part = [n \in B |-> Under(All, path, n)]
    OBVIOUS
  <2>5. /\ Parted(S, it, B, part, wall)
        /\ \A n \in B : part[n] \subseteq Under(All, path, node)
    <3>1. \A n \in B : part[n] = Under(All, path, n) /\ part[n] \in SUBSET S
      BY <1>3, <2>4 DEF Under
    <3>2. node \in Seq(STRING) /\ Tops(All, path) \subseteq Seq(STRING)
      BY <1>4, <1>6
    <3>3. /\ \A m, n \in Children(wall, node) :
                 m # n => Under(All, path, m) \cap Under(All, path, n) = {}
          /\ \A n \in Children(wall, node) : Under(All, path, n) \subseteq Under(All, path, node)
      BY ONLY <1>3, <3>2, ChildrenApart, Pathed(S, path), wall = Tree(All, path)
    <3>4. ASSUME NEW m \in B, NEW n \in B, m # n PROVE part[m] \cap part[n] = {}
      <4>1. Under(All, path, m) \cap Under(All, path, n) = {}
        BY Zenon, <2>1, <3>3, <3>4
      <4> QED
        BY Zenon, <3>1, <4>1
    <3>5. ASSUME NEW n \in B PROVE wall[n] = it[part[n]]
      <4>1. wall[n] = it[Under(All, path, n)]
        BY <1>6
      <4> QED
        BY Zenon, <3>1, <4>1
    <3>6. ASSUME NEW n \in B PROVE part[n] \subseteq Under(All, path, node)
      <4>1. Under(All, path, n) \subseteq Under(All, path, node)
        BY Zenon, <2>1, <3>3
      <4> QED
        BY Zenon, <3>1, <4>1
    <3> QED
      BY <3>1, <3>4, <3>5, <3>6 DEF Parted
  <2>6. jt[B] = it[UNION {part[n] : n \in B}]
    BY <1>1, <1>2, <2>2, <2>3, <2>5, SumsOfSums
  <2>7. UNION {part[n] : n \in B} \in SUBSET Under(All, path, node)
    BY <2>5
  <2>8. Under(All, path, node) \in SUBSET S
    BY <1>3 DEF Under
  <2>9. it[UNION {part[n] : n \in B}] <= it[Under(All, path, node)]
    BY <1>1, <1>2, <2>7, <2>8, SumsMonotone
  <2> QED
    BY <1>6, <2>1, <2>3, <2>6, <2>9
<1>10. wall[<<>>] = TotalWeight(On) + TotalWeight(Off)
  <2>1. Under(All, path, <<>>) = All
    BY <1>1, <1>3, PrefixFacts DEF Under
  <2>2. it[All] = it[On] + it[Off]
    BY <1>7
  <2>3. TotalWeight(On) = it[On] /\ TotalWeight(Off) = it[Off]
    BY <1>0, <1>1, <1>2, WeightIsSum
  <2> QED
    BY <1>4, <1>6, <2>1, <2>2, <2>3
<1> QED
    BY <1>8, <1>9, <1>10

\* The same query for another metric.
ForMetric(q, r, metric) ==
    /\ r.fn = q.fn /\ r.threads = q.threads /\ r.time = q.time /\ r.percentile = q.percentile
    /\ r.metric = metric

\* The samples of the selected invocations that are below the selected
\* function, and the path each has in the tree.
Shown(p, q, name) == {s \in SamplesOf(p, Selected(p, q)) : Starts(q, name, s.stack) # {}}

ShownPaths(p, q, name) == [s \in Shown(p, q, name) |-> Path(q, name, s.stack)]

Measuring(p, q, name, metric) == {s \in Shown(p, q, name) : Includes(metric, s.state)}

\* The metric chooses among the samples, and nothing else.
LEMMA MetricChooses ==
    ASSUME NEW p, NEW q, NEW name, NEW metric, NEW r, ForMetric(q, r, metric)
    PROVE  LET C == Measuring(p, q, name, metric)
               result == QueryResult(p, r, name)
           IN /\ result.tree = Tree(C, ShownPaths(p, q, name))
              /\ result.cpu = TotalWeight(InState(C, "OnCpu"))
              /\ result.offcpu = TotalWeight(InState(C, "OffCpu"))
<1> DEFINE C == Measuring(p, q, name, metric)
           path == ShownPaths(p, q, name)
           invs == Selected(p, q)
<1>1. Candidates(p, r) = Candidates(p, q)
    BY DEF Candidates, ForMetric
<1>2. Selected(p, r) = invs
    BY <1>1 DEF Selected, ForMetric
<1>3. \A frames : Starts(r, name, frames) = Starts(q, name, frames)
    BY DEF Starts, ForMetric
<1>4. \A frames : Path(r, name, frames) = Path(q, name, frames)
    BY <1>3 DEF Path
<1>5. Counted(p, r, name, invs) = C
    BY <1>3 DEF Counted, Measuring, Shown, ForMetric
<1>6. \A s \in C : path[s] = Path(r, name, s.stack)
    BY <1>4 DEF Measuring, ShownPaths
<1> HIDE DEF C, path, invs
<1>7. Nodes(p, r, name, invs) = Tops(C, path)
    BY <1>5, <1>6 DEF Nodes, Tops
<1>8. \A node : NodeValue(p, r, name, invs, node) = TotalWeight(Under(C, path, node))
  <2> SUFFICES ASSUME NEW node
               PROVE  NodeValue(p, r, name, invs, node) = TotalWeight(Under(C, path, node))
    OBVIOUS
  <2>1. {s \in C : Len(node) <= Len(Path(r, name, s.stack))
                   /\ node = SubSeq(Path(r, name, s.stack), 1, Len(node))} = Under(C, path, node)
    BY <1>6 DEF Under, Prefix
  <2> QED
    BY <1>5, <2>1 DEF NodeValue
<1>9. /\ QueryResult(p, r, name).tree =
            [node \in Nodes(p, r, name, invs) |-> NodeValue(p, r, name, invs, node)]
      /\ QueryResult(p, r, name).cpu = TotalWeight(InState(C, "OnCpu"))
      /\ QueryResult(p, r, name).offcpu = TotalWeight(InState(C, "OffCpu"))
    BY <1>2, <1>5 DEF QueryResult
<1>10. QueryResult(p, r, name).tree = Tree(C, path)
    BY <1>7, <1>8, <1>9 DEF Tree
<1> QED
    BY <1>9, <1>10 DEF C, path

Sampled(p) ==
    /\ IsFiniteSet(p.samples)
    /\ \A s \in p.samples : /\ s.weight \in Nat /\ s.state \in {"OnCpu", "OffCpu"}
                            /\ s.stack \in Seq(Frame)

LEMMA TreeConserves ==
    ASSUME NEW p, Sampled(p), NEW q, NEW name,
           NEW wall, NEW cpu, NEW offcpu,
           ForMetric(q, wall, "Wall"), ForMetric(q, cpu, "Cpu"), ForMetric(q, offcpu, "OffCpu")
    PROVE  Conserves(QueryResult(p, wall, name), QueryResult(p, cpu, name).tree,
                     QueryResult(p, offcpu, name).tree)
<1>1. PICK S : S = Shown(p, q, name)
    OBVIOUS
<1>2. PICK path : path = ShownPaths(p, q, name)
    OBVIOUS
<1>3. PICK On : On = {s \in S : s.state = "OnCpu"}
    OBVIOUS
<1>4. PICK Off : Off = {s \in S : s.state = "OffCpu"}
    OBVIOUS
<1>5. S \in SUBSET p.samples
    BY <1>1 DEF Shown, SamplesOf
<1>6. Pathed(S, path)
  <2>1. IsFiniteSet(S)
    BY <1>5, FS_Subset DEF Sampled
  <2>2. ASSUME NEW s \in S PROVE s.weight \in Nat /\ path[s] \in Seq(STRING)
    <3>1. s.weight \in Nat /\ s.stack \in Seq(Frame)
      BY <1>5 DEF Sampled
    <3>2. Starts(q, name, s.stack) # {} /\ path[s] = Path(q, name, s.stack)
      BY <1>1, <1>2 DEF Shown, ShownPaths
    <3> QED
      BY <3>1, <3>2, PathType
  <2> QED
    BY <2>1, <2>2 DEF Pathed
<1>7. \A s \in S : s.state = "OnCpu" \/ s.state = "OffCpu"
    BY <1>5 DEF Sampled
<1>8. /\ On \in SUBSET S /\ Off \in SUBSET S /\ On \cap Off = {}
      /\ S = On \cup Off
    BY <1>3, <1>4, <1>7
<1>9. /\ Measuring(p, q, name, "Wall") = S
      /\ Measuring(p, q, name, "Cpu") = On
      /\ Measuring(p, q, name, "OffCpu") = Off
    BY <1>1, <1>3, <1>4 DEF Measuring, Includes
<1>10. InState(S, "OnCpu") = On /\ InState(S, "OffCpu") = Off
    BY <1>3, <1>4 DEF InState
<1>11. PICK tree : tree = Tree(S, path)
    OBVIOUS
<1>12. /\ QueryResult(p, wall, name).tree = tree
       /\ QueryResult(p, wall, name).cpu = TotalWeight(On)
       /\ QueryResult(p, wall, name).offcpu = TotalWeight(Off)
       /\ QueryResult(p, cpu, name).tree = Tree(On, path)
       /\ QueryResult(p, offcpu, name).tree = Tree(Off, path)
    BY <1>2, <1>9, <1>10, <1>11, MetricChooses
<1>13. /\ \A node \in DOMAIN tree :
             /\ tree[node] = ValueAt(Tree(On, path), node) + ValueAt(Tree(Off, path), node)
             /\ SumOver(tree, Children(tree, node)) <= tree[node]
       /\ tree[<<>>] = TotalWeight(On) + TotalWeight(Off)
    BY <1>6, <1>8, <1>11, TreeSums
<1> QED
    BY <1>12, <1>13 DEF Conserves

\* A view queries for a metric, and for any other by the same fields.
LEMMA QueriesAfter ==
    ASSUME CommandNext, Ran({"view"})'
    PROVE  \A metric : ForMetric(outcome'.value, [outcome'.value EXCEPT !.metric = metric], metric)
<1>1. View /\ outcome'.status = "ok"
    BY DEF Ran, CommandNext, Discover, ValidateFile, Doctor, Symbols, ProbeSymbol
<1>2. PICK f \in Files, args \in ViewArgs, checked \in BOOLEAN :
            /\ ViewOutcome(f, args, checked).status = "ok"
            /\ outcome' = ViewOutcome(f, args, checked)
    BY <1>1, ViewStep
<1>3. PICK time :
         ViewOutcome(f, args, checked) =
            Ok([fn |-> f.profile.order[1], threads |-> args.threads, time |-> time,
                percentile |-> args.percentile, metric |-> args.metric])
    BY <1>2, ViewIsOfQuery
<1>4. outcome'.value = [fn |-> f.profile.order[1], threads |-> args.threads, time |-> time,
                        percentile |-> args.percentile, metric |-> args.metric]
    BY <1>2, <1>3 DEF Ok
<1> QED
    BY <1>4 DEF ForMetric

LEMMA TreeAfter ==
    ASSUME CommandNext
    PROVE  TreeConservesTime'
<1> SUFFICES ASSUME Ran({"view"})' PROVE TreeConservesTime'
    BY DEF TreeConservesTime
<1>1. PICK p : p = command'.file.profile
    OBVIOUS
<1>2. PICK q : q = outcome'.value
    OBVIOUS
<1>3. PICK name : name = FunctionName[q.fn]
    OBVIOUS
<1>4. Sampled(p)
    BY <1>1, ViewedAfter, SampleAssumption DEF Sampled, Frame
<1>5. \A metric : ForMetric(q, [q EXCEPT !.metric = metric], metric)
    BY <1>2, QueriesAfter
<1>7. Conserves(QueryResult(p, [q EXCEPT !.metric = "Wall"], name),
                QueryResult(p, [q EXCEPT !.metric = "Cpu"], name).tree,
                QueryResult(p, [q EXCEPT !.metric = "OffCpu"], name).tree)
    BY <1>4, <1>5, TreeConserves
<1> QED
    BY <1>1, <1>2, <1>3, <1>7 DEF TreeConservesTime

\* For every file and every query, the flame trees of the three metrics agree:
\* in every node wall time is CPU time and off-CPU time, no node counts less
\* than the nodes below it, and the root counts the totals execute_query prints.
THEOREM TreeKeepsTime == CommandSpec => []TreeConservesTime
<1>1. CommandInit => TreeConservesTime
    BY DEF CommandInit, NotRun, TreeConservesTime, Ran
<1>2. TreeConservesTime /\ [CommandNext]_commandVars => TreeConservesTime'
    <2>1. CASE UNCHANGED commandVars
        BY <2>1 DEF commandVars, TreeConservesTime, Ran
    <2> QED
        BY <2>1, TreeAfter
<1> QED
    BY <1>1, <1>2, PTL DEF CommandSpec

=============================================================================
