------------------------- MODULE SliceViewer_proofs -------------------------
(***************************************************************************)
(* What the page of a report keeps true, for every file, query and         *)
(* sequence of events.                                                     *)
(***************************************************************************)
EXTENDS SliceViewer, SliceCommand_proofs

-----------------------------------------------------------------------------
(* Arithmetic *)

LEMMA MinOfTwo ==
    ASSUME NEW a \in Int, NEW b \in Int
    PROVE  Min({a, b}) = IF a <= b THEN a ELSE b
<1> DEFINE least(z) == \A y \in {a, b} : z <= y
<1>1. \E z \in {a, b} : least(z)
    OBVIOUS
<1>2. Min({a, b}) = CHOOSE z \in {a, b} : least(z)
    BY DEF Min
<1>3. ASSUME NEW z \in {a, b}, least(z) PROVE z = IF a <= b THEN a ELSE b
    BY <1>3
<1> HIDE DEF least
<1> QED
    BY <1>1, <1>2, <1>3

LEMMA MaxOfTwo ==
    ASSUME NEW a \in Int, NEW b \in Int
    PROVE  Max({a, b}) = IF a <= b THEN b ELSE a
<1> DEFINE most(z) == \A y \in {a, b} : z >= y
<1>1. \E z \in {a, b} : most(z)
    OBVIOUS
<1>2. Max({a, b}) = CHOOSE z \in {a, b} : most(z)
    BY DEF Max
<1>3. ASSUME NEW z \in {a, b}, most(z) PROVE z = IF a <= b THEN b ELSE a
    BY <1>3
<1> HIDE DEF most
<1> QED
    BY <1>1, <1>2, <1>3

LEMMA ClampedValue ==
    ASSUME NEW low \in Int, NEW high \in Int, NEW x \in Int
    PROVE  /\ Clamp(low, high, x) \in Int
           /\ low <= Clamp(low, high, x)
           /\ low <= high => Clamp(low, high, x) <= high
           /\ low <= x /\ x <= high => Clamp(low, high, x) = x
<1>1. Min({high, x}) = (IF high <= x THEN high ELSE x) /\ Min({high, x}) \in Int
    BY MinOfTwo
<1>2. Clamp(low, high, x) = IF low <= Min({high, x}) THEN Min({high, x}) ELSE low
    BY <1>1, MaxOfTwo DEF Clamp
<1> QED
    BY <1>1, <1>2

\* A product of naturals grows with either factor.
LEMMA ProductOrder ==
    ASSUME NEW a \in Nat, NEW x \in Int, NEW y \in Int, x <= y
    PROVE  a * x <= a * y /\ a * x \in Int /\ a * y \in Int
<1>1. PICK gap \in Nat : y = x + gap
    <2>1. y - x \in Nat
        OBVIOUS
    <2> QED
        BY <2>1
<1>2. a * y = a * x + a * gap /\ a * x \in Int /\ a * gap \in Nat
    BY <1>1
<1> QED
    BY <1>2

\* What division returns.
LEMMA Quotient ==
    ASSUME NEW x \in Int, NEW y \in Nat \ {0}
    PROVE  /\ x \div y \in Int
           /\ y * (x \div y) <= x
           /\ x < y * ((x \div y) + 1)
           /\ x >= 0 => x \div y >= 0
<1>1. /\ x \div y \in Int /\ x % y \in 0..(y - 1)
      /\ x = y * (x \div y) + (x % y)
    OBVIOUS
<1>2. y * ((x \div y) + 1) = y * (x \div y) + y
    BY <1>1
<1>3. y * (x \div y) \in Int
    BY <1>1
<1> QED
    BY <1>1, <1>2, <1>3

-----------------------------------------------------------------------------
(* Sorted durations *)

\* Invocations that a profile may hold together.
Population(S) == IsFiniteSet(S) /\ Measured(S) /\ UniqueIds(S)

LEMMA RankIsStrict ==
    ASSUME NEW S, Population(S), NEW i \in S, NEW j \in S, Before(i, j)
    PROVE  Rank(i, S) < Rank(j, S)
<1> DEFINE before(k) == {l \in S : Before(l, k)}
<1>1. \A k \in S : Duration(k) \in Nat /\ k.id \in Nat
    BY DEF Population, Measured, Duration
<1>2. before(i) \subseteq before(j) /\ i \in before(j) /\ i \notin before(i)
    BY <1>1 DEF Before
<1>3. IsFiniteSet(before(j)) /\ IsFiniteSet(before(i))
    BY FS_Subset DEF Population
<1>4. Cardinality(before(i)) < Cardinality(before(j))
    BY <1>2, <1>3, FS_Subset, FS_CardinalityType
<1> QED
    BY <1>4 DEF Rank

LEMMA RankIsOwn ==
    ASSUME NEW S, Population(S), NEW i \in S, NEW j \in S, Rank(i, S) = Rank(j, S)
    PROVE  i = j
<1> SUFFICES ASSUME i # j PROVE FALSE
    OBVIOUS
<1>1. i.id # j.id /\ i.id \in Nat /\ j.id \in Nat
    BY DEF Population, UniqueIds, Measured
<1>2. Duration(i) \in Nat /\ Duration(j) \in Nat
    BY DEF Population, Measured, Duration
<1>3. Before(i, j) \/ Before(j, i)
    BY <1>1, <1>2 DEF Before
<1>4. Rank(i, S) \in Nat
    BY RankType DEF Population
<1> QED
    BY <1>3, <1>4, RankIsStrict

\* Every place in the order has its invocation.
LEMMA RanksFill ==
    ASSUME NEW S, Population(S), NEW k \in 0..(Cardinality(S) - 1)
    PROVE  \E i \in S : Rank(i, S) = k
<1> DEFINE n == Cardinality(S)
           f == [i \in S |-> Rank(i, S)]
           T == {f[i] : i \in S}
<1>1. n \in Nat
    BY FS_CardinalityType DEF Population
<1>2. \A i \in S : f[i] = Rank(i, S) /\ f[i] \in 0..(n - 1)
    BY <1>1, RankType, RankBound DEF Population
<1>3. DOMAIN f = S /\ f = [i \in S |-> f[i]]
    OBVIOUS
<1>4. \A i, j \in S : f[i] = f[j] => i = j
    BY RankIsOwn
<1> HIDE DEF f
<1>5. IsFiniteSet(S)
    BY DEF Population
<1>6. f \in [S -> T]
    BY <1>3
<1>7. f \in Surjection(S, T) /\ f \in Injection(S, T)
    BY <1>4, <1>6 DEF Surjection, Injection, IsInjective
<1>8. IsFiniteSet(T) /\ Cardinality(T) = n
    BY <1>5, <1>7, FS_Surjection
<1>9. IsFiniteSet(0..(n - 1)) /\ Cardinality(0..(n - 1)) = n
    BY <1>1, FS_Interval
<1>10. T \subseteq 0..(n - 1)
    BY <1>2
<1> HIDE DEF T
<1>11. T = 0..(n - 1)
    BY <1>8, <1>9, <1>10, FS_Subset
<1> QED
    BY <1>2, <1>11 DEF T

Sorted(d) == d \in Seq(Nat) /\ \A j, k \in 1..Len(d) : j <= k => d[j] <= d[k]

DurationsOf(d, S) ==
    /\ Sorted(d)
    /\ Len(d) = Cardinality(S)
    /\ d = <<>> <=> S = {}
    /\ \A i \in S : Rank(i, S) \in 0..(Len(d) - 1) /\ d[Rank(i, S) + 1] = Duration(i)

LEMMA DurationsAreSorted ==
    ASSUME NEW S, Population(S)
    PROVE  DurationsOf(Durations(S), S)
<1> DEFINE n == Cardinality(S)
           at(k) == CHOOSE i \in S : Rank(i, S) = k - 1
           d == Durations(S)
<1>1. n \in Nat
    BY FS_CardinalityType DEF Population
<1>2. d = [k \in 1..n |-> Duration(at(k))]
    BY DEF Durations
<1>3. ASSUME NEW k \in 1..n PROVE at(k) \in S /\ Rank(at(k), S) = k - 1
    <2>1. k - 1 \in 0..(n - 1)
        BY <1>1
    <2>2. \E i \in S : Rank(i, S) = k - 1
        BY <2>1, RanksFill
    <2> QED
        BY <2>2
<1>4. \A i \in S : Duration(i) \in Nat
    BY DEF Population, Measured, Duration
<1> HIDE DEF d, at
<1>5. d \in Seq(Nat) /\ Len(d) = n
    <2>1. \A k \in 1..n : Duration(at(k)) \in Nat
        BY <1>3, <1>4
    <2> QED
        BY <1>1, <1>2, <2>1
<1>6. ASSUME NEW j \in 1..n, NEW k \in 1..n, j <= k PROVE d[j] <= d[k]
    <2>1. d[j] = Duration(at(j)) /\ d[k] = Duration(at(k))
        BY <1>2
    <2>2. at(j) \in S /\ at(k) \in S /\ Rank(at(j), S) = j - 1 /\ Rank(at(k), S) = k - 1
        BY <1>3
    <2>3. CASE j = k
        BY <1>4, <2>1, <2>2, <2>3
    <2>4. CASE j < k
        <3>1. ~(Duration(at(k)) < Duration(at(j)))
            <4> SUFFICES ASSUME Duration(at(k)) < Duration(at(j)) PROVE FALSE
                OBVIOUS
            <4>1. Rank(at(k), S) <= Rank(at(j), S)
                BY <2>2, RankFollowsDuration DEF Population
            <4> QED
                BY <1>1, <2>2, <2>4, <4>1
        <3> QED
            BY <1>4, <2>1, <2>2, <3>1
    <2> QED
        BY <1>1, <1>6, <2>3, <2>4
<1>7. ASSUME NEW i \in S
      PROVE  Rank(i, S) \in 0..(n - 1) /\ d[Rank(i, S) + 1] = Duration(i)
    <2>1. Rank(i, S) \in Nat /\ Rank(i, S) < n
        BY RankType, RankBound DEF Population
    <2>2. Rank(i, S) + 1 \in 1..n
        BY <1>1, <2>1
    <2>3. at(Rank(i, S) + 1) \in S /\ Rank(at(Rank(i, S) + 1), S) = Rank(i, S)
        BY <1>3, <2>1, <2>2
    <2>4. at(Rank(i, S) + 1) = i
        BY <2>3, RankIsOwn
    <2> QED
        BY <1>1, <1>2, <2>1, <2>2, <2>4
<1>8. d = <<>> <=> S = {}
    <2>1. n = 0 <=> S = {}
        BY FS_EmptySet DEF Population
    <2> QED
        BY <1>5, <2>1
<1> QED
    BY <1>5, <1>6, <1>7, <1>8 DEF DurationsOf, Sorted, d

LEMMA SortedEnds ==
    ASSUME NEW d, Sorted(d), d # <<>>
    PROVE  /\ Len(d) \in Nat \ {0}
           /\ d[1] \in Nat /\ d[Len(d)] \in Nat /\ d[1] <= d[Len(d)]
           /\ \A k \in 1..Len(d) : d[k] \in Nat /\ d[1] <= d[k] /\ d[k] <= d[Len(d)]
<1>1. Len(d) \in Nat \ {0}
    BY DEF Sorted
<1>2. \A k \in 1..Len(d) : d[k] \in Nat
    BY DEF Sorted
<1> QED
    BY <1>1, <1>2 DEF Sorted

\* A percentile of durations, in hundredths, with its two ends.
LEMMA PercentileType ==
    ASSUME NEW d, Sorted(d), d # <<>>, NEW percent \in 0..100
    PROVE  /\ PercentileR7(d, percent)[1] \in Int
           /\ percent = 0 => PercentileR7(d, percent)[1] = 100 * d[1]
           /\ percent = 100 => PercentileR7(d, percent)[1] = 100 * d[Len(d)]
<1> DEFINE m == Len(d) - 1
           position == percent * m
           lower == d[(position \div 100) + 1]
           upper == d[((position + 99) \div 100) + 1]
<1>1. m \in Nat /\ Len(d) = m + 1 /\ \A k \in 1..(m + 1) : d[k] \in Nat
    BY SortedEnds
<1>2. PercentileR7(d, percent)[1] = 100 * lower + (upper - lower) * (position % 100)
    BY DEF PercentileR7
<1> HIDE DEF m
<1>3. position \in Nat /\ position <= 100 * m
    BY <1>1, ProductOrder
<1>4. (position \div 100) + 1 \in 1..(m + 1) /\ ((position + 99) \div 100) + 1 \in 1..(m + 1)
    <2> HIDE DEF position
    <2> QED
        BY <1>1, <1>3
<1>5. lower \in Nat /\ upper \in Nat
    BY <1>1, <1>4
<1>6. position % 100 \in Nat
    BY <1>3
<1>7. percent = 0 => position % 100 = 0 /\ lower = d[1]
    BY <1>1
<1>8. percent = 100 => position % 100 = 0 /\ lower = d[m + 1]
    BY <1>1
<1>9. PercentileR7(d, percent)[1] \in Int
    <2> HIDE DEF position, lower, upper
    <2> QED
        BY <1>2, <1>5, <1>6
<1>10. ASSUME position % 100 = 0 PROVE PercentileR7(d, percent)[1] = 100 * lower
    <2> HIDE DEF position, lower, upper
    <2> QED
        BY <1>2, <1>5, <1>10
<1> QED
    BY <1>1, <1>7, <1>8, <1>9, <1>10

-----------------------------------------------------------------------------
(* The percentile of a duration *)

LEMMA FactorOrder ==
    ASSUME NEW a \in Nat \ {0}, NEW x \in Int, NEW y \in Int
    PROVE  (a * x < a * y => x < y) /\ (a * x <= a * y => x <= y)
<1>1. a * (y + 1) = a * y + a /\ a * x \in Int /\ a * y \in Int
    OBVIOUS
<1>2. y <= x => a * y <= a * x
    BY ProductOrder
<1>3. y + 1 <= x => a * (y + 1) <= a * x
    <2>1. y + 1 \in Int
        OBVIOUS
    <2> QED
        BY <2>1, ProductOrder
<1> QED
    BY <1>1, <1>2, <1>3

\* A set of the first few numbers is as many as it has.
LEMMA FirstFew ==
    ASSUME NEW n \in Nat, NEW K \in SUBSET (1..n),
           \A k \in K : \A j \in 1..n : j <= k => j \in K
    PROVE  Cardinality(K) \in 0..n /\ K = 1..Cardinality(K)
<1> DEFINE I == {k \in 1..(n + 1) : k \notin K}
<1>1. I \in SUBSET Nat /\ n + 1 \in I
    OBVIOUS
<1>2. PICK least \in I : \A k \in I : least <= k
    BY <1>1, MinOfNaturals
<1>3. least \in 1..(n + 1) /\ least \notin K
    BY <1>2
<1>4. K = 1..(least - 1)
    <2>1. ASSUME NEW k \in K PROVE k \in 1..(least - 1)
        <3>1. ~(least <= k)
            BY <1>3, <2>1
        <3> QED
            BY <1>3, <3>1
    <2>2. ASSUME NEW k \in 1..(least - 1) PROVE k \in K
        BY <1>2, <1>3, <2>2
    <2> QED
        BY <2>1, <2>2
<1>5. Cardinality(1..(least - 1)) = least - 1
    BY <1>3, FS_Interval
<1> QED
    BY <1>3, <1>4, <1>5

\* The durations that v has passed; Index of them.
Passed(d, v, side) ==
    {k \in 1..Len(d) : 100 * d[k] < v \/ (side = "high" /\ 100 * d[k] = v)}

Index(d, v, side) == Cardinality(Passed(d, v, side))

LEMMA IndexOfPassed ==
    ASSUME NEW d, Sorted(d), NEW v \in Int, NEW side
    PROVE  /\ Index(d, v, side) \in 0..Len(d)
           /\ \A k \in 1..Len(d) : k <= Index(d, v, side) <=> k \in Passed(d, v, side)
<1>1. Len(d) \in Nat /\ \A k \in 1..Len(d) : d[k] \in Nat
    BY DEF Sorted
<1>2. ASSUME NEW k \in Passed(d, v, side), NEW j \in 1..Len(d), j <= k
      PROVE  j \in Passed(d, v, side)
    <2>1. d[j] <= d[k] /\ d[j] \in Nat /\ d[k] \in Nat
        BY <1>1, <1>2 DEF Sorted, Passed
    <2> QED
        BY <1>2, <2>1 DEF Passed
<1>3. Passed(d, v, side) \in SUBSET (1..Len(d))
    BY DEF Passed
<1>4. Index(d, v, side) \in 0..Len(d) /\ Passed(d, v, side) = 1..Index(d, v, side)
    BY <1>1, <1>2, <1>3, FirstFew DEF Index
<1> QED
    BY <1>1, <1>4

OnDuration(d, v) == \E k \in 1..Len(d) : v = 100 * d[k]

Gap(d, index) == d[index + 1] - d[index]

\* What division leaves of the exact place of v, q, among Len(d) - 1 steps.
Placed(d, v, side, q) ==
    LET index == Index(d, v, side)
        steps == Len(d) - 1
    IN /\ index \in 1..steps
       /\ q \in Nat
       /\ steps * q <= 100 * Grain * index
       /\ 100 * Grain * (index - 1) < steps * (q + 1)
       /\ OnDuration(d, v) => 100 * Grain * index < steps * (q + 1)
       /\ ~OnDuration(d, v) =>
             LET gap == Gap(d, index)
                 exact == gap * (100 * Grain * (index - 1)) + (v - 100 * d[index]) * Grain
             IN /\ gap \in Nat \ {0}
                /\ 100 * d[index] < v /\ v < 100 * d[index + 1]
                /\ gap * (steps * q) <= exact /\ exact < gap * (steps * (q + 1))

Between(d, v) == Len(d) > 1 /\ 100 * d[1] < v /\ v < 100 * d[Len(d)]

LEMMA IndexBetween ==
    ASSUME NEW d, Sorted(d), NEW v \in Int, NEW side, Between(d, v)
    PROVE  LET index == Index(d, v, side)
           IN /\ index \in 1..(Len(d) - 1)
              /\ ~OnDuration(d, v) => 100 * d[index] < v /\ v < 100 * d[index + 1]
<1> DEFINE index == Index(d, v, side)
           n == Len(d)
<1>1. n \in Nat /\ n > 1 /\ \A k \in 1..n : d[k] \in Nat
    BY DEF Sorted, Between
<1>2. index \in 0..n /\ \A k \in 1..n : k <= index <=> k \in Passed(d, v, side)
    BY IndexOfPassed
<1> HIDE DEF index
<1>3. 1 \in 1..n /\ n \in 1..n
    BY <1>1
<1>4. 1 \in Passed(d, v, side)
    BY <1>3 DEF Passed, Between
<1>5. n \notin Passed(d, v, side)
    BY <1>1, <1>3 DEF Passed, Between
<1>6. index \in 1..(n - 1)
    BY <1>1, <1>2, <1>3, <1>4, <1>5
<1>7. ASSUME ~OnDuration(d, v) PROVE 100 * d[index] < v /\ v < 100 * d[index + 1]
    <2>1. index \in 1..n /\ index + 1 \in 1..n
        BY <1>1, <1>6
    <2>2. index \in Passed(d, v, side) /\ index + 1 \notin Passed(d, v, side)
        BY <1>2, <1>6, <2>1
    <2>3. v # 100 * d[index] /\ v # 100 * d[index + 1]
        BY <1>7, <2>1 DEF OnDuration
    <2>4. 100 * d[index] \in Int /\ 100 * d[index + 1] \in Int
        BY <1>1, <2>1
    <2>5. ~(100 * d[index + 1] < v)
        BY <2>1, <2>2 DEF Passed
    <2> QED
        BY <2>2, <2>3, <2>4, <2>5 DEF Passed
<1> QED
    BY <1>6, <1>7 DEF index

PlacedOn(index, steps, whole, q) ==
    /\ q \in Nat
    /\ steps * q <= whole * index
    /\ whole * (index - 1) < steps * (q + 1)
    /\ whole * index < steps * (q + 1)

LEMMA OnPlaced ==
    ASSUME NEW index \in Nat \ {0}, NEW steps \in Nat \ {0}, NEW whole \in Nat
    PROVE  PlacedOn(index, steps, whole, (whole * index) \div steps)
<1>1. whole * index \in Nat /\ whole * (index - 1) <= whole * index /\ whole * (index - 1) \in Int
    BY ProductOrder
<1> DEFINE q == (whole * index) \div steps
<1>2. /\ q \in Int /\ steps * q <= whole * index
      /\ whole * index < steps * (q + 1) /\ q >= 0
    BY <1>1, Quotient
<1>3. steps * (q + 1) \in Int
    BY <1>2
<1> HIDE DEF q
<1>4. PlacedOn(index, steps, whole, q)
    BY <1>1, <1>2, <1>3 DEF PlacedOn
<1> QED
    BY <1>4 DEF q

PlacedOff(index, steps, gap, w, q) ==
    LET exact == gap * (100 * Grain * (index - 1)) + w * Grain
    IN /\ q \in Nat
       /\ steps * q <= 100 * Grain * index
       /\ 100 * Grain * (index - 1) < steps * (q + 1)
       /\ gap * (steps * q) <= exact /\ exact < gap * (steps * (q + 1))

LEMMA OffPlaced ==
    ASSUME NEW index \in Nat \ {0}, NEW steps \in Nat \ {0}, NEW gap \in Nat \ {0},
           NEW w \in Nat, w < 100 * gap
    PROVE  PlacedOff(index, steps, gap, w, ((100 * (index - 1) * gap + w) * Grain) \div (gap * steps))
<1> DEFINE x == (100 * (index - 1) * gap + w) * Grain
           y == gap * steps
           exact == gap * (100 * Grain * (index - 1)) + w * Grain
           q == x \div y
<1>1. Grain \in Nat \ {0} /\ index - 1 \in Nat
    BY ViewerAssumption
<1>2. x = exact
    <2>1. x = (100 * (index - 1) * gap) * Grain + w * Grain
        BY <1>1
    <2>2. (100 * (index - 1) * gap) * Grain = gap * (100 * Grain * (index - 1))
        BY <1>1
    <2> QED
        BY <2>1, <2>2
<1>3. w * Grain \in Nat /\ gap * (100 * Grain * (index - 1)) \in Nat /\ exact \in Nat
    BY <1>1
<1>4. y \in Nat \ {0}
    OBVIOUS
<1>5. q \in Int /\ y * q <= exact /\ exact < y * (q + 1) /\ q >= 0
    <2> HIDE DEF x, y, exact
    <2>1. x \in Int /\ x >= 0
        BY <1>2, <1>3
    <2> QED
        BY <1>2, <1>4, <2>1, Quotient
<1>6. q \in Nat
    BY <1>5
<1> HIDE DEF q
<1>7. y * q = gap * (steps * q) /\ y * (q + 1) = gap * (steps * (q + 1))
    BY <1>6
<1>8. w * Grain < gap * (100 * Grain)
    <2>1. w + 1 <= 100 * gap
        OBVIOUS
    <2>2. Grain * (w + 1) <= Grain * (100 * gap)
        BY <1>1, <2>1, ProductOrder
    <2>3. Grain * (w + 1) = w * Grain + Grain /\ Grain * (100 * gap) = gap * (100 * Grain)
        BY <1>1
    <2>4. w * Grain \in Nat /\ gap * (100 * Grain) \in Nat
        BY <1>1
    <2> QED
        BY <1>1, <2>2, <2>3, <2>4
<1>9. gap * (100 * Grain * (index - 1)) + gap * (100 * Grain) = gap * (100 * Grain * index)
    <2>1. 100 * Grain * (index - 1) + 100 * Grain = 100 * Grain * index
        BY <1>1
    <2>2. 100 * Grain * (index - 1) \in Int /\ 100 * Grain \in Int
        BY <1>1
    <2> QED
        BY <2>1, <2>2
<1>10. steps * q \in Int /\ steps * (q + 1) \in Int
            /\ 100 * Grain * index \in Int /\ 100 * Grain * (index - 1) \in Int
    BY <1>1, <1>6
<1>11. gap * (steps * q) < gap * (100 * Grain * index)
    <2>1. gap * (steps * q) \in Int /\ gap * (100 * Grain) \in Int /\ gap * (100 * Grain * index) \in Int
        BY <1>1, <1>10
    <2> QED
        BY <1>3, <1>5, <1>7, <1>8, <1>9, <2>1
<1>12. gap * (100 * Grain * (index - 1)) < gap * (steps * (q + 1))
    <2>1. gap * (steps * (q + 1)) \in Int
        BY <1>10
    <2> QED
        BY <1>3, <1>5, <1>7, <2>1
<1>13. steps * q <= 100 * Grain * index
    <2>1. steps * q < 100 * Grain * index
        BY <1>10, <1>11, FactorOrder
    <2> QED
        BY <1>10, <2>1
<1>14. 100 * Grain * (index - 1) < steps * (q + 1)
    BY <1>10, <1>12, FactorOrder
<1>15. PlacedOff(index, steps, gap, w, q)
    <2> HIDE DEF y, exact
    <2>1. gap * (steps * q) <= exact /\ exact < gap * (steps * (q + 1))
        BY <1>5, <1>7
    <2> QED
        BY Zenon, <1>6, <1>13, <1>14, <2>1 DEF PlacedOff, exact
<1> QED
    BY <1>15 DEF q

LEMMA PercentileIsPlaced ==
    ASSUME NEW d, Sorted(d), NEW v \in Int, NEW side, Between(d, v)
    PROVE  Placed(d, v, side, PercentileAtDuration(d, v, side))
<1> DEFINE n == Len(d)
           steps == n - 1
           q == PercentileAtDuration(d, v, side)
<1>1. PICK index : index = Index(d, v, side)
    OBVIOUS
<1>2. n \in Nat /\ n > 1 /\ steps \in Nat \ {0} /\ \A k \in 1..n : d[k] \in Nat
    BY DEF Sorted, Between
<1>3. index \in 1..steps /\ (~OnDuration(d, v) => 100 * d[index] < v /\ v < 100 * d[index + 1])
    BY <1>1, IndexBetween
<1>4. q = IF OnDuration(d, v) THEN (100 * Grain * index) \div steps
          ELSE ((100 * (index - 1) * Max({1, Gap(d, index)}) + (v - 100 * d[index])) * Grain)
                  \div (Max({1, Gap(d, index)}) * steps)
    <2>1. ~(n < 2) /\ ~(v <= 100 * d[1]) /\ ~(v >= 100 * d[n])
        BY <1>2 DEF Between
    <2>2. OnDuration(d, v) <=> v \in {100 * d[k] : k \in 1..n}
        BY DEF OnDuration
    <2> QED
        BY <1>1, <2>1, <2>2 DEF PercentileAtDuration, Index, Passed, Gap
<1>5. Grain \in Nat \ {0} /\ 100 * Grain \in Nat
    BY ViewerAssumption
<1> HIDE DEF q
<1>6. CASE OnDuration(d, v)
    <2>1. index \in Nat \ {0}
        BY <1>2, <1>3
    <2>2. PlacedOn(index, steps, 100 * Grain, q)
        <3> HIDE DEF steps
        <3>1. PlacedOn(index, steps, 100 * Grain, (100 * Grain * index) \div steps)
            BY <1>2, <1>5, <2>1, OnPlaced
        <3> QED
            BY <1>4, <1>6, <3>1
    <2> QED
        BY <1>1, <1>3, <1>6, <2>2 DEF Placed, PlacedOn, q
<1>7. CASE ~OnDuration(d, v)
    <2> DEFINE gap == Gap(d, index)
               w == v - 100 * d[index]
    <2>1. index \in 1..n /\ index + 1 \in 1..n
        BY <1>2, <1>3
    <2>2. d[index] \in Nat /\ d[index + 1] \in Nat
        BY <1>2, <2>1
    <2>3. gap \in Nat \ {0} /\ w \in Nat /\ w < 100 * gap
        BY <1>3, <1>7, <2>2 DEF Gap
    <2>4. Max({1, gap}) = gap
        BY <2>3, MaxOfTwo
    <2>5. q = ((100 * (index - 1) * gap + w) * Grain) \div (gap * steps)
        BY <1>4, <1>7, <2>4
    <2> HIDE DEF gap, w
    <2>6. PlacedOff(index, steps, gap, w, q)
        <3> HIDE DEF steps
        <3>1. index \in Nat \ {0}
            BY <1>2, <1>3
        <3> QED
            BY <1>2, <2>3, <2>5, <3>1, OffPlaced
    <2>7. ~OnDuration(d, v) /\ 100 * d[index] < v /\ v < 100 * d[index + 1]
        BY <1>3, <1>7
    <2> QED
        BY <1>1, <1>3, <2>3, <2>6, <2>7 DEF Placed, PlacedOff, q, gap, w
<1> QED
    BY <1>6, <1>7

LEMMA PercentileEnds ==
    ASSUME NEW d, Sorted(d), d # <<>>, NEW v \in Int, NEW side
    PROVE  /\ (Len(d) < 2 \/ v <= 100 * d[1]) => PercentileAtDuration(d, v, side) = 0
           /\ (Len(d) > 1 /\ ~(v <= 100 * d[1]) /\ v >= 100 * d[Len(d)])
                 => PercentileAtDuration(d, v, side) = 100 * Grain
           /\ Len(d) > 1 /\ ~(v <= 100 * d[1]) /\ ~(v >= 100 * d[Len(d)]) => Between(d, v)
<1>1. Len(d) \in Nat \ {0} /\ d[1] \in Nat /\ d[Len(d)] \in Nat
    BY SortedEnds
<1>2. /\ (Len(d) < 2 \/ v <= 100 * d[1]) => PercentileAtDuration(d, v, side) = 0
      /\ (~(Len(d) < 2) /\ ~(v <= 100 * d[1]) /\ v >= 100 * d[Len(d)])
            => PercentileAtDuration(d, v, side) = 100 * Grain
    BY DEF PercentileAtDuration
<1> QED
    BY <1>1, <1>2 DEF Between

LEMMA PercentileRange ==
    ASSUME NEW d, Sorted(d), d # <<>>, NEW v \in Int, NEW side
    PROVE  PercentileAtDuration(d, v, side) \in 0..(100 * Grain)
<1> DEFINE q == PercentileAtDuration(d, v, side)
           steps == Len(d) - 1
<1>1. Grain \in Nat \ {0} /\ 100 * Grain \in Nat /\ Len(d) \in Nat
    BY SortedEnds, ViewerAssumption
<1>2. CASE Between(d, v)
    <2>1. Placed(d, v, side, q)
        BY <1>2, PercentileIsPlaced
    <2>2. PICK index : index = Index(d, v, side)
        OBVIOUS
    <2> HIDE DEF q
    <2>3. index \in 1..steps
        BY <2>1, <2>2 DEF Placed
    <2>4. steps \in Nat \ {0}
        <3>1. PICK n : n = Len(d)
            OBVIOUS
        <3>2. n \in Nat /\ n > 1
            BY <1>1, <1>2, <3>1 DEF Between
        <3>3. n - 1 \in Nat \ {0}
            BY <3>2
        <3> QED
            BY <3>1, <3>3
    <2>5. q \in Nat /\ steps * q <= 100 * Grain * index
        BY <2>1, <2>2 DEF Placed
    <2>6. (100 * Grain) * index <= (100 * Grain) * steps
        BY <1>1, <2>3, <2>4, ProductOrder
    <2> HIDE DEF steps
    <2>7. steps * q <= steps * (100 * Grain)
        <3>1. (100 * Grain) * steps = steps * (100 * Grain) /\ steps * (100 * Grain) \in Int
                /\ (100 * Grain) * index \in Int /\ steps * q \in Int
            BY <1>1, <2>3, <2>4, <2>5
        <3> QED
            BY <2>5, <2>6, <3>1
    <2>8. q <= 100 * Grain
        BY <1>1, <2>4, <2>5, <2>7, FactorOrder
    <2> QED
        BY <1>1, <2>5, <2>8 DEF q
<1> QED
    BY <1>1, <1>2, PercentileEnds

\* The low edge of a proper window has no later percentile than the high one.
LEMMA PercentilesOrdered ==
    ASSUME NEW d, Sorted(d), d # <<>>, NEW low \in Int, NEW high \in Int, low < high
    PROVE  PercentileAtDuration(d, low, "low") <= PercentileAtDuration(d, high, "high")
<1> DEFINE p == PercentileAtDuration(d, low, "low")
           q == PercentileAtDuration(d, high, "high")
           n == Len(d)
           steps == n - 1
<1>1. p \in 0..(100 * Grain) /\ q \in 0..(100 * Grain) /\ 100 * Grain \in Nat
    BY PercentileRange, ViewerAssumption
<1>2. n \in Nat \ {0} /\ d[1] \in Nat /\ d[n] \in Nat /\ \A k \in 1..n : d[k] \in Nat
    BY SortedEnds
<1>3. CASE n < 2 \/ low <= 100 * d[1]
    <2>1. p = 0
        BY <1>3, PercentileEnds
    <2> HIDE DEF p, q
    <2> QED
        BY <1>1, <2>1 DEF p, q
<1>4. CASE n > 1 /\ ~(low <= 100 * d[1]) /\ high >= 100 * d[n]
    <2>1. q = 100 * Grain
        <3>1. ~(high <= 100 * d[1])
            BY <1>2, <1>4
        <3> QED
            BY <1>4, <3>1, PercentileEnds
    <2> HIDE DEF p, q
    <2> QED
        BY <1>1, <2>1 DEF p, q
<1>5. CASE n > 1 /\ ~(low <= 100 * d[1]) /\ ~(high >= 100 * d[n])
    <2>1. Between(d, low) /\ Between(d, high)
        BY <1>2, <1>5 DEF Between
    <2>2. Placed(d, low, "low", p) /\ Placed(d, high, "high", q)
        BY <2>1, PercentileIsPlaced
    <2>3. PICK i : i = Index(d, low, "low")
        OBVIOUS
    <2>4. PICK j : j = Index(d, high, "high")
        OBVIOUS
    <2>5. PICK whole \in Nat : whole = 100 * Grain
        BY <1>1
    <2> HIDE DEF p, q
    <2>6. /\ i \in 1..steps /\ j \in 1..steps /\ p \in Nat /\ q \in Nat
          /\ steps * p <= whole * i
          /\ whole * (j - 1) < steps * (q + 1)
        BY <2>2, <2>3, <2>4, <2>5 DEF Placed
    <2>7. steps \in Nat \ {0}
        BY <1>2, <1>5
    <2>8. /\ \A k \in 1..n : k <= i <=> k \in Passed(d, low, "low")
          /\ \A k \in 1..n : k <= j <=> k \in Passed(d, high, "high")
        BY <2>3, <2>4, IndexOfPassed
    <2>9. i <= j
        <3>1. i \in 1..n
            BY <1>2, <2>6
        <3>2. 100 * d[i] < low
            BY <2>6, <2>8, <3>1 DEF Passed
        <3>3. i \in Passed(d, high, "high")
            BY <1>2, <3>1, <3>2 DEF Passed
        <3> QED
            BY <2>8, <3>1, <3>3
    <2> HIDE DEF steps
    <2>10. ASSUME whole * i < steps * (q + 1) PROVE p <= q
        <3>1. steps * p < steps * (q + 1)
            <4>1. steps * p \in Int /\ steps * (q + 1) \in Int /\ whole * i \in Int
                BY <2>6, <2>7
            <4> QED
                BY <2>6, <2>10, <4>1
        <3>2. p < q + 1
            BY <2>6, <2>7, <3>1, FactorOrder
        <3> QED
            BY <2>6, <3>2
    <2>11. CASE OnDuration(d, high)
        <3>1. whole * j < steps * (q + 1)
            BY <2>2, <2>4, <2>5, <2>11 DEF Placed, steps
        <3>2. whole * i <= whole * j /\ whole * i \in Int /\ whole * j \in Int
            BY <2>6, <2>9, ProductOrder
        <3>3. steps * (q + 1) \in Int
            BY <2>6, <2>7
        <3> QED
            BY <2>10, <3>1, <3>2, <3>3 DEF p, q
    <2>12. CASE i < j
        <3>1. whole * i <= whole * (j - 1) /\ whole * i \in Int /\ whole * (j - 1) \in Int
            BY <2>6, <2>12, ProductOrder
        <3>2. steps * (q + 1) \in Int
            BY <2>6, <2>7
        <3> QED
            BY <2>6, <2>10, <3>1, <3>2 DEF p, q
    <2>13. CASE OnDuration(d, low)
        <3>1. PICK k \in 1..n : low = 100 * d[k]
            BY <2>13 DEF OnDuration
        <3>2. k \notin Passed(d, low, "low") /\ k \in Passed(d, high, "high")
            BY <1>2, <3>1 DEF Passed
        <3>3. i < k /\ k <= j
            BY <2>6, <2>8, <3>1, <3>2
        <3> QED
            BY <2>6, <2>12, <3>1, <3>3
    <2>14. CASE ~OnDuration(d, high) /\ ~OnDuration(d, low) /\ i = j
        <3> DEFINE gap == Gap(d, i)
                   x == gap * (whole * (i - 1))
                   v == (low - 100 * d[i]) * Grain
                   w == (high - 100 * d[i]) * Grain
        <3>1. /\ gap \in Nat \ {0}
              /\ gap * (steps * p) <= x + v
              /\ x + w < gap * (steps * (q + 1))
            BY <2>2, <2>3, <2>4, <2>5, <2>14 DEF Placed, steps
        <3>2. v <= w /\ v \in Int /\ w \in Int
            <4>1. Grain \in Nat
                BY ViewerAssumption
            <4>2. i \in 1..n /\ d[i] \in Nat
                BY <1>2, <2>6 DEF steps
            <4>3. low - 100 * d[i] <= high - 100 * d[i]
                BY <4>2
            <4>4. Grain * (low - 100 * d[i]) <= Grain * (high - 100 * d[i])
                BY <4>1, <4>2, <4>3, ProductOrder
            <4> QED
                BY <4>1, <4>2, <4>4
        <3> HIDE DEF gap, v, w
        <3>3. x \in Int /\ steps * p \in Int /\ steps * (q + 1) \in Int
            BY <2>6, <2>7, <3>1
        <3> HIDE DEF x
        <3>4. gap * (steps * p) < gap * (steps * (q + 1))
            <4>1. gap * (steps * p) \in Int /\ gap * (steps * (q + 1)) \in Int
                BY <3>1, <3>3
            <4> QED
                BY <3>1, <3>2, <3>3, <4>1
        <3>5. steps * p < steps * (q + 1)
            BY <3>1, <3>3, <3>4, FactorOrder
        <3>6. p < q + 1
            BY <2>6, <2>7, <3>5, FactorOrder
        <3> QED
            BY <2>6, <3>6 DEF p, q
    <2> QED
        BY <2>6, <2>9, <2>11, <2>12, <2>13, <2>14 DEF steps
<1> QED
    BY <1>2, <1>3, <1>4, <1>5

-----------------------------------------------------------------------------
(* The latency window and the percentiles *)

Span == [low : Int, high : Int]

LatencyRange == {<<>>} \cup {<<w>> : w \in Span}

\* The script's state has these fields, and no other.
Shaped(s) ==
    s \in [threads : {s.threads}, time : [from : Int, to : Int], percentile : Span,
           latency : LatencyRange, bucket : Nat, metric : {s.metric}]

\* r is s, but for its latency window and its percentiles.
SameFilters(r, s) ==
    /\ Shaped(r)
    /\ r.threads = s.threads /\ r.time = s.time
    /\ r.bucket = s.bucket /\ r.metric = s.metric

LEMMA SetWindow ==
    ASSUME NEW s, Shaped(s), NEW window \in Span
    PROVE  LET r == [s EXCEPT !.latency = <<window>>]
           IN SameFilters(r, s) /\ r.latency = <<window>> /\ r.percentile = s.percentile
BY DEF Shaped, SameFilters, LatencyRange

LEMMA SetBoth ==
    ASSUME NEW s, Shaped(s), NEW window \in Span, NEW range \in Span
    PROVE  LET r == [s EXCEPT !.latency = <<window>>, !.percentile = range]
           IN SameFilters(r, s) /\ r.latency = <<window>> /\ r.percentile = range
<1> DEFINE r == [s EXCEPT !.latency = <<window>>, !.percentile = range]
<1>1. <<window>> \in LatencyRange
    BY DEF LatencyRange
<1>2. Shaped(r)
    BY <1>1, Zenon DEF Shaped
<1>3. /\ r.threads = s.threads /\ r.time = s.time /\ r.bucket = s.bucket /\ r.metric = s.metric
      /\ r.latency = <<window>> /\ r.percentile = range
    BY DEF Shaped
<1> QED
    BY <1>2, <1>3 DEF SameFilters

LEMMA SameState ==
    ASSUME NEW r, NEW s, Shaped(s), SameFilters(r, s),
           r.latency = s.latency, r.percentile = s.percentile
    PROVE  r = s
BY DEF Shaped, SameFilters

\* A window that was set, or percentiles that were asked for in whole percents.
Ready(s) ==
    /\ Shaped(s)
    /\ s.latency = <<>> =>
          \E low, high \in 0..100 : s.percentile = [low |-> Grain * low, high |-> Grain * high]

WindowOf(s, d) ==
    IF s.latency # <<>> THEN s.latency[1]
    ELSE [low |-> PercentileR7(d, s.percentile.low \div Grain)[1],
          high |-> PercentileR7(d, s.percentile.high \div Grain)[1]]

LEMMA WindowType ==
    ASSUME NEW s, Ready(s), NEW d, Sorted(d), d # <<>>
    PROVE  WindowOf(s, d) \in Span
<1>1. CASE s.latency # <<>>
    <2>1. s.latency \in LatencyRange
        BY Zenon DEF Ready, Shaped
    <2>2. PICK w \in Span : s.latency = <<w>>
        BY <1>1, <2>1 DEF LatencyRange
    <2>3. WindowOf(s, d) = s.latency[1]
        BY <1>1 DEF WindowOf
    <2>4. s.latency[1] = w
        BY <2>2
    <2> QED
        BY <2>3, <2>4
<1>2. CASE s.latency = <<>>
    <2>1. PICK low \in 0..100, high \in 0..100 :
             s.percentile = [low |-> Grain * low, high |-> Grain * high]
        BY <1>2, Zenon DEF Ready
    <2>2. Grain \in Nat \ {0}
        BY ViewerAssumption
    <2>3. (Grain * low) \div Grain = low /\ (Grain * high) \div Grain = high
        BY <2>2
    <2>4. s.percentile.low \div Grain = low /\ s.percentile.high \div Grain = high
        BY <2>1, <2>3
    <2>5. PercentileR7(d, low)[1] \in Int /\ PercentileR7(d, high)[1] \in Int
        BY PercentileType
    <2> QED
        BY <1>2, <2>4, <2>5, SMTT(20) DEF WindowOf, Span
<1> QED
    BY <1>1, <1>2

\* The window of durations d nearest to window.
Nearest(d, window) ==
    LET low == Clamp(100 * d[1], 100 * d[Len(d)], window.low)
    IN [low |-> low, high |-> Max({low, Min({100 * d[Len(d)], window.high})})]

Within(d, window) ==
    /\ window \in Span
    /\ 100 * d[1] <= window.low /\ window.low <= window.high /\ window.high <= 100 * d[Len(d)]

LEMMA NearestWindow ==
    ASSUME NEW d, Sorted(d), d # <<>>, NEW window \in Span
    PROVE  /\ Within(d, Nearest(d, window))
           /\ Within(d, window) => Nearest(d, window) = window
<1> DEFINE a == 100 * d[1]
           b == 100 * d[Len(d)]
           low == Clamp(a, b, window.low)
           high == Max({low, Min({b, window.high})})
<1>1. a \in Int /\ b \in Int /\ a <= b
    BY SortedEnds
<1>2. window.low \in Int /\ window.high \in Int
        /\ window = [low |-> window.low, high |-> window.high]
    BY DEF Span
<1> HIDE DEF a, b
<1>3. /\ low \in Int /\ a <= low /\ low <= b
      /\ a <= window.low /\ window.low <= b => low = window.low
    BY <1>1, <1>2, ClampedValue
<1> HIDE DEF low
<1>4. Min({b, window.high}) = (IF b <= window.high THEN b ELSE window.high)
        /\ Min({b, window.high}) \in Int
    BY <1>1, <1>2, MinOfTwo
<1>5. high = IF low <= Min({b, window.high}) THEN Min({b, window.high}) ELSE low
    BY <1>3, <1>4, MaxOfTwo
<1>6. high \in Int /\ low <= high /\ high <= b
    BY <1>1, <1>2, <1>3, <1>4, <1>5
<1>7. a <= window.low /\ window.low <= window.high /\ window.high <= b
         => low = window.low /\ high = window.high
    BY <1>1, <1>2, <1>3, <1>4, <1>5
<1>8. Nearest(d, window) = [low |-> low, high |-> high]
    BY DEF Nearest, a, b, low
<1> HIDE DEF high
<1>9. [low |-> low, high |-> high] \in Span
    BY <1>3, <1>6 DEF Span
<1>10. Within(d, [low |-> low, high |-> high])
    BY <1>3, <1>6, <1>9 DEF Within, a, b
<1>11. Within(d, window) => [low |-> low, high |-> high] = window
    BY <1>2, <1>7 DEF Within, a, b
<1> QED
    BY <1>8, <1>10, <1>11

NamedBy(d, window) ==
    [low |-> PercentileAtDuration(d, window.low, "low"),
     high |-> PercentileAtDuration(d, window.high, "high")]

\* What syncLatencyWindow does to s.
SyncedTo(r, s, d) ==
    /\ SameFilters(r, s)
    /\ r.latency = IF d = <<>> THEN <<[low |-> 0, high |-> 0]>> ELSE <<Nearest(d, WindowOf(s, d))>>
    /\ r.percentile = IF d # <<>> /\ r.latency[1].low < r.latency[1].high
                      THEN NamedBy(d, r.latency[1]) ELSE s.percentile

LEMMA SetWindowAndNames ==
    ASSUME NEW s, Shaped(s), NEW d, NEW window \in Span, NamedBy(d, window) \in Span
    PROVE  LET r == WithWindow(s, window, d)
           IN /\ SameFilters(r, s)
              /\ r.latency = <<window>>
              /\ r.percentile = IF window.low < window.high THEN NamedBy(d, window) ELSE s.percentile
<1> DEFINE named == [low |-> PercentileAtDuration(d, window.low, "low"),
                     high |-> PercentileAtDuration(d, window.high, "high")]
           r == [s EXCEPT !.latency = <<window>>,
                          !.percentile = IF window.low < window.high THEN named ELSE @]
<1>1. named = NamedBy(d, window)
    BY DEF NamedBy
<1>2. WithWindow(s, window, d) = r
    BY DEF WithWindow
<1> HIDE DEF named
<1>3. <<window>> \in LatencyRange /\ named \in Span
    BY <1>1 DEF LatencyRange
<1>4. Shaped(r)
    BY <1>3 DEF Shaped
<1>5. /\ r.threads = s.threads /\ r.time = s.time /\ r.bucket = s.bucket /\ r.metric = s.metric
      /\ r.latency = <<window>>
      /\ r.percentile = IF window.low < window.high THEN named ELSE s.percentile
    BY DEF Shaped
<1> HIDE DEF r
<1> QED
    BY <1>1, <1>2, <1>4, <1>5 DEF SameFilters

LEMMA SyncedState ==
    ASSUME NEW s, Ready(s), NEW d, Sorted(d)
    PROVE  SyncedTo(Synced(s, d), s, d)
<1>1. CASE d = <<>>
    <2>1. Synced(s, d) = [s EXCEPT !.latency = <<[low |-> 0, high |-> 0]>>]
        BY <1>1 DEF Synced
    <2>2. PICK window : window = [low |-> 0, high |-> 0]
        BY Zenon
    <2>3. window \in Span
        BY <2>2 DEF Span
    <2>4. Synced(s, d) = [s EXCEPT !.latency = <<window>>]
        BY <2>1, <2>2
    <2>5. LET r == [s EXCEPT !.latency = <<window>>]
          IN SameFilters(r, s) /\ r.latency = <<window>> /\ r.percentile = s.percentile
        BY <2>3, SetWindow, Zenon DEF Ready
    <2> QED
        BY <1>1, <2>2, <2>4, <2>5 DEF SyncedTo
<1>2. CASE d # <<>>
    <2>1. PICK window : window = Nearest(d, WindowOf(s, d))
        OBVIOUS
    <2>2. window \in Span
        <3>1. Within(d, window)
            BY <1>2, <2>1, WindowType, NearestWindow
        <3> QED
            BY <3>1 DEF Within
    <2>3. NamedBy(d, window) \in Span
        <3>1. \A v \in Int : /\ PercentileAtDuration(d, v, "low") \in Int
                            /\ PercentileAtDuration(d, v, "high") \in Int
            BY <1>2, PercentileRange
        <3> QED
            BY <2>2, <3>1 DEF NamedBy, Span
    <2>4. Synced(s, d) = WithWindow(s, window, d)
        <3>1. Synced(s, d) = WithWindow(s, Nearest(d, WindowOf(s, d)), d)
            BY <1>2 DEF Synced, Nearest, WindowOf
        <3> QED
            BY <2>1, <3>1
    <2>5. PICK r : r = WithWindow(s, window, d)
        BY Zenon
    <2>6. /\ SameFilters(r, s)
          /\ r.latency = <<window>>
          /\ r.percentile = IF window.low < window.high THEN NamedBy(d, window) ELSE s.percentile
        BY <2>2, <2>3, <2>5, SetWindowAndNames, Zenon DEF Ready
    <2>7. SyncedTo(r, s, d)
        BY <1>2, <2>1, <2>6 DEF SyncedTo
    <2> QED
        BY <2>4, <2>5, <2>7
<1> QED
    BY <1>1, <1>2

\* Synchronizing a state that was synchronized changes nothing.
LEMMA SyncedAgain ==
    ASSUME NEW s, Ready(s), NEW d, Sorted(d), NEW r, SyncedTo(r, s, d)
    PROVE  /\ Ready(r)
           /\ \E window \in Span :
                 /\ r.latency = <<window>>
                 /\ window.low <= window.high
                 /\ d # <<>> => Within(d, window)
           /\ Synced(r, d) = r
<1>1. PICK window : window = IF d = <<>> THEN [low |-> 0, high |-> 0] ELSE Nearest(d, WindowOf(s, d))
    OBVIOUS
<1>2. r.latency = <<window>> /\ SameFilters(r, s)
    BY <1>1 DEF SyncedTo
<1>3. d # <<>> => Within(d, window) /\ Nearest(d, window) = window
    <2> SUFFICES ASSUME d # <<>> PROVE Within(d, window) /\ Nearest(d, window) = window
        OBVIOUS
    <2>1. Within(d, window)
        BY <1>1, WindowType, NearestWindow
    <2> QED
        BY <2>1, NearestWindow DEF Within
<1>4. window \in Span /\ window.low <= window.high
    BY <1>1, <1>3, SMTT(20) DEF Within, Span
<1>5. Ready(r)
    <2>1. <<window>> # <<>>
        OBVIOUS
    <2> QED
        BY <1>2, <2>1, Zenon DEF Ready, SameFilters
<1>6. PICK again : again = Synced(r, d)
    OBVIOUS
<1>7. SyncedTo(again, r, d)
    BY <1>5, <1>6, SyncedState
<1>8. WindowOf(r, d) = window
    BY <1>2 DEF WindowOf
<1>9. again.latency = <<window>>
    BY <1>1, <1>3, <1>7, <1>8 DEF SyncedTo
<1>10. again.percentile = r.percentile
    <2>1. r.latency[1] = window /\ again.latency[1] = window
        BY <1>2, <1>9
    <2>2. again.percentile = IF d # <<>> /\ window.low < window.high
                             THEN NamedBy(d, window) ELSE r.percentile
        BY <1>7, <2>1 DEF SyncedTo
    <2>3. r.percentile = IF d # <<>> /\ window.low < window.high
                         THEN NamedBy(d, window) ELSE s.percentile
        BY <2>1 DEF SyncedTo
    <2> QED
        BY <2>2, <2>3
<1>11. again = r
    <2>1. SameFilters(again, r) /\ Shaped(r)
        BY <1>2, <1>7 DEF SyncedTo, SameFilters
    <2> QED
        BY <1>2, <1>9, <1>10, <2>1, SameState
<1> QED
    BY <1>2, <1>3, <1>4, <1>5, <1>6, <1>11

InOrder(s) ==
    /\ 0 <= s.percentile.low
    /\ s.percentile.low <= s.percentile.high
    /\ s.percentile.high <= 100 * Grain

LEMMA SyncedInOrder ==
    ASSUME NEW s, Ready(s), InOrder(s), NEW d, Sorted(d), NEW r, SyncedTo(r, s, d)
    PROVE  InOrder(r)
<1>1. PICK window \in Span : r.latency = <<window>>
    BY SyncedAgain
<1>2. r.percentile = IF d # <<>> /\ window.low < window.high
                     THEN NamedBy(d, window) ELSE s.percentile
    BY <1>1 DEF SyncedTo
<1>3. CASE d # <<>> /\ window.low < window.high
    <2>1. window.low \in Int /\ window.high \in Int
        BY DEF Span
    <2>2. PICK low : low = PercentileAtDuration(d, window.low, "low")
        OBVIOUS
    <2>3. PICK high : high = PercentileAtDuration(d, window.high, "high")
        OBVIOUS
    <2>4. low \in 0..(100 * Grain) /\ high \in 0..(100 * Grain)
        BY <1>3, <2>1, <2>2, <2>3, PercentileRange
    <2>5. low <= high
        BY <1>3, <2>1, <2>2, <2>3, PercentilesOrdered
    <2>6. r.percentile = [low |-> low, high |-> high]
        BY <1>2, <1>3, <2>2, <2>3 DEF NamedBy
    <2>7. 100 * Grain \in Nat
        BY ViewerAssumption
    <2> QED
        BY <2>4, <2>5, <2>6, <2>7 DEF InOrder
<1>4. CASE ~(d # <<>> /\ window.low < window.high)
    BY <1>2, <1>4 DEF InOrder
<1> QED
    BY <1>3, <1>4

-----------------------------------------------------------------------------
(* The report *)

\* Some member of a finite set of naturals is its greatest: the longest of
\* invocations that begin at zero and end at the members.
LEMMA Greatest ==
    ASSUME NEW E \in SUBSET Nat, IsFiniteSet(E), E # {}
    PROVE  \E x \in E : \A y \in E : y <= x
<1> DEFINE call(e) == [id |-> e, start |-> 0, end |-> e]
           S == {call(e) : e \in E}
           f == [e \in E |-> call(e)]
<1>1. IsFiniteSet(S)
    <2>1. f \in [E -> S] /\ \A c \in S : \E e \in E : f[e] = c
        OBVIOUS
    <2>2. f \in Surjection(E, S)
        BY <2>1 DEF Surjection
    <2> QED
        BY <2>2, FS_Surjection
<1>2. Population(S)
    <2>1. ASSUME NEW c \in S PROVE c.id \in Nat /\ c.start \in Nat /\ c.end \in Nat
        <3>1. PICK e \in E : c = call(e)
            OBVIOUS
        <3> QED
            BY <3>1
    <2>2. ASSUME NEW a \in S, NEW b \in S, a.id = b.id PROVE a = b
        <3>1. PICK x \in E : a = call(x)
            OBVIOUS
        <3>2. PICK y \in E : b = call(y)
            OBVIOUS
        <3> QED
            BY <2>2, <3>1, <3>2
    <2> QED
        BY <1>1, <2>1, <2>2 DEF Population, Measured, UniqueIds
<1>3. \A c \in S : c.end \in E /\ Duration(c) = c.end
    BY DEF Duration
<1>4. ASSUME NEW e \in E PROVE \E c \in S : c.end = e
    <2>1. call(e) \in S /\ call(e).end = e
        OBVIOUS
    <2> QED
        BY <2>1
<1>5. S # {}
    BY <1>4
<1> HIDE DEF S
<1>6. PICK d : d = Durations(S)
    OBVIOUS
<1>7. DurationsOf(d, S)
    BY <1>2, <1>6, DurationsAreSorted
<1>8. /\ Sorted(d) /\ d # <<>> /\ Len(d) = Cardinality(S)
      /\ \A c \in S : Rank(c, S) \in 0..(Len(d) - 1) /\ d[Rank(c, S) + 1] = c.end
    BY <1>3, <1>5, <1>7 DEF DurationsOf
<1>9. /\ Len(d) \in Nat \ {0}
      /\ \A k \in 1..Len(d) : d[k] <= d[Len(d)]
    BY <1>8, SortedEnds
<1>10. Len(d) - 1 \in 0..(Cardinality(S) - 1)
    BY <1>8, <1>9
<1>11. PICK longest \in S : Rank(longest, S) = Len(d) - 1
    BY <1>2, <1>10, RanksFill
<1>12. longest.end = d[Len(d)]
    BY <1>8, <1>9, <1>11
<1>13. \A c \in S : c.end <= longest.end
    <2> TAKE c \in S
    <2>1. Rank(c, S) + 1 \in 1..Len(d) /\ d[Rank(c, S) + 1] = c.end
        BY <1>8, <1>9
    <2> QED
        BY <1>9, <1>12, <2>1
<1> QED
    BY <1>3, <1>4, <1>13, ZenonT(40)

\* The bounds of a capture are integers.
LEMMA CaptureBoundsType ==
    ASSUME NEW f \in Files, CaptureBounds(f.profile) # <<>>
    PROVE  /\ CaptureBounds(f.profile)[1].from \in Int /\ CaptureBounds(f.profile)[1].to \in Int
           /\ \A i \in f.profile.invocations : CaptureBounds(f.profile)[1].from <= i.start
<1> DEFINE S == f.profile.invocations
           starts == {i.start : i \in S}
           ends == {i.end : i \in S}
<1>1. S # {} /\ CaptureBounds(f.profile) = <<[from |-> Min(starts), to |-> Max(ends)]>>
    BY DEF CaptureBounds
<1>2. IsFiniteSet(S) /\ \A i \in S : i.start \in Nat /\ i.end \in Nat
    BY CommandAssumption
<1>3. starts \in SUBSET Nat /\ starts # {} /\ ends \in SUBSET Nat /\ ends # {}
    BY <1>1, <1>2
<1>4. IsFiniteSet(ends)
    <2>1. PICK endOf : endOf = [i \in S |-> i.end]
        OBVIOUS
    <2>2. endOf \in [S -> ends] /\ \A x \in ends : \E i \in S : endOf[i] = x
        BY <2>1
    <2>3. endOf \in Surjection(S, ends)
        BY <2>2 DEF Surjection
    <2> QED
        BY <1>2, <2>3, FS_Surjection
<1>5. \A i \in S : i.start \in starts
    OBVIOUS
<1> HIDE DEF starts, ends
<1>6. Min(starts) \in Int /\ \A x \in starts : Min(starts) <= x
    <2>1. Min(starts) \in starts /\ \A x \in starts : Min(starts) <= x
        BY <1>3, MinOfNaturals
    <2>2. starts \subseteq Int
        BY <1>3
    <2>3. Min(starts) \in Int
        BY <2>1, <2>2
    <2> QED
        BY <2>1, <2>3
<1>7. Max(ends) \in Int
    <2>1. PICK x \in ends : \A y \in ends : y <= x
        BY <1>3, <1>4, Greatest
    <2>2. Max(ends) = x
        BY <1>3, <2>1, MaxOfNaturals
    <2> QED
        BY <1>3, <2>1, <2>2
<1> QED
    BY <1>1, <1>5, <1>6, <1>7

\* A time that was parsed is two instants.
LEMMA ParsedTime ==
    ASSUME NEW f \in Files, NEW arg, NEW checked,
           ParseTime(arg, CaptureBounds(f.profile), checked).status = "ok"
    PROVE  LET time == ParseTime(arg, CaptureBounds(f.profile), checked).value
           IN time # <<>> => time[1].from \in Int /\ time[1].to \in Int
<1> DEFINE bounds == CaptureBounds(f.profile)
           offset(text) == LET d == ParseDuration(text, checked)
                           IN IF d.status = "ok" THEN Arithmetic(bounds[1].from + d.value, checked)
                              ELSE d
           from == offset(arg[1].from)
           to == offset(arg[1].to)
<1>1. \A reason : Refused(reason).status # "ok"
    BY DEF Refused
<1>2. Panicked.status # "ok"
    BY DEF Panicked
<1>3. Word \in Nat \ {0} /\ \A suffix \in DOMAIN Units : Units[suffix] \in Nat
    BY CommandAssumption
<1>4. ASSUME NEW x \in Int, Arithmetic(x, checked).status = "ok"
      PROVE  Arithmetic(x, checked).value \in Int
    BY <1>2, <1>3, <1>4 DEF Arithmetic, Ok
<1>5. ASSUME NEW text, ParseDuration(text, checked).status = "ok"
      PROVE  ParseDuration(text, checked).value \in Int
    <2>1. /\ text.suffix \in DOMAIN Units /\ text.number \in 0..(Word - 1)
          /\ ParseDuration(text, checked) = Arithmetic(text.number * Units[text.suffix], checked)
        BY <1>1, <1>5 DEF ParseDuration
    <2>2. text.number * Units[text.suffix] \in Int
        BY <1>3, <2>1
    <2> QED
        BY <1>4, <1>5, <2>1, <2>2
<1>6. ASSUME bounds # <<>>, NEW text, offset(text).status = "ok"
      PROVE  offset(text).value \in Int
    <2>1. bounds[1].from \in Int
        BY <1>6, CaptureBoundsType
    <2>2. ParseDuration(text, checked).status = "ok"
        BY <1>6
    <2>3. bounds[1].from + ParseDuration(text, checked).value \in Int
        BY <1>5, <2>1, <2>2
    <2> QED
        BY <1>4, <1>6, <2>2, <2>3
<1> HIDE DEF bounds, offset
<1>7. ParseTime(arg, bounds, checked) =
         IF arg = <<>> THEN Ok(<<>>)
         ELSE IF bounds = <<>> THEN Refused("no invocations")
         ELSE IF from.status # "ok" THEN from
         ELSE IF to.status # "ok" THEN to
         ELSE IF from.value >= to.value THEN Refused("time")
         ELSE Ok(<<[from |-> from.value, to |-> to.value]>>)
    BY DEF ParseTime, offset
<1>8. ParseTime(arg, bounds, checked).status = "ok"
    BY DEF bounds
<1>9. CASE arg = <<>>
    BY <1>7, <1>9 DEF Ok, bounds
<1>10. CASE arg # <<>>
    <2>1. /\ bounds # <<>> /\ from.status = "ok" /\ to.status = "ok"
          /\ ParseTime(arg, bounds, checked) = Ok(<<[from |-> from.value, to |-> to.value]>>)
        BY <1>1, <1>7, <1>8, <1>10
    <2>2. from.value \in Int /\ to.value \in Int
        BY <1>6, <2>1
    <2> QED
        BY <2>1, <2>2 DEF Ok, bounds
<1> QED
    BY <1>9, <1>10

\* The page was opened on a file that loads and a query of whole percents.
Opened ==
    /\ \E f \in Files : Loads(f) /\ P = f.profile
    /\ Query.percentile.low \in 0..100 /\ Query.percentile.high \in 0..100
    /\ Query.percentile.low < Query.percentile.high
    /\ Query.time # <<>> => Query.time[1].from \in Int /\ Query.time[1].to \in Int

LEMMA OpenedAfter ==
    ASSUME CommandNext, report # <<>> => Opened
    PROVE  (report # <<>> => Opened)'
<1>1. CASE report' = report
    BY <1>1 DEF Opened, P, Query
<1>2. CASE View /\ report' # report
    <2>1. PICK f \in Files, args \in ViewArgs, checked \in BOOLEAN :
             /\ ViewOutcome(f, args, checked).status = "ok"
             /\ report' = <<[profile |-> f.profile, query |-> ViewOutcome(f, args, checked).value]>>
        BY <1>2 DEF View
    <2>2. PICK time : time = ParseTime(args.time, CaptureBounds(f.profile), checked)
        OBVIOUS
    <2>3. /\ Loads(f) /\ time.status = "ok"
          /\ ViewOutcome(f, args, checked) =
                Ok([fn |-> f.profile.order[1], threads |-> args.threads, time |-> time.value,
                    percentile |-> args.percentile, metric |-> args.metric])
          /\ args.percentile.low \in 0..255 /\ args.percentile.high \in 0..255
          /\ ValidPercentiles(args.percentile)
        BY <2>1, <2>2, ViewIsOfQuery
    <2>4. time.value # <<>> => time.value[1].from \in Int /\ time.value[1].to \in Int
        BY <2>2, <2>3, ParsedTime
    <2>5. /\ args.percentile.low \in 0..100 /\ args.percentile.high \in 0..100
          /\ args.percentile.low < args.percentile.high
        <3>1. PICK low \in 0..255, high \in 0..255 :
                 args.percentile.low = low /\ args.percentile.high = high
            BY <2>3, Zenon
        <3>2. low < high /\ high <= 100
            BY <2>3, <3>1 DEF ValidPercentiles
        <3> QED
            BY <3>1, <3>2
    <2>6. PICK query :
             query = [fn |-> f.profile.order[1], threads |-> args.threads, time |-> time.value,
                      percentile |-> args.percentile, metric |-> args.metric]
        OBVIOUS
    <2>7. ViewOutcome(f, args, checked).value = query
        BY <2>3, <2>6 DEF Ok
    <2>8. query.percentile = args.percentile /\ query.time = time.value
        BY <2>6
    <2>9. report'[1].profile = f.profile /\ report'[1].query = query
        BY <2>1, <2>7
    <2> QED
        BY <2>3, <2>4, <2>5, <2>8, <2>9, ZenonT(40) DEF Opened, P, Query
<1> QED
    BY <1>1, <1>2 DEF CommandNext, Discover, ValidateFile, Doctor, Symbols, ProbeSymbol

LEMMA BoundsType ==
    ASSUME Opened
    PROVE  Bounds.from \in Int /\ Bounds.to \in Int /\ Bounds.from < Bounds.to
<1>1. PICK f \in Files : P = f.profile
    BY DEF Opened
<1>2. CASE CaptureBounds(P) = <<>>
    BY <1>2 DEF Bounds
<1>3. CASE CaptureBounds(P) # <<>>
    <2>1. PICK from \in Int : CaptureBounds(P)[1].from = from
        BY <1>1, <1>3, CaptureBoundsType
    <2>2. PICK to \in Int : CaptureBounds(P)[1].to = to
        BY <1>1, <1>3, CaptureBoundsType
    <2>3. Bounds = [from |-> from, to |-> Max({from + 1, to})]
        BY <1>3, <2>1, <2>2 DEF Bounds
    <2>4. Max({from + 1, to}) = (IF from + 1 <= to THEN to ELSE from + 1)
        BY MaxOfTwo
    <2> QED
        BY <2>3, <2>4
<1> QED
    BY <1>2, <1>3

LEMMA PlacesType ==
    /\ Max(Places) \in Nat \ {0}
    /\ \A place \in Places : place \in Nat /\ place <= Max(Places)
<1>1. PICK most \in Places \ {0} : \A place \in Places : place <= most
    BY ViewerAssumption
<1>2. Places \subseteq Nat
    BY ViewerAssumption
<1>3. Max(Places) = most
    BY <1>1, <1>2, MaxOfNaturals
<1> QED
    BY <1>1, <1>2, <1>3

LEMMA TimeAtInside ==
    ASSUME Opened, NEW place \in Places
    PROVE  TimeAt(place) \in Int /\ Bounds.from <= TimeAt(place) /\ TimeAt(place) <= Bounds.to
<1>1. PICK from \in Int : Bounds.from = from
    BY BoundsType
<1>2. PICK size \in Nat : Bounds.to - from = size /\ Bounds.to = from + size
    BY <1>1, BoundsType
<1>3. PICK most \in Nat \ {0} : Max(Places) = most /\ place \in Nat /\ place <= most
    BY PlacesType
<1>4. PICK part : part = size * place
    OBVIOUS
<1>5. part \in Nat /\ part <= size * most
    BY <1>3, <1>4, ProductOrder
<1>6. part \div most \in Int /\ most * (part \div most) <= part /\ part \div most >= 0
    BY <1>3, <1>5, Quotient
<1>7. part \div most <= size
    <2>1. PICK q \in Int : q = part \div most
        BY <1>6
    <2>2. size * most = most * size /\ most * size \in Int
        BY <1>3
    <2>3. most * q <= most * size
        BY <1>5, <1>6, <2>1, <2>2
    <2>4. q <= size
        BY <1>3, <2>1, <2>3, FactorOrder
    <2> QED
        BY <2>1, <2>4
<1>8. TimeAt(place) = from + (part \div most)
    BY <1>1, <1>2, <1>3, <1>4 DEF TimeAt
<1> QED
    BY <1>1, <1>2, <1>6, <1>7, <1>8

HistogramTyped(h) ==
    \E d \in Seq(Nat), min, max \in Int :
       Sorted(d) /\ d # <<>> /\ h = <<[durations |-> d, min |-> min, max |-> max]>>

LEMMA LatencyAtType ==
    ASSUME HistogramTyped(histogram), NEW place \in Places
    PROVE  LatencyAt(place) \in Int
<1>1. PICK min \in Int, max \in Int : histogram[1].min = min /\ histogram[1].max = max
    BY DEF HistogramTyped
<1>2. PICK most \in Nat \ {0} : Max(Places) = most /\ place \in Nat
    BY PlacesType
<1>3. PICK size : size = Max({100, max - min})
    OBVIOUS
<1>4. size \in Int
    <2>1. max - min \in Int
        BY <1>1
    <2> QED
        BY <1>3, <2>1, MaxOfTwo
<1>5. size * place \in Int
    BY <1>2, <1>4
<1>6. (size * place) \div most \in Int
    BY <1>2, <1>5, Quotient
<1>7. LatencyAt(place) = min + ((size * place) \div most)
    BY <1>1, <1>2, <1>3 DEF LatencyAt
<1> QED
    BY <1>1, <1>6, <1>7

-----------------------------------------------------------------------------
(* Calculating and rendering *)

LEMMA EligiblePopulation ==
    ASSUME Opened, NEW s
    PROVE  Population(Eligible(s))
<1>1. PICK f \in Files : Loads(f) /\ P = f.profile
    BY DEF Opened
<1>2. PICK S : S = P.invocations
    OBVIOUS
<1>3. IsFiniteSet(S) /\ \A i \in S : i.id \in Nat /\ i.start \in Nat /\ i.end \in Nat
    BY <1>1, <1>2, CommandAssumption
<1>4. UniqueIds(S)
    BY <1>1, <1>2 DEF Loads, Validates
<1>5. Eligible(s) \subseteq S
    BY <1>2 DEF Eligible
<1>6. PICK T : T = Eligible(s)
    OBVIOUS
<1>7. IsFiniteSet(T)
    BY <1>3, <1>5, <1>6, FS_Subset
<1> QED
    BY <1>3, <1>4, <1>5, <1>6, <1>7 DEF Population, Measured, UniqueIds

\* What the script may calculate from, and what it is left with.
Proper(s) == Ready(s) /\ InOrder(s)

Settled(r) ==
    /\ Shaped(r) /\ InOrder(r)
    /\ \E window \in Span : r.latency = <<window>> /\ window.low <= window.high

LEMMA SettledIsProper ==
    ASSUME NEW r, Settled(r)
    PROVE  Proper(r) /\ r # <<>>
<1>1. PICK window \in Span : r.latency = <<window>>
    BY DEF Settled
<1>2. Proper(r)
    BY <1>1 DEF Settled, Proper, Ready
<1>3. r # <<>>
    <2>1. "bucket" \in DOMAIN r
        BY DEF Settled, Shaped
    <2> QED
        BY <2>1
<1> QED
    BY <1>2, <1>3

LEMMA SameEligible ==
    ASSUME NEW r, NEW s, SameFilters(r, s)
    PROVE  Eligible(r) = Eligible(s)
BY DEF SameFilters, Eligible

LEMMA CalculatedState ==
    ASSUME Opened, NEW s, Proper(s)
    PROVE  \E r : /\ r = Calculated(s)
                  /\ Settled(r)
                  /\ SyncedTo(r, s, Durations(Eligible(s)))
                  /\ Eligible(r) = Eligible(s)
                  /\ Calculated(r) = r
<1>1. PICK d : d = Durations(Eligible(s))
    OBVIOUS
<1>2. PICK r : r = Synced(s, d)
    OBVIOUS
<1>3. Sorted(d)
    BY <1>1, EligiblePopulation, DurationsAreSorted DEF DurationsOf
<1>4. SyncedTo(r, s, d)
    BY <1>2, <1>3, SyncedState DEF Proper
<1>5. InOrder(r)
    BY <1>3, <1>4, SyncedInOrder DEF Proper
<1>6. /\ \E window \in Span : r.latency = <<window>> /\ window.low <= window.high
      /\ Synced(r, d) = r
    BY <1>3, <1>4, SyncedAgain DEF Proper
<1>7. SameFilters(r, s)
    BY <1>4 DEF SyncedTo
<1>8. Settled(r)
    BY <1>5, <1>6, <1>7 DEF Settled, SameFilters
<1>9. Eligible(r) = Eligible(s)
    BY <1>7, SameEligible
<1>10. Calculated(r) = r /\ r = Calculated(s)
    BY <1>1, <1>2, <1>6, <1>9 DEF Calculated
<1> QED
    BY <1>1, <1>4, <1>8, <1>9, <1>10

LEMMA PaintedType ==
    ASSUME Opened, NEW s, Shaped(s), Eligible(s) # {}
    PROVE  HistogramTyped(Painted(s))
<1>1. PICK d : d = Durations(Eligible(s))
    OBVIOUS
<1>2. Sorted(d) /\ d # <<>>
    BY <1>1, EligiblePopulation, DurationsAreSorted DEF DurationsOf
<1>3. d \in Seq(Nat)
    BY <1>2 DEF Sorted
<1>4. PICK first \in Nat, last \in Nat : first = d[1] /\ last = d[Len(d)]
    BY <1>2, SortedEnds
<1>5. PICK bucket \in Nat : bucket = s.bucket
    BY DEF Shaped
<1>6. PICK low : low = IF bucket = 0 THEN first ELSE bucket * (first \div bucket)
    OBVIOUS
<1>7. low \in Int
    <2>1. bucket # 0 => bucket * (first \div bucket) \in Int
        <3> SUFFICES ASSUME bucket # 0 PROVE bucket * (first \div bucket) \in Int
            OBVIOUS
        <3>1. first \div bucket \in Int
            BY Quotient
        <3> QED
            BY <3>1
    <2> QED
        BY <1>6, <2>1
<1>8. PICK bins : bins = Max({1, (last - low + bucket - 1) \div bucket})
    OBVIOUS
<1>9. bucket # 0 => bins \in Int
    <2> SUFFICES ASSUME bucket # 0 PROVE bins \in Int
        OBVIOUS
    <2>1. last - low + bucket - 1 \in Int
        BY <1>7
    <2>2. (last - low + bucket - 1) \div bucket \in Int
        BY <2>1, Quotient
    <2> QED
        BY <1>8, <2>2, MaxOfTwo
<1>10. PICK max : max = IF bucket = 0 THEN 100 * last ELSE 100 * (low + bins * bucket)
    OBVIOUS
<1>11. max \in Int
    BY <1>7, <1>9, <1>10
<1>12. Painted(s) = <<[durations |-> d, min |-> 100 * low, max |-> max]>>
    BY <1>1, <1>4, <1>5, <1>6, <1>8, <1>10, ZenonT(40) DEF Painted
<1>13. 100 * low \in Int
    BY <1>7
<1> QED
    BY <1>2, <1>3, <1>11, <1>12, <1>13 DEF HistogramTyped

\* What rendering s leaves, whatever else the handler does.
Rendered(s) ==
    /\ Settled(state')
    /\ SyncedTo(state', s, Durations(Eligible(s)))
    /\ shown' = [all |-> Eligible(state'), chosen |-> Chosen(state')]
    /\ Eligible(state') = Eligible(s)
    /\ Calculated(state') = state'
    /\ shown'.chosen \subseteq shown'.all
    /\ histogram' = histogram \/ HistogramTyped(histogram')

LEMMA RenderedState ==
    ASSUME Opened, NEW s, Proper(s), Render(s)
    PROVE  Rendered(s)
<1>1. PICK r : /\ r = Calculated(s)
               /\ Settled(r)
               /\ SyncedTo(r, s, Durations(Eligible(s)))
               /\ Eligible(r) = Eligible(s)
               /\ Calculated(r) = r
    BY CalculatedState
<1>2. state' = r
    BY <1>1 DEF Render
<1>3. shown' = [all |-> Eligible(r), chosen |-> Chosen(r)]
    BY <1>1 DEF Render
<1>4. Chosen(r) \subseteq Eligible(r)
    BY DEF Chosen, InRanks
<1>5. histogram' = histogram \/ HistogramTyped(histogram')
    <2>1. CASE Eligible(s) = {}
        BY <2>1 DEF Render
    <2>2. CASE Eligible(s) # {}
        <3>1. Shaped(s)
            BY Zenon DEF Proper, Ready
        <3>2. HistogramTyped(Painted(s))
            BY <2>2, <3>1, PaintedType
        <3> QED
            BY <2>2, <3>2, SMTT(20) DEF Render
    <2> QED
        BY <2>1, <2>2
<1> QED
    BY <1>1, <1>2, <1>3, <1>4, <1>5 DEF Rendered

-----------------------------------------------------------------------------
(* What the handlers render *)

LEMMA ProperWindow ==
    ASSUME NEW r, Settled(r), NEW s, Shaped(s), s.latency = r.latency, s.percentile = r.percentile
    PROVE  Proper(s)
<1>1. s.latency # <<>>
    <2>1. PICK window \in Span : r.latency = <<window>>
        BY DEF Settled
    <2> QED
        BY <2>1
<1> QED
    BY <1>1 DEF Settled, Proper, Ready, InOrder

LEMMA ProperFields ==
    ASSUME NEW r, Settled(r)
    PROVE  /\ \A threads : Proper([r EXCEPT !.threads = threads])
           /\ \A t \in Int : Proper([r EXCEPT !.time.from = t]) /\ Proper([r EXCEPT !.time.to = t])
           /\ \A size \in Nat : Proper([r EXCEPT !.bucket = size])
           /\ \A metric : Proper([r EXCEPT !.metric = metric])
<1>1. Shaped(r)
    BY DEF Settled
<1>2. ASSUME NEW threads PROVE Proper([r EXCEPT !.threads = threads])
    <2>1. PICK s : s = [r EXCEPT !.threads = threads]
        BY Zenon
    <2>2. Shaped(s) /\ s.latency = r.latency /\ s.percentile = r.percentile
        BY <1>1, <2>1 DEF Shaped
    <2> QED
        BY <2>1, <2>2, ProperWindow
<1>3. ASSUME NEW t \in Int
      PROVE  Proper([r EXCEPT !.time.from = t]) /\ Proper([r EXCEPT !.time.to = t])
    <2>1. PICK s : s = [r EXCEPT !.time.from = t]
        BY Zenon
    <2>2. PICK u : u = [r EXCEPT !.time.to = t]
        BY Zenon
    <2>3. Shaped(s) /\ s.latency = r.latency /\ s.percentile = r.percentile
        BY <1>1, <2>1 DEF Shaped
    <2>4. Shaped(u) /\ u.latency = r.latency /\ u.percentile = r.percentile
        BY <1>1, <2>2 DEF Shaped
    <2>5. Proper(s)
        BY <2>3, ProperWindow
    <2>6. Proper(u)
        BY <2>4, ProperWindow
    <2> QED
        BY <2>1, <2>2, <2>5, <2>6
<1>4. ASSUME NEW size \in Nat PROVE Proper([r EXCEPT !.bucket = size])
    <2>1. PICK s : s = [r EXCEPT !.bucket = size]
        BY Zenon
    <2>2. Shaped(s) /\ s.latency = r.latency /\ s.percentile = r.percentile
        BY <1>1, <2>1 DEF Shaped
    <2> QED
        BY <2>1, <2>2, ProperWindow
<1>5. ASSUME NEW metric PROVE Proper([r EXCEPT !.metric = metric])
    <2>1. PICK s : s = [r EXCEPT !.metric = metric]
        BY Zenon
    <2>2. Shaped(s) /\ s.latency = r.latency /\ s.percentile = r.percentile
        BY <1>1, <2>1 DEF Shaped
    <2> QED
        BY <2>1, <2>2, ProperWindow
<1> QED
    BY <1>2, <1>3, <1>4, <1>5

\* Whole percents, low before high.
WholePercents(range) ==
    /\ range.low \in 0..100 /\ range.high \in 0..100 /\ range.low < range.high
    /\ range = [low |-> range.low, high |-> range.high]

LEMMA ScaledRange ==
    ASSUME NEW low \in 0..100, NEW high \in 0..100, low < high
    PROVE  LET scaled == [low |-> Grain * low, high |-> Grain * high]
           IN /\ scaled \in Span
              /\ 0 <= scaled.low /\ scaled.low <= scaled.high /\ scaled.high <= 100 * Grain
<1>1. Grain \in Nat
    BY ViewerAssumption
<1>2. Grain * 0 <= Grain * low /\ Grain * low <= Grain * high /\ Grain * high <= Grain * 100
    BY <1>1, ProductOrder
<1>3. Grain * low \in Int /\ Grain * high \in Int /\ Grain * 0 = 0 /\ Grain * 100 = 100 * Grain
    BY <1>1
<1> QED
    BY <1>2, <1>3 DEF Span

LEMMA RoundedType ==
    ASSUME NEW percentile \in Int
    PROVE  Rounded(percentile) \in Int
<1>1. Grain \in Nat \ {0} /\ 2 * Grain \in Nat \ {0}
    BY ViewerAssumption
<1>2. 2 * percentile + Grain \in Int
    BY <1>1
<1> QED
    BY <1>1, <1>2, Quotient DEF Rounded

LEMMA ClampedWindow ==
    ASSUME NEW range \in Span
    PROVE  WholePercents(ClampPercentileWindow(range))
<1>1. Rounded(range.low) \in Int /\ Rounded(range.high) \in Int
    BY RoundedType DEF Span
<1>2. PICK low : low = Clamp(0, 99, Rounded(range.low))
    OBVIOUS
<1>3. PICK high : high = Clamp(1, 100, Rounded(range.high))
    OBVIOUS
<1>4. low \in 0..99 /\ high \in 1..100
    <2>1. low \in Int /\ 0 <= low /\ low <= 99
        BY <1>1, <1>2, ClampedValue
    <2>2. high \in Int /\ 1 <= high /\ high <= 100
        BY <1>1, <1>3, ClampedValue
    <2> QED
        BY <2>1, <2>2
<1>5. ClampPercentileWindow(range) =
         IF low < high THEN [low |-> low, high |-> high]
         ELSE IF DraggingLow THEN [low |-> high - 1, high |-> high]
         ELSE [low |-> low, high |-> low + 1]
    BY <1>2, <1>3 DEF ClampPercentileWindow
<1> QED
    BY <1>4, <1>5 DEF WholePercents

\* A range that was typed in, and the window of the durations it names.
LEMMA ProperCommit ==
    ASSUME Opened, NEW r, Settled(r), NEW d, Sorted(d), d # <<>>, NEW next, WholePercents(next)
    PROVE  Proper([r EXCEPT !.percentile = Scaled(next),
                            !.latency = <<[low |-> PercentileR7(d, next.low)[1],
                                           high |-> PercentileR7(d, next.high)[1]]>>])
<1>1. PICK range : range = Scaled(next)
    BY Zenon
<1>2. range \in Span /\ 0 <= range.low /\ range.low <= range.high /\ range.high <= 100 * Grain
    BY <1>1, ScaledRange, Zenon DEF WholePercents, Scaled
<1>3. PICK window : window = [low |-> PercentileR7(d, next.low)[1],
                              high |-> PercentileR7(d, next.high)[1]]
    OBVIOUS
<1>4. window \in Span
    <2>1. PercentileR7(d, next.low)[1] \in Int /\ PercentileR7(d, next.high)[1] \in Int
        BY PercentileType DEF WholePercents
    <2> QED
        BY <1>3, <2>1 DEF Span
<1>5. PICK s : s = [r EXCEPT !.percentile = range, !.latency = <<window>>]
    BY Zenon
<1>6. Shaped(r)
    BY DEF Settled
<1>7. <<window>> \in LatencyRange
    BY <1>4 DEF LatencyRange
<1>8. Shaped(s) /\ s.latency = <<window>> /\ s.percentile = range
    BY <1>2, <1>5, <1>6, <1>7 DEF Shaped
<1>9. Proper(s)
    BY <1>2, <1>8 DEF Proper, Ready, InOrder
<1> QED
    BY Zenon, <1>1, <1>3, <1>5, <1>9

KeepsView(s) == s.bucket = state.bucket /\ s.metric = state.metric

KeepsPopulation(s) ==
    /\ s.threads = state.threads /\ s.time = state.time
    /\ s.latency = state.latency /\ s.percentile = state.percentile

\* One end of the time window was typed in.
CommitsTime(s) ==
    \E value \in Int :
       /\ Bounds.from <= value /\ value <= Bounds.to
       /\ \/ s.time.from = Min({value, state.time.to - 1}) /\ s.time.to = state.time.to
          \/ s.time.to = Max({value, state.time.from + 1}) /\ s.time.from = state.time.from

\* What a field or a button makes the script render.
HandlerState(s) ==
    /\ Proper(s)
    /\ \/ KeepsView(s) /\ (s.time = state.time \/ CommitsTime(s))
       \/ KeepsPopulation(s)

LEMMA ToggleRenders ==
    ASSUME Settled(state), ToggleThread
    PROVE  \E s : HandlerState(s) /\ Render(s)
<1>1. PICK t : Render([state EXCEPT !.threads = IF t \in @ THEN @ \ {t} ELSE @ \cup {t}])
    BY DEF ToggleThread
<1>2. PICK threads :
         threads = IF t \in state.threads THEN state.threads \ {t} ELSE state.threads \cup {t}
    OBVIOUS
<1>3. PICK s : s = [state EXCEPT !.threads = threads]
    BY Zenon
<1>4. Proper(s)
    BY <1>3, ProperFields
<1>5. s.time = state.time /\ KeepsView(s)
    BY <1>3 DEF Settled, Shaped, KeepsView
<1>6. Render(s)
    <2>1. Render([state EXCEPT !.threads =
                     IF t \in state.threads THEN state.threads \ {t} ELSE state.threads \cup {t}])
        BY <1>1
    <2> QED
        BY Zenon, <1>2, <1>3, <2>1
<1> QED
    BY <1>4, <1>5, <1>6 DEF HandlerState

LEMMA CommitTimeRenders ==
    ASSUME Opened, Settled(state), CommitTime
    PROVE  \E s : HandlerState(s) /\ Render(s)
<1>1. PICK entered \in TimeEntries :
         \/ Render([state EXCEPT !.time.from = Min({ClampTime(Bounds.from + entered), state.time.to - 1})])
         \/ Render([state EXCEPT !.time.to = Max({ClampTime(Bounds.from + entered), state.time.from + 1})])
    BY DEF CommitTime
<1>2. PICK value : value = ClampTime(Bounds.from + entered)
    OBVIOUS
<1>3. value \in Int /\ Bounds.from <= value /\ value <= Bounds.to
    <2>1. entered \in Int
        BY ViewerAssumption
    <2>2. PICK from \in Int, to \in Int : from = Bounds.from /\ to = Bounds.to /\ from < to
        BY BoundsType
    <2>3. value = Clamp(from, to, from + entered)
        BY <1>2, <2>2 DEF ClampTime
    <2>4. from + entered \in Int /\ from <= to
        BY <2>1, <2>2
    <2> QED
        BY <2>2, <2>3, <2>4, ClampedValue
<1>4. PICK from \in Int, to \in Int : state.time.from = from /\ state.time.to = to
    BY DEF Settled, Shaped
<1>5. PICK left : left = Min({value, to - 1})
    OBVIOUS
<1>6. PICK right : right = Max({value, from + 1})
    OBVIOUS
<1>7. left \in Int /\ right \in Int
    <2>1. to - 1 \in Int /\ from + 1 \in Int
        OBVIOUS
    <2> QED
        BY <1>3, <1>5, <1>6, <2>1, MinOfTwo, MaxOfTwo
<1>8. CASE Render([state EXCEPT !.time.from = left])
    <2>1. PICK s : s = [state EXCEPT !.time.from = left]
        BY Zenon
    <2>2. Proper(s)
        BY <1>7, <2>1, ProperFields
    <2>3. s.time.from = left /\ s.time.to = to /\ KeepsView(s)
        BY <1>4, <2>1 DEF Settled, Shaped, KeepsView
    <2>4. CommitsTime(s)
        BY <1>3, <1>4, <1>5, <2>3 DEF CommitsTime
    <2>5. Render(s)
        BY Zenon, <1>8, <2>1
    <2> QED
        BY <2>2, <2>3, <2>4, <2>5 DEF HandlerState
<1>9. CASE Render([state EXCEPT !.time.to = right])
    <2>1. PICK s : s = [state EXCEPT !.time.to = right]
        BY Zenon
    <2>2. Proper(s)
        BY <1>7, <2>1, ProperFields
    <2>3. s.time.to = right /\ s.time.from = from /\ KeepsView(s)
        BY <1>4, <2>1 DEF Settled, Shaped, KeepsView
    <2>4. CommitsTime(s)
        BY <1>3, <1>4, <1>6, <2>3 DEF CommitsTime
    <2>5. Render(s)
        BY Zenon, <1>9, <2>1
    <2> QED
        BY <2>2, <2>3, <2>4, <2>5 DEF HandlerState
<1>10. Render([state EXCEPT !.time.from = left]) \/ Render([state EXCEPT !.time.to = right])
    BY Zenon, <1>1, <1>2, <1>4, <1>5, <1>6
<1> QED
    BY <1>8, <1>9, <1>10

LEMMA CommitPercentileRenders ==
    ASSUME Opened, Settled(state), CommitPercentile
    PROVE  \E s : HandlerState(s) /\ Render(s)
<1>1. PICK d : d = Durations(Eligible(state))
    OBVIOUS
<1>2. PICK entered \in PercentEntries, edge \in {"low", "high"} :
         LET next == ClampPercentileWindow([state.percentile EXCEPT ![edge] = Grain * entered])
         IN IF d = <<>> THEN Render(state)
            ELSE Render([state EXCEPT !.percentile = Scaled(next),
                                      !.latency = <<[low |-> PercentileR7(d, next.low)[1],
                                                     high |-> PercentileR7(d, next.high)[1]]>>])
    BY <1>1 DEF CommitPercentile
<1>3. PICK range : range = [state.percentile EXCEPT ![edge] = Grain * entered]
    BY Zenon
<1>4. range \in Span
    <2>1. PICK x \in Int : x = Grain * entered
        BY ViewerAssumption
    <2>2. state.percentile \in Span
        BY DEF Settled, Shaped
    <2>3. range = [state.percentile EXCEPT ![edge] = x]
        BY Zenon, <1>3, <2>1
    <2> QED
        BY <2>2, <2>3 DEF Span
<1>5. PICK next : next = ClampPercentileWindow(range)
    OBVIOUS
<1>6. WholePercents(next)
    BY <1>4, <1>5, ClampedWindow
<1>7. CASE d = <<>>
    <2>1. Render(state)
        BY <1>2, <1>7
    <2>2. HandlerState(state)
        BY SettledIsProper DEF HandlerState, KeepsPopulation
    <2> QED
        BY <2>1, <2>2
<1>8. CASE d # <<>>
    <2>1. PICK s :
             s = [state EXCEPT !.percentile = Scaled(next),
                               !.latency = <<[low |-> PercentileR7(d, next.low)[1],
                                              high |-> PercentileR7(d, next.high)[1]]>>]
        BY Zenon
    <2>2. Sorted(d)
        BY <1>1, EligiblePopulation, DurationsAreSorted DEF DurationsOf
    <2>3. Proper(s)
        BY <1>6, <1>8, <2>1, <2>2, ProperCommit
    <2>4. s.time = state.time /\ KeepsView(s)
        BY <2>1 DEF Settled, Shaped, KeepsView
    <2>5. Render(s)
        BY Zenon, <1>2, <1>3, <1>5, <1>8, <2>1
    <2> QED
        BY <2>3, <2>4, <2>5 DEF HandlerState
<1> QED
    BY <1>7, <1>8

LEMMA ViewControlRenders ==
    ASSUME Settled(state), SetBucket \/ SetMetric
    PROVE  \E s : Proper(s) /\ KeepsPopulation(s) /\ Render(s)
<1>1. CASE SetBucket
    <2>1. PICK size \in Buckets : Render([state EXCEPT !.bucket = size])
        BY <1>1 DEF SetBucket
    <2>2. PICK s : s = [state EXCEPT !.bucket = size]
        BY Zenon
    <2>3. size \in Nat
        BY ViewerAssumption
    <2>4. Proper(s)
        BY <2>2, <2>3, ProperFields
    <2>5. KeepsPopulation(s)
        BY <2>2 DEF Settled, Shaped, KeepsPopulation
    <2> QED
        BY Zenon, <2>1, <2>2, <2>4, <2>5
<1>2. CASE SetMetric
    <2>1. PICK metric \in Metrics : Render([state EXCEPT !.metric = metric])
        BY <1>2 DEF SetMetric
    <2>2. PICK s : s = [state EXCEPT !.metric = metric]
        BY Zenon
    <2>3. Proper(s)
        BY <2>2, ProperFields
    <2>4. KeepsPopulation(s)
        BY <2>2 DEF Settled, Shaped, KeepsPopulation
    <2> QED
        BY Zenon, <2>1, <2>2, <2>3, <2>4
<1> QED
    BY <1>1, <1>2

LEMMA FieldRenders ==
    ASSUME Opened, Settled(state), Fields, ~SearchFrames
    PROVE  \E s : HandlerState(s) /\ Render(s)
<1>1. ToggleThread \/ CommitTime \/ CommitPercentile \/ SetBucket \/ SetMetric
    BY DEF Fields
<1>2. ASSUME SetBucket \/ SetMetric PROVE \E s : HandlerState(s) /\ Render(s)
    BY <1>2, ViewControlRenders DEF HandlerState
<1> QED
    BY <1>1, <1>2, ToggleRenders, CommitTimeRenders, CommitPercentileRenders

\* What the page begins with.
Loaded ==
    [threads |-> IF Query.threads = <<>> THEN P.threads ELSE Query.threads[1],
     time |-> InitialTime(Query), percentile |-> Scaled(Query.percentile),
     latency |-> <<>>, bucket |-> 0, metric |-> Query.metric]

Inside(time) ==
    /\ Bounds.from <= time.from /\ time.from <= Bounds.to
    /\ Bounds.from <= time.to /\ time.to <= Bounds.to + 1
    /\ time.from <= time.to

LEMMA InitialTimeInside ==
    ASSUME Opened
    PROVE  InitialTime(Query) \in [from : Int, to : Int] /\ Inside(InitialTime(Query))
<1>1. PICK from \in Int, to \in Int : from = Bounds.from /\ to = Bounds.to /\ from < to
    BY BoundsType
<1>2. Bounds = [from |-> from, to |-> to]
    BY <1>1 DEF Bounds
<1>3. PICK left : left = ClampTime(Query.time[1].from)
    OBVIOUS
<1>4. PICK right : right = ClampTime(Query.time[1].to)
    OBVIOUS
<1>5. InitialTime(Query) =
         IF Query.time # <<>> /\ left < right THEN [from |-> left, to |-> right] ELSE Bounds
    BY <1>3, <1>4 DEF InitialTime
<1>6. Query.time # <<>> => /\ left \in Int /\ from <= left /\ left <= to
                           /\ right \in Int /\ from <= right /\ right <= to
    <2> SUFFICES ASSUME Query.time # <<>>
                 PROVE  /\ left \in Int /\ from <= left /\ left <= to
                        /\ right \in Int /\ from <= right /\ right <= to
        OBVIOUS
    <2>1. PICK x \in Int, y \in Int : Query.time[1].from = x /\ Query.time[1].to = y
        BY DEF Opened
    <2>2. left = Clamp(from, to, x) /\ right = Clamp(from, to, y)
        BY <1>1, <1>3, <1>4, <2>1 DEF ClampTime
    <2>3. from <= to
        BY <1>1
    <2>4. left \in Int /\ from <= left /\ left <= to
        BY <2>2, <2>3, ClampedValue
    <2>5. right \in Int /\ from <= right /\ right <= to
        BY <2>2, <2>3, ClampedValue
    <2> QED
        BY <2>4, <2>5
<1>7. PICK time : time = InitialTime(Query)
    OBVIOUS
<1>8. \E x, y \in Int : /\ time = [from |-> x, to |-> y]
                        /\ from <= x /\ x <= to /\ from <= y /\ y <= to + 1 /\ x <= y
    BY <1>1, <1>2, <1>5, <1>6, <1>7, SMTT(20)
<1> QED
    BY <1>1, <1>7, <1>8 DEF Inside

LEMMA LoadedIsProper ==
    ASSUME Opened
    PROVE  Proper(Loaded)
<1>1. PICK time : time = InitialTime(Query)
    OBVIOUS
<1>2. time \in [from : Int, to : Int]
    BY <1>1, InitialTimeInside
<1>3. PICK range : range = Scaled(Query.percentile)
    BY Zenon
<1>4. /\ range \in Span /\ 0 <= range.low /\ range.low <= range.high /\ range.high <= 100 * Grain
      /\ \E low, high \in 0..100 : range = [low |-> Grain * low, high |-> Grain * high]
    <2>1. PICK low \in 0..100, high \in 0..100 :
             Query.percentile.low = low /\ Query.percentile.high = high /\ low < high
        BY Zenon DEF Opened
    <2>2. range = [low |-> Grain * low, high |-> Grain * high]
        BY <1>3, <2>1 DEF Scaled
    <2> QED
        BY <2>1, <2>2, ScaledRange, ZenonT(40)
<1>5. PICK s : s = Loaded
    OBVIOUS
<1>6. PICK threads : threads = IF Query.threads = <<>> THEN P.threads ELSE Query.threads[1]
    OBVIOUS
<1>7. s = [threads |-> threads, time |-> time, percentile |-> range,
           latency |-> <<>>, bucket |-> 0, metric |-> Query.metric]
    BY <1>1, <1>3, <1>5, <1>6 DEF Loaded
<1>8. <<>> \in LatencyRange
    BY DEF LatencyRange
<1>9. Shaped(s)
    BY <1>2, <1>4, <1>7, <1>8 DEF Shaped
<1>10. s.percentile = range
    BY <1>7
<1> QED
    BY <1>4, <1>5, <1>9, <1>10, Zenon DEF Proper, Ready, InOrder

TimeKinds == {"time-from", "time-to", "time-move", "time-select"}
LatencyKinds == {"latency-low", "latency-high", "latency-move", "latency-select"}

DragTyped(d) ==
    \E kind \in TimeKinds \cup LatencyKinds, start, low, high \in Int :
       /\ d = <<[kind |-> kind, start |-> start, low |-> low, high |-> high]>>
       /\ kind \in LatencyKinds => histogram # <<>>

LEMMA MovedTimeType ==
    ASSUME Opened, Settled(state), DragTyped(drag), drag[1].kind \in TimeKinds, NEW value \in Int
    PROVE  MovedTime(value) \in [from : Int, to : Int]
<1>1. PICK kind \in TimeKinds \cup LatencyKinds, start \in Int, low \in Int, high \in Int :
         drag = <<[kind |-> kind, start |-> start, low |-> low, high |-> high]>>
    BY DEF DragTyped
<1>2. PICK first \in Int, last \in Int : Bounds.from = first /\ Bounds.to = last
    BY BoundsType
<1>3. PICK from \in Int, to \in Int :
         state.time.from = from /\ state.time.to = to /\ state.time = [from |-> from, to |-> to]
    BY DEF Settled, Shaped
<1>4. PICK shift : shift = Max({first - low, Min({last - high, value - start})})
    OBVIOUS
<1>5. PICK a : a = Min({start, value})
    OBVIOUS
<1>6. PICK b : b = Max({start, value})
    OBVIOUS
<1>7. PICK c : c = Min({last, a + 1})
    OBVIOUS
<1>8. PICK left : left = Min({value, to - 1})
    OBVIOUS
<1>9. PICK right : right = Max({value, from + 1})
    OBVIOUS
<1>10. shift \in Int
    <2>1. last - high \in Int /\ value - start \in Int /\ first - low \in Int
        OBVIOUS
    <2>2. PICK m \in Int : m = Min({last - high, value - start})
        BY <2>1, MinOfTwo
    <2> QED
        BY <1>4, <2>1, <2>2, MaxOfTwo
<1>11. a \in Int /\ b \in Int
    BY <1>5, <1>6, MinOfTwo, MaxOfTwo
<1>12. c \in Int
    <2>1. a + 1 \in Int
        BY <1>11
    <2> QED
        BY <1>7, <2>1, MinOfTwo
<1>13. left \in Int /\ right \in Int
    <2>1. to - 1 \in Int /\ from + 1 \in Int
        OBVIOUS
    <2> QED
        BY <1>8, <1>9, <2>1, MinOfTwo, MaxOfTwo
<1>14. drag[1].kind = kind /\ drag[1].start = start /\ drag[1].low = low /\ drag[1].high = high
    BY <1>1
<1>15. MovedTime(value) =
          CASE kind = "time-from" -> [state.time EXCEPT !.from = left]
            [] kind = "time-to" -> [state.time EXCEPT !.to = right]
            [] kind = "time-move" -> [from |-> low + shift, to |-> high + shift]
            [] kind = "time-select" -> [from |-> a, to |-> IF a = b THEN c ELSE b]
    BY <1>2, <1>3, <1>4, <1>5, <1>6, <1>7, <1>8, <1>9, <1>14 DEF MovedTime
<1> QED
    BY <1>3, <1>10, <1>11, <1>12, <1>13, <1>14, <1>15 DEF TimeKinds

LEMMA MovedLatencyType ==
    ASSUME Settled(state), DragTyped(drag), drag[1].kind \in LatencyKinds,
           HistogramTyped(histogram), NEW next \in Int
    PROVE  MovedLatency(next) \in Span
<1>1. PICK kind \in TimeKinds \cup LatencyKinds, start \in Int, low \in Int, high \in Int :
         drag = <<[kind |-> kind, start |-> start, low |-> low, high |-> high]>>
    BY DEF DragTyped
<1>2. PICK min \in Int, max \in Int : histogram[1].min = min /\ histogram[1].max = max
    BY DEF HistogramTyped
<1>3. PICK window \in Span : state.latency[1] = window
    BY DEF Settled
<1>4. PICK from \in Int, to \in Int : window.low = from /\ window.high = to
    BY DEF Span
<1>5. PICK moved : moved = Max({min, Min({max - (high - low), next - (start - low)})})
    OBVIOUS
<1>6. PICK a : a = Min({start, next})
    OBVIOUS
<1>7. PICK b : b = Max({start, next})
    OBVIOUS
<1>8. PICK c : c = Min({max, a + 100})
    OBVIOUS
<1>9. PICK left : left = Min({next - (start - low), to})
    OBVIOUS
<1>10. PICK right : right = Max({next - (start - high), from})
    OBVIOUS
<1>11. moved \in Int
    <2>1. max - (high - low) \in Int /\ next - (start - low) \in Int
        OBVIOUS
    <2>2. PICK m \in Int : m = Min({max - (high - low), next - (start - low)})
        BY <2>1, MinOfTwo
    <2> QED
        BY <1>5, <2>2, MaxOfTwo
<1>12. a \in Int /\ b \in Int
    BY <1>6, <1>7, MinOfTwo, MaxOfTwo
<1>13. c \in Int
    <2>1. a + 100 \in Int
        BY <1>12
    <2> QED
        BY <1>8, <2>1, MinOfTwo
<1>14. left \in Int /\ right \in Int
    <2>1. next - (start - low) \in Int /\ next - (start - high) \in Int
        OBVIOUS
    <2> QED
        BY <1>9, <1>10, <2>1, MinOfTwo, MaxOfTwo
<1>15. drag[1].kind = kind /\ drag[1].start = start /\ drag[1].low = low /\ drag[1].high = high
    BY <1>1
<1>16. MovedLatency(next) =
          CASE kind = "latency-low" -> [window EXCEPT !.low = left]
            [] kind = "latency-high" -> [window EXCEPT !.high = right]
            [] kind = "latency-move" -> [low |-> moved, high |-> moved + (high - low)]
            [] kind = "latency-select" -> [low |-> a, high |-> IF b > a THEN b ELSE c]
    BY <1>2, <1>3, <1>4, <1>5, <1>6, <1>7, <1>8, <1>9, <1>10, <1>15 DEF MovedLatency
<1> QED
    BY <1>11, <1>12, <1>13, <1>14, <1>15, <1>16 DEF LatencyKinds, Span

\* A drag of the latency window: the script's state is synchronized with the
\* durations of the histogram last drawn.
LEMMA MovedLatencyState ==
    ASSUME Settled(state), DragTyped(drag), HistogramTyped(histogram), MoveLatency
    PROVE  Settled(state') /\ SameFilters(state', state)
<1>1. PICK place \in Places :
         state' = Synced([state EXCEPT !.latency = <<MovedLatency(LatencyAt(place))>>],
                         histogram[1].durations)
    BY DEF MoveLatency
<1>2. drag[1].kind \in LatencyKinds
    BY DEF MoveLatency, LatencyKinds
<1>3. PICK d : d = histogram[1].durations /\ Sorted(d)
    BY DEF HistogramTyped
<1>4. PICK window \in Span : window = MovedLatency(LatencyAt(place))
    BY <1>2, LatencyAtType, MovedLatencyType
<1>5. PICK s : s = [state EXCEPT !.latency = <<window>>]
    BY Zenon
<1>6. SameFilters(s, state) /\ s.latency = <<window>> /\ s.percentile = state.percentile
    BY <1>5, SetWindow DEF Settled
<1>7. Proper(s)
    <2>1. <<window>> # <<>>
        OBVIOUS
    <2>2. Ready(s)
        BY <1>6, <2>1 DEF Ready, SameFilters
    <2>3. InOrder(s)
        BY <1>6 DEF Settled, InOrder
    <2> QED
        BY <2>2, <2>3 DEF Proper
<1>8. PICK r : r = Synced(s, d)
    OBVIOUS
<1>9. SyncedTo(r, s, d)
    BY <1>3, <1>7, <1>8, SyncedState DEF Proper
<1>10. Settled(r)
    <2>1. InOrder(r)
        BY <1>3, <1>7, <1>9, SyncedInOrder DEF Proper
    <2>2. \E w \in Span : r.latency = <<w>> /\ w.low <= w.high
        BY <1>3, <1>7, <1>9, SyncedAgain DEF Proper
    <2>3. Shaped(r)
        BY <1>9 DEF SyncedTo, SameFilters
    <2> QED
        BY <2>1, <2>2, <2>3 DEF Settled
<1>11. SameFilters(r, state)
    BY <1>6, <1>9 DEF SyncedTo, SameFilters
<1>12. state' = r
    BY Zenon, <1>1, <1>3, <1>4, <1>5, <1>8
<1> QED
    BY <1>10, <1>11, <1>12

\* A drag of the time window: nothing else of the state is touched.
LEMMA MovedTimeState ==
    ASSUME Opened, Settled(state), DragTyped(drag), MoveTime
    PROVE  /\ Settled(state')
           /\ state'.latency = state.latency /\ state'.percentile = state.percentile
           /\ state'.bucket = state.bucket /\ state'.metric = state.metric
           /\ \E place \in Places : state'.time = MovedTime(TimeAt(place))
<1>1. PICK place \in Places : state' = [state EXCEPT !.time = MovedTime(TimeAt(place))]
    BY DEF MoveTime
<1>2. drag[1].kind \in TimeKinds
    BY DEF MoveTime, TimeKinds
<1>3. PICK time \in [from : Int, to : Int] : time = MovedTime(TimeAt(place))
    BY <1>2, TimeAtInside, MovedTimeType
<1>4. PICK s : s = [state EXCEPT !.time = time]
    BY Zenon
<1>5. Shaped(state)
    BY DEF Settled
<1>6. /\ Shaped(s) /\ s.time = time
      /\ s.latency = state.latency /\ s.percentile = state.percentile
      /\ s.bucket = state.bucket /\ s.metric = state.metric
    BY <1>4, <1>5 DEF Shaped
<1>7. Settled(s)
    BY <1>6 DEF Settled, InOrder
<1>8. state' = s
    BY Zenon, <1>1, <1>3, <1>4
<1> QED
    BY <1>3, <1>6, <1>7, <1>8

-----------------------------------------------------------------------------
(* The page *)

\* What every handler may rely on.
PageInv ==
    /\ events \in 0..MaxEvents
    /\ report # <<>> => Opened
    /\ Open => command = Exited /\ report # <<>> /\ Settled(state) /\ shown.chosen \subseteq shown.all
    /\ ~Open => drag = <<>> /\ histogram = <<>>
    /\ histogram # <<>> => HistogramTyped(histogram)
    /\ drag # <<>> => DragTyped(drag)
    /\ ShownIsCurrent

LEMMA OpenPageRenders ==
    ASSUME Opened, OpenPage
    PROVE  Rendered(Loaded)
<1>1. Render(Loaded)
    BY DEF OpenPage, Loaded
<1> QED
    BY <1>1, LoadedIsProper, RenderedState

LEMMA RenderedIsCurrent ==
    ASSUME UNCHANGED report, NEW s, Rendered(s)
    PROVE  ShownIsCurrent'
<1>1. Calculated(state)' = Calculated(state') /\ Eligible(state)' = Eligible(state')
        /\ Chosen(state)' = Chosen(state')
    BY DEF Calculated, Chosen, Eligible, P, Query
<1> QED
    BY <1>1 DEF Rendered, ShownIsCurrent

LEMMA HistogramStays ==
    ASSUME histogram # <<>> => HistogramTyped(histogram),
           histogram' = histogram \/ HistogramTyped(histogram')
    PROVE  /\ histogram' # <<>> => HistogramTyped(histogram')
           /\ histogram # <<>> => histogram' # <<>>
<1>1. ASSUME HistogramTyped(histogram') PROVE histogram' # <<>>
    BY <1>1 DEF HistogramTyped
<1> QED
    BY <1>1

\* What is left to show of an event.
LEMMA EventKeeps ==
    ASSUME PageInv, Event, Settled(state'), shown'.chosen \subseteq shown'.all,
           histogram' = histogram \/ HistogramTyped(histogram'),
           drag' = <<>> \/ drag' = drag \/ DragTyped(drag'), ShownIsCurrent'
    PROVE  PageInv'
<1>1. Open /\ command' = command /\ report' = report /\ events' = events + 1 /\ events < MaxEvents
    BY DEF Event, commandVars
<1>2. events' \in 0..MaxEvents
    <2>1. MaxEvents \in Nat
        BY ViewerAssumption
    <2> QED
        BY <1>1, <2>1 DEF PageInv
<1>3. (report # <<>> => Opened)'
    BY <1>1 DEF PageInv, Opened, P, Query
<1>4. Open'
    BY SettledIsProper DEF Open
<1>5. /\ histogram' # <<>> => HistogramTyped(histogram')
      /\ histogram # <<>> => histogram' # <<>>
    BY HistogramStays DEF PageInv
<1>6. (drag # <<>> => DragTyped(drag))'
    <2>1. ASSUME NEW d, DragTyped(d) PROVE d # <<>> /\ (DragTyped(drag)' \/ d # drag')
        BY <1>5, <2>1 DEF DragTyped
    <2>2. CASE drag' = drag
        BY <2>1, <2>2 DEF PageInv
    <2>3. CASE DragTyped(drag')
        BY <2>1, <2>3
    <2> QED
        BY <2>2, <2>3
<1> QED
    BY <1>1, <1>2, <1>3, <1>4, <1>5, <1>6 DEF PageInv, Settled, HistogramTyped

LEMMA PageInitially ==
    ASSUME ViewerInit
    PROVE  PageInv
<1>1. MaxEvents \in Nat
    BY ViewerAssumption
<1> QED
    BY <1>1 DEF ViewerInit, CommandInit, PageInit, PageInv, Open, ShownIsCurrent

LEMMA DragKeeps ==
    ASSUME PageInv, Drags
    PROVE  PageInv'
<1>1. Event /\ Open /\ Opened /\ Settled(state) /\ UNCHANGED report
    BY DEF Drags, PressTimeline, PressHistogram, MoveTime, MoveLatency, Release, Event,
           PageInv, Open, commandVars
<1>2. shown.chosen \subseteq shown.all
    BY <1>1 DEF PageInv
<1>3. CASE PressTimeline
    <2>1. PICK kind \in TimeKinds, place \in Places :
             Press(kind, TimeAt(place), state.time.from, state.time.to)
        BY <1>3 DEF PressTimeline, TimeKinds
    <2>2. PICK start \in Int : start = TimeAt(place)
        BY <1>1, TimeAtInside
    <2>3. PICK from \in Int, to \in Int : from = state.time.from /\ to = state.time.to
        BY <1>1 DEF Settled, Shaped
    <2>4. drag' = <<[kind |-> kind, start |-> start, low |-> from, high |-> to]>>
        BY <2>1, <2>2, <2>3 DEF Press
    <2>5. DragTyped(drag') /\ drag' # <<>>
        BY <2>4 DEF DragTyped, TimeKinds, LatencyKinds
    <2>6. ShownIsCurrent'
        BY <2>5 DEF ShownIsCurrent
    <2> QED
        BY <1>1, <1>2, <1>3, <2>5, <2>6, EventKeeps DEF PressTimeline
<1>4. CASE PressHistogram
    <2>1. HistogramTyped(histogram) /\ histogram # <<>>
        BY <1>4 DEF PressHistogram, PageInv
    <2>2. PICK window \in Span : window = state.latency[1]
        BY <1>1 DEF Settled
    <2>3. PICK low \in Int, high \in Int : low = window.low /\ high = window.high
        BY DEF Span
    <2>4. \/ drag' = <<[kind |-> "latency-low", start |-> low, low |-> low, high |-> high]>>
          \/ drag' = <<[kind |-> "latency-high", start |-> high, low |-> low, high |-> high]>>
          \/ \E kind \in {"latency-move", "latency-select"}, place \in Places :
                drag' = <<[kind |-> kind, start |-> LatencyAt(place), low |-> low, high |-> high]>>
        BY <1>4, <2>2, <2>3 DEF PressHistogram, Press
    <2>5. \A place \in Places : LatencyAt(place) \in Int
        BY <2>1, LatencyAtType
    <2>6. \E kind \in LatencyKinds, start \in Int :
             drag' = <<[kind |-> kind, start |-> start, low |-> low, high |-> high]>>
        BY <2>4, <2>5 DEF LatencyKinds
    <2>7. DragTyped(drag') /\ drag' # <<>>
        BY <2>1, <2>6 DEF DragTyped
    <2>8. ShownIsCurrent'
        BY <2>7 DEF ShownIsCurrent
    <2> QED
        BY <1>1, <1>2, <1>4, <2>7, <2>8, EventKeeps DEF PressHistogram
<1>5. CASE MoveTime
    <2>1. DragTyped(drag) /\ drag' = drag /\ drag' # <<>>
        BY <1>5 DEF MoveTime, PageInv
    <2>2. Settled(state')
        BY <1>1, <1>5, <2>1, MovedTimeState
    <2>3. ShownIsCurrent'
        BY <2>1 DEF ShownIsCurrent
    <2> QED
        BY <1>1, <1>2, <1>5, <2>1, <2>2, <2>3, EventKeeps DEF MoveTime
<1>6. CASE MoveLatency
    <2>1. /\ DragTyped(drag) /\ drag' = drag /\ drag' # <<>>
          /\ drag[1].kind \in LatencyKinds
        BY <1>6 DEF MoveLatency, PageInv, LatencyKinds
    <2>2. HistogramTyped(histogram)
        <3>1. histogram # <<>>
            BY <2>1 DEF DragTyped
        <3> QED
            BY <3>1 DEF PageInv
    <2>3. Settled(state')
        BY <1>1, <1>6, <2>1, <2>2, MovedLatencyState
    <2>4. ShownIsCurrent'
        BY <2>1 DEF ShownIsCurrent
    <2> QED
        BY <1>1, <1>2, <1>6, <2>1, <2>3, <2>4, EventKeeps DEF MoveLatency
<1>7. CASE Release
    <2>1. Rendered(state)
        BY <1>1, <1>7, SettledIsProper, RenderedState DEF Release
    <2>2. ShownIsCurrent'
        BY <1>1, <2>1, RenderedIsCurrent
    <2> QED
        BY <1>1, <1>7, <2>1, <2>2, EventKeeps DEF Release, Rendered
<1> QED
    BY <1>3, <1>4, <1>5, <1>6, <1>7 DEF Drags

LEMMA FieldKeeps ==
    ASSUME PageInv, Fields
    PROVE  PageInv'
<1>1. Event /\ Open /\ Opened /\ Settled(state) /\ UNCHANGED <<report, drag>>
    BY DEF Fields, ToggleThread, CommitTime, CommitPercentile, SetBucket, SetMetric, SearchFrames,
           Event, PageInv, Open, commandVars
<1>2. shown.chosen \subseteq shown.all
    BY <1>1 DEF PageInv
<1>3. CASE SearchFrames
    <2>1. PICK r : r = Calculated(state) /\ Settled(r)
        BY <1>1, SettledIsProper, CalculatedState
    <2>2. state' = r /\ UNCHANGED <<shown, histogram>>
        BY <1>3, <2>1 DEF SearchFrames
    <2>3. ShownIsCurrent'
        <3>1. CASE drag = <<>>
            <4>1. r = state
                BY <1>1, <2>1, <3>1 DEF PageInv, ShownIsCurrent
            <4> QED
                BY <1>1, <2>2, <3>1, <4>1 DEF PageInv, ShownIsCurrent, Open, Calculated,
                       Chosen, Eligible, P, Query
        <3>2. CASE drag # <<>>
            BY <1>1, <3>2 DEF ShownIsCurrent
        <3> QED
            BY <3>1, <3>2
    <2> QED
        BY <1>1, <1>2, <2>1, <2>2, <2>3, EventKeeps
<1>4. CASE ~SearchFrames
    <2>1. PICK s : HandlerState(s) /\ Render(s)
        BY <1>1, <1>4, FieldRenders
    <2>2. Rendered(s)
        BY <1>1, <2>1, RenderedState DEF HandlerState
    <2>3. ShownIsCurrent'
        BY <1>1, <2>2, RenderedIsCurrent
    <2> QED
        BY <1>1, <2>2, <2>3, EventKeeps DEF Rendered
<1> QED
    BY <1>3, <1>4

\* A command runs before there is a page.
LEMMA NoPageYet ==
    ASSUME PageInv, CommandNext
    PROVE  ~Open
<1>1. command = NotRun
    BY DEF CommandNext, View, Discover, ValidateFile, Doctor, Symbols, ProbeSymbol
<1>2. NotRun # Exited
    BY DEF NotRun, Exited
<1> QED
    BY <1>1, <1>2 DEF PageInv

LEMMA PageKept ==
    ASSUME PageInv, [ViewerNext]_viewerVars
    PROVE  PageInv'
<1>1. CASE CommandNext /\ UNCHANGED pageVars
    <2>1. ~Open
        BY <1>1, NoPageYet
    <2>2. (report # <<>> => Opened)'
        BY <1>1, OpenedAfter DEF PageInv
    <2> QED
        BY <1>1, <2>1, <2>2 DEF PageInv, pageVars, Open, ShownIsCurrent
<1>2. CASE OpenPage
    <2>1. /\ Opened /\ report # <<>> /\ drag = <<>> /\ histogram = <<>>
          /\ UNCHANGED <<report, drag, events>> /\ command' = Exited
        BY <1>2 DEF OpenPage, PageInv
    <2>2. Rendered(Loaded)
        BY <1>2, <2>1, OpenPageRenders
    <2>3. ShownIsCurrent'
        BY <2>1, <2>2, RenderedIsCurrent
    <2>4. Settled(state') /\ shown'.chosen \subseteq shown'.all
        BY <2>2 DEF Rendered
    <2>5. Open'
        BY <2>4, SettledIsProper DEF Open
    <2>6. histogram' # <<>> => HistogramTyped(histogram')
        BY <2>1, <2>2 DEF Rendered
    <2>7. (report # <<>> => Opened)'
        BY <2>1 DEF Opened, P, Query
    <2> QED
        BY <2>1, <2>3, <2>4, <2>5, <2>6, <2>7 DEF PageInv, Settled, HistogramTyped
<1>3. CASE UNCHANGED viewerVars
    BY <1>3 DEF viewerVars, commandVars, pageVars, PageInv, Opened, P, Query, Open, DragTyped,
                ShownIsCurrent, Calculated, Chosen, Eligible
<1> QED
    BY <1>1, <1>2, <1>3, FieldKeeps, DragKeeps DEF ViewerNext

\* Every handler finds the script's state, its drag and its histogram as the
\* handlers before it may have left them, and leaves them so.
THEOREM PageInvariant == ViewerSpec => []PageInv
<1>1. ViewerInit => PageInv
    BY PageInitially
<1>2. PageInv /\ [ViewerNext]_viewerVars => PageInv'
    BY PageKept
<1> QED
    BY <1>1, <1>2, PTL DEF ViewerSpec

\* The script's state stays typed and its windows in order, whatever is typed
\* in and dragged, on every file and for every query.
THEOREM PageTyped == ViewerSpec => []ViewerTypeOK
<1>1. PageInv => ViewerTypeOK
    <2> SUFFICES ASSUME PageInv PROVE ViewerTypeOK
        OBVIOUS
    <2>1. ASSUME Open PROVE state.latency[1].low <= state.latency[1].high
        <3>1. PICK window \in Span : state.latency = <<window>> /\ window.low <= window.high
            BY <2>1 DEF PageInv, Settled
        <3> QED
            BY <3>1
    <2> QED
        BY <2>1 DEF PageInv, ViewerTypeOK, Settled, InOrder
<1> QED
    BY <1>1, PageInvariant, PTL

\* No handler returns with the page showing something else than its state, but
\* for a drag that is not over.
THEOREM PageIsCurrent == ViewerSpec => []ShownIsCurrent
<1>1. PageInv => ShownIsCurrent
    BY DEF PageInv
<1> QED
    BY <1>1, PageInvariant, PTL

-----------------------------------------------------------------------------
(* View controls *)

LEMMA ControlKeepsWindow ==
    ASSUME PageInv, Open, drag = <<>>, NEW s, Proper(s), KeepsPopulation(s), Rendered(s)
    PROVE  shown' = shown
<1>1. PICK r : r = state'
    OBVIOUS
<1>2. PICK d : d = Durations(Eligible(s))
    OBVIOUS
<1>3. Opened /\ Settled(state)
    BY DEF PageInv
<1>4. Eligible(s) = Eligible(state) /\ Sorted(d)
    <2>1. Eligible(s) = Eligible(state)
        BY DEF KeepsPopulation, Eligible
    <2> QED
        BY <1>2, <1>3, <2>1, EligiblePopulation, DurationsAreSorted DEF DurationsOf
<1>5. SyncedTo(r, s, d)
    BY <1>1, <1>2 DEF Rendered
<1>6. SyncedTo(state, state, d)
    <2>1. Calculated(state) = state
        BY DEF PageInv, ShownIsCurrent
    <2>2. Synced(state, d) = state
        BY <1>2, <1>4, <2>1 DEF Calculated
    <2>3. Ready(state)
        BY <1>3, SettledIsProper DEF Proper
    <2> QED
        BY <1>4, <2>2, <2>3, SyncedState
<1>7. WindowOf(s, d) = WindowOf(state, d)
    BY DEF KeepsPopulation, WindowOf
<1>8. r.latency = state.latency
    BY <1>5, <1>6, <1>7 DEF SyncedTo
<1>9. r.percentile = state.percentile
    BY <1>5, <1>6, <1>8 DEF SyncedTo, KeepsPopulation
<1>10. shown' = [all |-> Eligible(r), chosen |-> Chosen(r)] /\ Eligible(r) = Eligible(s)
    BY <1>1 DEF Rendered
<1>11. Chosen(r) = Chosen(state)
    BY <1>4, <1>9, <1>10 DEF Chosen
<1>12. shown = [all |-> Eligible(state), chosen |-> Chosen(state)]
    BY DEF PageInv, ShownIsCurrent
<1> QED
    BY <1>4, <1>10, <1>11, <1>12

LEMMA ControlStep ==
    ASSUME PageInv, ViewerNext, Open, drag = <<>>,
           state.bucket # state'.bucket \/ state.metric # state'.metric
    PROVE  shown' = shown
<1>1. Opened /\ Settled(state) /\ Calculated(state) = state
    BY DEF PageInv, ShownIsCurrent
<1>2. Fields /\ ~SearchFrames
    BY <1>1 DEF ViewerNext, pageVars, OpenPage, Drags, PressTimeline, PressHistogram, MoveTime,
                MoveLatency, Release, Fields, SearchFrames
<1>3. PICK s : HandlerState(s) /\ Render(s)
    BY <1>1, <1>2, FieldRenders
<1>4. Proper(s)
    BY <1>3 DEF HandlerState
<1>5. Rendered(s)
    BY <1>1, <1>3, <1>4, RenderedState
<1>6. ~KeepsView(s)
    <2>1. state'.bucket = s.bucket /\ state'.metric = s.metric
        BY <1>5 DEF Rendered, SyncedTo, SameFilters
    <2> QED
        BY <2>1 DEF KeepsView
<1>7. KeepsPopulation(s)
    BY <1>3, <1>6 DEF HandlerState
<1> QED
    BY <1>4, <1>5, <1>7, ControlKeepsWindow

\* Choosing a bucket or a metric changes what is drawn and never who is shown.
THEOREM ControlsKeepPopulation == ViewerSpec => ViewControlsKeepPopulation
<1> DEFINE Kept == (Open /\ drag = <<>> /\ (state.bucket # state'.bucket \/ state.metric # state'.metric))
                      => shown' = shown
<1>1. PageInv /\ [ViewerNext]_viewerVars => [Kept]_viewerVars
    BY ControlStep
<1> QED
    BY <1>1, PageInvariant, PTL DEF ViewerSpec, ViewControlsKeepPopulation

-----------------------------------------------------------------------------
(* The time window *)

\* A window from..to in the bounds first..last, but for one nanosecond, and
\* that at one end only.
Near(first, last, from, to) ==
    /\ first - 1 <= from /\ from <= last
    /\ first <= to /\ to <= last + 1
    /\ from <= to
    /\ from = first - 1 => to <= last

TimeInv ==
    /\ Open => Near(Bounds.from, Bounds.to, state.time.from, state.time.to)
    /\ (drag # <<>> /\ drag[1].kind \in TimeKinds) =>
          /\ Near(Bounds.from, Bounds.to, drag[1].low, drag[1].high)
          /\ Bounds.from <= drag[1].start /\ drag[1].start <= Bounds.to

LEMMA MovedEnd ==
    ASSUME NEW first \in Int, NEW last \in Int, first < last,
           NEW from \in Int, NEW to \in Int, Near(first, last, from, to),
           NEW value \in Int, first <= value, value <= last
    PROVE  /\ Near(first, last, Min({value, to - 1}), to)
           /\ Near(first, last, from, Max({value, from + 1}))
<1>1. to - 1 \in Int /\ from + 1 \in Int
    OBVIOUS
<1>2. Min({value, to - 1}) = (IF value <= to - 1 THEN value ELSE to - 1)
        /\ Max({value, from + 1}) = (IF value <= from + 1 THEN from + 1 ELSE value)
    BY <1>1, MinOfTwo, MaxOfTwo
<1> QED
    BY <1>2 DEF Near

LEMMA MovedStrip ==
    ASSUME NEW first \in Int, NEW last \in Int, first < last,
           NEW low \in Int, NEW high \in Int, Near(first, last, low, high), NEW by \in Int
    PROVE  LET shift == Max({first - low, Min({last - high, by})})
           IN Near(first, last, low + shift, high + shift)
<1>1. PICK m : m = Min({last - high, by})
    OBVIOUS
<1>2. m = (IF last - high <= by THEN last - high ELSE by) /\ m \in Int /\ first - low \in Int
    <2>1. last - high \in Int
        OBVIOUS
    <2> QED
        BY <1>1, <2>1, MinOfTwo
<1>3. PICK shift : shift = Max({first - low, m})
    OBVIOUS
<1>4. shift = IF first - low <= m THEN m ELSE first - low
    BY <1>2, <1>3, MaxOfTwo
<1>5. Near(first, last, low + shift, high + shift)
    BY <1>2, <1>4 DEF Near
<1> QED
    BY <1>1, <1>3, <1>5

LEMMA MovedSelection ==
    ASSUME NEW first \in Int, NEW last \in Int, first < last,
           NEW start \in Int, NEW value \in Int,
           first <= start, start <= last, first <= value, value <= last
    PROVE  LET low == Min({start, value})
               high == Max({start, value})
           IN Near(first, last, low, IF low = high THEN Min({last, low + 1}) ELSE high)
<1>1. PICK low : low = Min({start, value})
    OBVIOUS
<1>2. PICK high : high = Max({start, value})
    OBVIOUS
<1>3. low = (IF start <= value THEN start ELSE value)
        /\ high = (IF start <= value THEN value ELSE start)
    BY <1>1, <1>2, MinOfTwo, MaxOfTwo
<1>4. Min({last, low + 1}) = IF last <= low + 1 THEN last ELSE low + 1
    <2>1. low + 1 \in Int
        BY <1>3
    <2> QED
        BY <2>1, MinOfTwo
<1>5. Near(first, last, low, IF low = high THEN Min({last, low + 1}) ELSE high)
    BY <1>3, <1>4 DEF Near
<1> QED
    BY <1>1, <1>2, <1>5

LEMMA MovedTimeNear ==
    ASSUME PageInv, TimeInv, Open, drag # <<>>, drag[1].kind \in TimeKinds, NEW place \in Places
    PROVE  LET time == MovedTime(TimeAt(place))
           IN Near(Bounds.from, Bounds.to, time.from, time.to)
<1>1. Opened /\ Settled(state) /\ DragTyped(drag)
    BY DEF PageInv
<1>2. PICK kind \in TimeKinds \cup LatencyKinds, start \in Int, low \in Int, high \in Int :
         drag = <<[kind |-> kind, start |-> start, low |-> low, high |-> high]>>
    BY <1>1 DEF DragTyped
<1>3. PICK first \in Int, last \in Int : Bounds.from = first /\ Bounds.to = last /\ first < last
    BY <1>1, BoundsType
<1>4. PICK from \in Int, to \in Int :
         state.time.from = from /\ state.time.to = to /\ state.time = [from |-> from, to |-> to]
    BY <1>1 DEF Settled, Shaped
<1>5. PICK value \in Int : value = TimeAt(place) /\ first <= value /\ value <= last
    BY <1>1, <1>3, TimeAtInside
<1>6. drag[1].kind = kind /\ drag[1].start = start /\ drag[1].low = low /\ drag[1].high = high
    BY <1>2
<1>7. /\ Near(first, last, from, to)
      /\ Near(first, last, low, high)
      /\ first <= start /\ start <= last
    BY <1>3, <1>4, <1>6 DEF TimeInv
<1>8. PICK time : time = MovedTime(value)
    OBVIOUS
<1>9. CASE kind = "time-from"
    <2>1. time = [state.time EXCEPT !.from = Min({value, to - 1})]
        BY <1>4, <1>6, <1>8, <1>9 DEF MovedTime
    <2>2. time.from = Min({value, to - 1}) /\ time.to = to
        BY <1>4, <2>1
    <2>3. Near(first, last, Min({value, to - 1}), to)
        BY <1>3, <1>5, <1>7, MovedEnd
    <2> QED
        BY <1>3, <1>5, <1>8, <2>2, <2>3
<1>10. CASE kind = "time-to"
    <2>1. time = [state.time EXCEPT !.to = Max({value, from + 1})]
        BY <1>4, <1>6, <1>8, <1>10 DEF MovedTime
    <2>2. time.from = from /\ time.to = Max({value, from + 1})
        BY <1>4, <2>1
    <2>3. Near(first, last, from, Max({value, from + 1}))
        BY <1>3, <1>5, <1>7, MovedEnd
    <2> QED
        BY <1>3, <1>5, <1>8, <2>2, <2>3
<1>11. CASE kind = "time-move"
    <2>1. PICK shift : shift = Max({first - low, Min({last - high, value - start})})
        OBVIOUS
    <2>2. time = [from |-> low + shift, to |-> high + shift]
        BY <1>3, <1>6, <1>8, <1>11, <2>1 DEF MovedTime
    <2>3. value - start \in Int
        OBVIOUS
    <2>4. Near(first, last, low + shift, high + shift)
        BY <1>3, <1>7, <2>1, <2>3, MovedStrip
    <2> QED
        BY <1>3, <1>5, <1>8, <2>2, <2>4
<1>12. CASE kind = "time-select"
    <2>1. PICK a : a = Min({start, value})
        OBVIOUS
    <2>2. PICK b : b = Max({start, value})
        OBVIOUS
    <2>3. time = [from |-> a, to |-> IF a = b THEN Min({last, a + 1}) ELSE b]
        BY <1>3, <1>6, <1>8, <1>12, <2>1, <2>2 DEF MovedTime
    <2>4. Near(first, last, a, IF a = b THEN Min({last, a + 1}) ELSE b)
        BY <1>3, <1>5, <1>7, <2>1, <2>2, MovedSelection
    <2> QED
        BY <1>3, <1>5, <1>8, <2>3, <2>4
<1> QED
    BY <1>6, <1>9, <1>10, <1>11, <1>12 DEF TimeKinds

LEMMA CommittedNear ==
    ASSUME PageInv, TimeInv, Open, NEW s, CommitsTime(s)
    PROVE  Near(Bounds.from, Bounds.to, s.time.from, s.time.to)
<1>1. Opened /\ Settled(state)
    BY DEF PageInv
<1>2. PICK first \in Int, last \in Int : Bounds.from = first /\ Bounds.to = last /\ first < last
    BY <1>1, BoundsType
<1>3. PICK from \in Int, to \in Int : state.time.from = from /\ state.time.to = to
    BY <1>1 DEF Settled, Shaped
<1>4. PICK value \in Int :
         /\ first <= value /\ value <= last
         /\ \/ s.time.from = Min({value, to - 1}) /\ s.time.to = to
            \/ s.time.to = Max({value, from + 1}) /\ s.time.from = from
    BY <1>2, <1>3 DEF CommitsTime
<1>5. Near(first, last, from, to)
    BY <1>2, <1>3 DEF TimeInv
<1>6. /\ Near(first, last, Min({value, to - 1}), to)
      /\ Near(first, last, from, Max({value, from + 1}))
    BY <1>2, <1>4, <1>5, MovedEnd
<1> QED
    BY <1>2, <1>4, <1>6

\* A drag keeps what it began with, and begins with the window of the time.
LEMMA TimeDragKept ==
    ASSUME PageInv, TimeInv, Open, report' = report,
           drag' = drag \/ drag' = <<>> \/ PressTimeline \/ PressHistogram
    PROVE  (drag # <<>> /\ drag[1].kind \in TimeKinds =>
              /\ Near(Bounds.from, Bounds.to, drag[1].low, drag[1].high)
              /\ Bounds.from <= drag[1].start /\ drag[1].start <= Bounds.to)'
<1>1. Bounds' = Bounds
    BY DEF Bounds, P
<1>2. Opened
    BY DEF PageInv
<1>3. CASE drag' = drag \/ drag' = <<>>
    BY <1>1, <1>3 DEF TimeInv
<1>4. CASE PressTimeline
    <2>1. PICK kind \in TimeKinds, place \in Places :
             Press(kind, TimeAt(place), state.time.from, state.time.to)
        BY <1>4 DEF PressTimeline, TimeKinds
    <2>2. drag'[1].start = TimeAt(place) /\ drag'[1].low = state.time.from /\ drag'[1].high = state.time.to
        BY <2>1 DEF Press
    <2>3. Bounds.from <= TimeAt(place) /\ TimeAt(place) <= Bounds.to
        BY <1>2, TimeAtInside
    <2> QED
        BY <1>1, <2>2, <2>3 DEF TimeInv
<1>5. CASE PressHistogram
    <2>1. drag'[1].kind \in LatencyKinds
        BY <1>5 DEF PressHistogram, Press, LatencyKinds
    <2> QED
        BY <2>1 DEF LatencyKinds, TimeKinds
<1> QED
    BY <1>3, <1>4, <1>5

LEMMA TimeKept ==
    ASSUME PageInv, TimeInv, [ViewerNext]_viewerVars
    PROVE  TimeInv'
<1>1. CASE (CommandNext /\ UNCHANGED pageVars)
    <2>1. ~Open
        BY <1>1, NoPageYet
    <2> QED
        BY <1>1, <2>1 DEF PageInv, TimeInv, pageVars, Open
<1>2. CASE OpenPage
    <2>1. Opened /\ drag = <<>> /\ UNCHANGED <<report, drag>>
        BY <1>2 DEF OpenPage, PageInv
    <2>2. Rendered(Loaded)
        BY <1>2, <2>1, OpenPageRenders
    <2>3. state'.time = InitialTime(Query)
        BY <2>2 DEF Rendered, SyncedTo, SameFilters, Loaded
    <2>4. PICK time \in [from : Int, to : Int] : time = InitialTime(Query) /\ Inside(time)
        BY <2>1, InitialTimeInside
    <2>5. Near(Bounds.from, Bounds.to, time.from, time.to)
        BY <2>1, <2>4, BoundsType DEF Inside, Near
    <2>6. Bounds' = Bounds
        BY <2>1 DEF Bounds, P
    <2> QED
        BY <2>1, <2>3, <2>4, <2>5, <2>6 DEF TimeInv
<1>3. CASE Fields \/ Drags
    <2>1. Open /\ Opened /\ Settled(state) /\ UNCHANGED report
        BY <1>3 DEF Fields, ToggleThread, CommitTime, CommitPercentile, SetBucket, SetMetric,
               SearchFrames, Drags, PressTimeline, PressHistogram, MoveTime, MoveLatency, Release,
               Event, PageInv, Open, commandVars
    <2>2. drag' = drag \/ drag' = <<>> \/ PressTimeline \/ PressHistogram
        BY <1>3 DEF Fields, ToggleThread, CommitTime, CommitPercentile, SetBucket, SetMetric,
               SearchFrames, Drags, MoveTime, MoveLatency, Release
    <2>3. Bounds' = Bounds
        BY <2>1 DEF Bounds, P
    <2>4. Near(Bounds.from, Bounds.to, state.time.from, state.time.to)
        BY <2>1 DEF TimeInv
    <2>5. Near(Bounds.from, Bounds.to, state'.time.from, state'.time.to)
        <3>1. CASE SearchFrames
            <4>1. PICK r : r = Calculated(state) /\ SyncedTo(r, state, Durations(Eligible(state)))
                BY <2>1, SettledIsProper, CalculatedState
            <4>2. state'.time = state.time
                BY <3>1, <4>1 DEF SearchFrames, SyncedTo, SameFilters
            <4> QED
                BY <2>4, <4>2
        <3>2. CASE Fields /\ ~SearchFrames
            <4>1. PICK s : HandlerState(s) /\ Render(s)
                BY <2>1, <3>2, FieldRenders
            <4>2. Rendered(s)
                BY <2>1, <4>1, RenderedState DEF HandlerState
            <4>3. state'.time = s.time
                BY <4>2 DEF Rendered, SyncedTo, SameFilters
            <4>4. s.time = state.time \/ CommitsTime(s)
                BY <4>1 DEF HandlerState, KeepsPopulation
            <4>5. CommitsTime(s) => Near(Bounds.from, Bounds.to, s.time.from, s.time.to)
                BY <2>1, CommittedNear
            <4> QED
                BY <2>4, <4>3, <4>4, <4>5
        <3>3. CASE PressTimeline \/ PressHistogram
            BY <2>4, <3>3 DEF PressTimeline, PressHistogram
        <3>4. CASE MoveTime
            <4>1. drag # <<>> /\ drag[1].kind \in TimeKinds /\ DragTyped(drag)
                BY <3>4 DEF MoveTime, TimeKinds, PageInv
            <4>2. PICK place \in Places : state'.time = MovedTime(TimeAt(place))
                BY <2>1, <3>4, <4>1, MovedTimeState
            <4> QED
                BY <2>1, <4>1, <4>2, MovedTimeNear
        <3>5. CASE MoveLatency
            <4>1. DragTyped(drag) /\ drag[1].kind \in LatencyKinds
                BY <3>5 DEF MoveLatency, LatencyKinds, PageInv
            <4>2. HistogramTyped(histogram)
                BY <4>1 DEF DragTyped, PageInv
            <4>3. state'.time = state.time
                BY <2>1, <3>5, <4>1, <4>2, MovedLatencyState DEF SameFilters
            <4> QED
                BY <2>4, <4>3
        <3>6. CASE Release
            <4>1. Rendered(state)
                BY <2>1, <3>6, SettledIsProper, RenderedState DEF Release
            <4>2. state'.time = state.time
                BY <4>1 DEF Rendered, SyncedTo, SameFilters
            <4> QED
                BY <2>4, <4>2
        <3> QED
            BY <1>3, <3>1, <3>2, <3>3, <3>4, <3>5, <3>6 DEF Drags
    <2> QED
        BY <2>1, <2>2, <2>3, <2>5, TimeDragKept DEF TimeInv
<1>4. CASE UNCHANGED viewerVars
    BY <1>4 DEF viewerVars, commandVars, pageVars, TimeInv, Open, Bounds, P
<1> QED
    BY <1>1, <1>2, <1>3, <1>4 DEF ViewerNext

\* Typing, dragging and moving never take the time window out of the capture
\* by more than a nanosecond, at one of its two ends.
THEOREM TimeStaysInside == ViewerSpec => []WindowInBounds
<1>1. ViewerInit => TimeInv
    BY DEF ViewerInit, PageInit, TimeInv, Open
<1>2. PageInv /\ TimeInv /\ [ViewerNext]_viewerVars => TimeInv'
    BY TimeKept
<1>3. TimeInv => WindowInBounds
    BY DEF TimeInv, Near, WindowInBounds
<1> QED
    BY <1>1, <1>2, <1>3, PageInvariant, PTL DEF ViewerSpec

-----------------------------------------------------------------------------
(* Who is selected *)

\* A rank at or after RankAt lies at or after the fraction q of whole, and one
\* before it before.
LEMMA RankAtFraction ==
    ASSUME NEW n \in Nat, NEW q \in Nat, NEW whole \in Nat \ {0}, NEW rank \in Nat, rank < n
    PROVE  IF rank < RankAt(n, q, whole) THEN whole * rank < n * q ELSE n * q <= whole * rank
<1>1. PICK part \in Nat : part = n * q
    OBVIOUS
<1>2. PICK rounded : rounded = (part + (whole - 1)) \div whole
    OBVIOUS
<1>3. /\ rounded \in Int
      /\ whole * rounded <= part + (whole - 1)
      /\ part + (whole - 1) < whole * (rounded + 1)
    <2>1. part + (whole - 1) \in Int
        OBVIOUS
    <2> QED
        BY <1>2, <2>1, Quotient
<1>4. RankAt(n, q, whole) = IF rounded < n THEN rounded ELSE n
    BY <1>1, <1>2 DEF RankAt
<1>5. whole * (rank + 1) = whole * rank + whole /\ whole * rank \in Int
    OBVIOUS
<1>6. CASE rank < RankAt(n, q, whole)
    <2>1. rank + 1 <= rounded
        BY <1>3, <1>4, <1>6
    <2>2. whole * (rank + 1) <= whole * rounded /\ whole * rounded \in Int
        BY <1>3, <2>1, ProductOrder
    <2>3. whole * rank < part
        BY <1>3, <1>5, <2>2
    <2> QED
        BY <1>1, <1>6, <2>3
<1>7. CASE ~(rank < RankAt(n, q, whole))
    <2>1. rounded + 1 <= rank + 1 /\ rounded + 1 \in Int /\ rank + 1 \in Int
        BY <1>3, <1>4, <1>7
    <2>2. whole * (rounded + 1) <= whole * (rank + 1) /\ whole * (rounded + 1) \in Int
        BY <2>1, ProductOrder
    <2>3. part <= whole * rank
        BY <1>3, <1>5, <2>2
    <2> QED
        BY <1>1, <1>7, <2>3
<1> QED
    BY <1>6, <1>7

\* A unit of the percentiles tells every two durations apart.
Fine(d) == \A k \in 1..Len(d) : d[k] * (Len(d) - 1) <= Grain

LEMMA DurationsAreFine ==
    ASSUME Opened, NEW s
    PROVE  Fine(Durations(Eligible(s)))
<1>1. PICK f \in Files : P = f.profile
    BY DEF Opened
<1>2. PICK S : S = P.invocations
    OBVIOUS
<1>3. PICK T : T = Eligible(s)
    OBVIOUS
<1>4. PICK d : d = Durations(T)
    OBVIOUS
<1>5. Population(T) /\ DurationsOf(d, T)
    BY <1>3, <1>4, EligiblePopulation, DurationsAreSorted
<1>6. /\ IsFiniteSet(S) /\ T \subseteq S
      /\ \A i \in S : i.start \in Nat /\ i.end \in Nat
      /\ \A i \in S : Duration(i) * (Cardinality(S) - 1) <= Grain
    BY <1>1, <1>2, <1>3, CommandAssumption, ViewerAssumption DEF Eligible
<1>7. PICK n \in Nat, all \in Nat : n = Cardinality(T) /\ all = Cardinality(S) /\ n <= all
    BY <1>6, FS_Subset, FS_CardinalityType
<1>8. Len(d) = n
    BY <1>5, <1>7 DEF DurationsOf
<1>9. ASSUME NEW k \in 1..n PROVE d[k] * (n - 1) <= Grain
    <2>1. k - 1 \in 0..(Cardinality(T) - 1)
        BY <1>7
    <2>2. PICK i \in T : Rank(i, T) = k - 1
        BY <1>5, <2>1, RanksFill
    <2>3. d[Rank(i, T) + 1] = Duration(i)
        BY <1>5 DEF DurationsOf
    <2>4. d[k] = Duration(i)
        BY <2>2, <2>3
    <2>5. PICK x \in Nat : x = Duration(i) /\ x * (all - 1) <= Grain
        BY <1>6, <1>7 DEF Duration
    <2>6. n - 1 \in Int /\ all - 1 \in Int /\ n - 1 <= all - 1
        BY <1>7
    <2>7. x * (n - 1) <= x * (all - 1) /\ x * (n - 1) \in Int /\ x * (all - 1) \in Int
        BY <2>6, ProductOrder
    <2>8. Grain \in Int
        BY ViewerAssumption
    <2> QED
        BY <2>4, <2>5, <2>7, <2>8
<1> QED
    BY <1>3, <1>4, <1>8, <1>9 DEF Fine

\* The percentile of the low edge lies after the last rank it has passed, so
\* far that rounding to a rank cannot bring that one back.
LEMMA LowEdge ==
    ASSUME NEW d, Sorted(d), Fine(d), NEW v \in Int, Between(d, v)
    PROVE  100 * Grain * (Index(d, v, "low") - 1) < Len(d) * PercentileAtDuration(d, v, "low")
<1>1. PICK n \in Nat : n = Len(d) /\ n > 1
    BY DEF Sorted, Between
<1>2. PICK i : i = Index(d, v, "low")
    OBVIOUS
<1>3. PICK q : q = PercentileAtDuration(d, v, "low")
    OBVIOUS
<1>4. Placed(d, v, "low", q)
    BY <1>3, PercentileIsPlaced
<1>5. PICK steps \in Nat \ {0} : steps = n - 1
    BY <1>1
<1>6. PICK grain \in Nat \ {0}, whole \in Nat : grain = Grain /\ whole = 100 * grain
    BY ViewerAssumption
<1>7. i \in 1..steps /\ q \in Nat
    BY <1>1, <1>2, <1>4, <1>5 DEF Placed
<1>8. \A k \in 1..n : d[k] \in Nat /\ d[k] * steps <= grain
    BY <1>1, <1>5, <1>6 DEF Sorted, Fine
<1>9. steps * q \in Nat /\ n * q = steps * q + q
    <2>1. n = steps + 1
        BY <1>1, <1>5
    <2> QED
        BY <1>7, <2>1
<1>10. whole * (i - 1) \in Int
    BY <1>7
<1>11. ASSUME whole * (i - 1) < steps * q PROVE whole * (i - 1) < n * q
    BY <1>7, <1>9, <1>10, <1>11
<1>12. CASE OnDuration(d, v)
    <2>1. whole * i < steps * (q + 1)
        BY <1>1, <1>2, <1>4, <1>5, <1>6, <1>12 DEF Placed
    <2>2. steps <= whole
        <3>1. PICK x \in Nat : x = d[n] /\ 1 <= x
            BY <1>1, <1>8 DEF Between
        <3>2. steps * 1 <= steps * x /\ steps * x = x * steps /\ steps * x \in Int
            BY <3>1, ProductOrder
        <3>3. x * steps <= grain
            BY <1>1, <1>8, <3>1
        <3> QED
            BY <1>6, <3>2, <3>3
    <2>3. whole * i = whole * (i - 1) + whole /\ steps * (q + 1) = steps * q + steps
        BY <1>7
    <2>4. whole * (i - 1) < n * q
        BY <1>7, <1>9, <1>10, <2>1, <2>2, <2>3
    <2> QED
        BY <1>1, <1>2, <1>3, <1>6, <2>4
<1>13. CASE ~OnDuration(d, v)
    <2>1. PICK gap \in Nat \ {0} : gap = Gap(d, i)
        BY <1>2, <1>4, <1>13 DEF Placed
    <2>2. PICK w \in Int : w = v - 100 * d[i]
        <3>1. i \in 1..n
            BY <1>1, <1>5, <1>7
        <3>2. d[i] \in Nat
            BY <1>8, <3>1
        <3> QED
            BY <3>2
    <2>3. /\ 100 * d[i] < v
          /\ gap * (whole * (i - 1)) + w * grain < gap * (steps * (q + 1))
        BY <1>1, <1>2, <1>4, <1>5, <1>6, <1>13, <2>1, <2>2 DEF Placed
    <2>4. i \in 1..n /\ i + 1 \in 1..n
        BY <1>1, <1>5, <1>7
    <2>5. PICK a \in Nat, b \in Nat : a = d[i] /\ b = d[i + 1]
        BY <1>8, <2>4
    <2>6. w >= 1 /\ gap <= b
        BY <2>1, <2>2, <2>3, <2>5 DEF Gap
    <2>7. gap * steps <= grain
        <3>1. steps * gap <= steps * b /\ steps * gap \in Int /\ steps * b \in Int
            BY <2>6, ProductOrder
        <3>2. b * steps <= grain
            BY <1>8, <2>4, <2>5
        <3>3. steps * gap = gap * steps /\ steps * b = b * steps
            OBVIOUS
        <3> QED
            BY <3>1, <3>2, <3>3
    <2>8. grain <= w * grain
        <3>1. grain * 1 <= grain * w /\ grain * w = w * grain
            BY <2>6, ProductOrder
        <3> QED
            BY <3>1
    <2>9. gap * (steps * (q + 1)) = gap * (steps * q) + gap * steps
        BY <1>7
    <2>10. /\ gap * (whole * (i - 1)) \in Int /\ gap * (steps * q) \in Int
           /\ gap * steps \in Int /\ w * grain \in Int
        BY <1>9, <1>10
    <2>11. gap * (whole * (i - 1)) < gap * (steps * q)
        BY <2>3, <2>7, <2>8, <2>9, <2>10
    <2>12. whole * (i - 1) < steps * q
        BY <1>9, <1>10, <2>11, FactorOrder
    <2> QED
        BY <1>1, <1>2, <1>3, <1>6, <1>11, <2>12
<1> QED
    BY <1>12, <1>13

\* The percentile of the high edge lies before the second rank it has not passed.
LEMMA HighEdge ==
    ASSUME NEW d, Sorted(d), NEW v \in Int, Between(d, v)
    PROVE  Len(d) * PercentileAtDuration(d, v, "high") <= 100 * Grain * (Index(d, v, "high") + 1)
<1>1. PICK n \in Nat : n = Len(d) /\ n > 1
    BY DEF Sorted, Between
<1>2. PICK i : i = Index(d, v, "high")
    OBVIOUS
<1>3. PICK q : q = PercentileAtDuration(d, v, "high")
    OBVIOUS
<1>4. Placed(d, v, "high", q)
    BY <1>3, PercentileIsPlaced
<1>5. PICK steps \in Nat \ {0} : steps = n - 1
    BY <1>1
<1>6. PICK whole \in Nat : whole = 100 * Grain
    BY ViewerAssumption
<1>7. i \in 1..steps /\ q \in Nat /\ steps * q <= whole * i
    BY <1>1, <1>2, <1>4, <1>5, <1>6 DEF Placed
<1>8. q <= whole
    <2>1. d # <<>>
        BY <1>1
    <2> QED
        BY <1>3, <1>6, <2>1, PercentileRange
<1>9. n * q = steps * q + q /\ steps * q \in Int
    <2>1. n = steps + 1
        BY <1>1, <1>5
    <2> QED
        BY <1>7, <2>1
<1>10. whole * (i + 1) = whole * i + whole /\ whole * i \in Int
    BY <1>7
<1>11. n * q <= whole * (i + 1)
    BY <1>7, <1>8, <1>9, <1>10
<1> QED
    BY <1>1, <1>2, <1>3, <1>6, <1>11

LEMMA SelectionFits ==
    ASSUME Opened, NEW s, Settled(s), Calculated(s) = s,
           s.latency[1].low < s.latency[1].high
    PROVE  /\ \A i \in Chosen(s) : 100 * Duration(i) >= s.latency[1].low
           /\ Cardinality({i \in Chosen(s) : 100 * Duration(i) > s.latency[1].high}) <= 1
<1>1. PICK T : T = Eligible(s)
    OBVIOUS
<1>2. PICK d : d = Durations(T)
    OBVIOUS
<1>3. Population(T) /\ DurationsOf(d, T) /\ Fine(d) /\ Sorted(d)
    BY <1>1, <1>2, EligiblePopulation, DurationsAreSorted, DurationsAreFine DEF DurationsOf
<1>4. PICK window \in Span : s.latency = <<window>>
    BY DEF Settled
<1>5. PICK low \in Int, high \in Int : window.low = low /\ window.high = high /\ low < high
    BY <1>4 DEF Span
<1>6. SyncedTo(s, s, d)
    <2>1. Synced(s, d) = s
        BY <1>1, <1>2 DEF Calculated
    <2>2. Ready(s)
        BY SettledIsProper DEF Proper
    <2> QED
        BY <1>3, <2>1, <2>2, SyncedState
<1>7. d # <<>>
    <2> SUFFICES ASSUME d = <<>> PROVE FALSE
        OBVIOUS
    <2>1. s.latency = <<[low |-> 0, high |-> 0]>>
        BY <1>6 DEF SyncedTo
    <2> QED
        BY <1>4, <1>5, <2>1
<1>8. 100 * d[1] <= low /\ high <= 100 * d[Len(d)]
    <2>1. window = Nearest(d, window)
        BY <1>4, <1>6, <1>7 DEF SyncedTo, WindowOf
    <2>2. Within(d, window)
        BY <1>3, <1>7, <2>1, NearestWindow
    <2> QED
        BY <1>5, <2>2 DEF Within
<1>9. PICK q1 : q1 = PercentileAtDuration(d, low, "low")
    OBVIOUS
<1>10. PICK q2 : q2 = PercentileAtDuration(d, high, "high")
    OBVIOUS
<1>11. s.percentile.low = q1 /\ s.percentile.high = q2
    <2>1. s.percentile = NamedBy(d, window)
        BY <1>4, <1>5, <1>6, <1>7 DEF SyncedTo
    <2> QED
        BY <1>5, <1>9, <1>10, <2>1 DEF NamedBy
<1>12. PICK whole \in Nat \ {0} : whole = 100 * Grain
    BY ViewerAssumption
<1>13. q1 \in Nat /\ q2 \in Nat
    BY <1>3, <1>7, <1>9, <1>10, <1>12, PercentileRange
<1>14. PICK n \in Nat \ {0} : n = Len(d) /\ n = Cardinality(T)
    BY <1>3, <1>7, SortedEnds DEF DurationsOf
<1>15. ASSUME NEW i \in Chosen(s)
       PROVE  /\ i \in T /\ Rank(i, T) \in 0..(n - 1) /\ d[Rank(i, T) + 1] = Duration(i)
              /\ n * q1 <= whole * Rank(i, T) /\ whole * Rank(i, T) < n * q2
    <2>1. i \in T /\ RankAt(n, q1, whole) <= Rank(i, T) /\ Rank(i, T) < RankAt(n, q2, whole)
        BY <1>1, <1>11, <1>12, <1>14 DEF Chosen, InRanks
    <2>2. PICK rank : rank = Rank(i, T)
        OBVIOUS
    <2>3. rank \in 0..(n - 1) /\ d[rank + 1] = Duration(i)
        BY <1>3, <1>14, <2>1, <2>2 DEF DurationsOf
    <2>4. rank \in Nat /\ rank < n
        BY <2>3
    <2>5. whole * rank < n * q2
        BY <1>13, <2>1, <2>2, <2>4, RankAtFraction
    <2>6. n * q1 <= whole * rank
        <3>1. RankAt(n, q1, whole) \in Int
            <4>1. n * q1 + (whole - 1) \in Int
                BY <1>13
            <4>2. (n * q1 + (whole - 1)) \div whole \in Int
                BY <4>1, Quotient
            <4> QED
                BY <4>2 DEF RankAt
        <3>2. ~(rank < RankAt(n, q1, whole))
            BY <2>1, <2>2, <2>4, <3>1
        <3> QED
            BY <1>13, <2>4, <3>2, RankAtFraction
    <2> QED
        BY <2>1, <2>2, <2>3, <2>5, <2>6
<1>16. \A k \in 1..n : d[k] \in Nat /\ d[1] <= d[k] /\ d[k] <= d[n]
    BY <1>3, <1>7, <1>14, SortedEnds
<1>17. ASSUME NEW i \in Chosen(s) PROVE 100 * Duration(i) >= low
    <2>1. PICK rank \in 0..(n - 1) : rank = Rank(i, T) /\ d[rank + 1] = Duration(i)
        BY <1>15
    <2>2. rank + 1 \in 1..n
        BY <2>1
    <2>3. PICK x \in Nat : x = d[rank + 1]
        BY <1>16, <2>2
    <2> SUFFICES ASSUME 100 * x < low PROVE FALSE
        BY <2>1, <2>3
    <2>4. Between(d, low)
        <3>1. 100 * d[1] < low
            <4>1. d[1] \in Nat /\ d[1] <= x
                BY <1>16, <2>2, <2>3
            <4> QED
                BY <4>1
        <3>2. low < 100 * d[n] /\ d[n] \in Nat
            BY <1>5, <1>8, <1>14, <1>16
        <3>3. n # 1
            BY <3>1, <3>2
        <3> QED
            BY <1>14, <3>1, <3>2, <3>3 DEF Between
    <2>5. PICK index \in 0..n : index = Index(d, low, "low")
        BY <1>3, <1>14, IndexOfPassed
    <2>6. rank + 1 <= index
        <3>1. rank + 1 \in Passed(d, low, "low")
            BY <1>14, <2>2, <2>3 DEF Passed
        <3> QED
            BY <1>3, <1>14, <2>2, <2>5, <3>1, IndexOfPassed
    <2>7. whole * (index - 1) < n * q1
        BY <1>3, <1>9, <1>12, <1>14, <2>4, <2>5, LowEdge
    <2>8. n * q1 <= whole * rank
        BY <1>15, <2>1
    <2>9. rank <= index - 1 /\ index - 1 \in Int
        BY <2>6
    <2>10. whole * rank <= whole * (index - 1) /\ whole * rank \in Int /\ whole * (index - 1) \in Int
        BY <2>9, ProductOrder
    <2>11. n * q1 \in Int
        BY <1>13
    <2> QED
        BY <2>7, <2>8, <2>10, <2>11
<1>18. PICK index \in 0..n : index = Index(d, high, "high")
    BY <1>3, <1>14, IndexOfPassed
<1>19. ASSUME NEW i \in Chosen(s), 100 * Duration(i) > high PROVE Rank(i, T) = index
    <2>1. PICK rank \in 0..(n - 1) : rank = Rank(i, T) /\ d[rank + 1] = Duration(i)
        BY <1>15
    <2>2. rank + 1 \in 1..n
        BY <2>1
    <2>3. PICK x \in Nat : x = d[rank + 1]
        BY <1>16, <2>2
    <2>4. high < 100 * x
        BY <1>19, <2>1, <2>3
    <2>5. Between(d, high)
        <3>1. 100 * d[1] < high /\ d[1] \in Nat
            BY <1>5, <1>8, <1>14, <1>16
        <3>2. high < 100 * d[n] /\ d[n] \in Nat
            <4>1. d[n] \in Nat /\ x <= d[n]
                BY <1>14, <1>16, <2>2, <2>3
            <4> QED
                BY <2>4, <4>1
        <3>3. n # 1
            BY <3>1, <3>2
        <3> QED
            BY <1>14, <3>1, <3>2, <3>3 DEF Between
    <2>6. ~(rank + 1 <= index)
        <3>1. rank + 1 \notin Passed(d, high, "high")
            BY <2>3, <2>4 DEF Passed
        <3> QED
            BY <1>3, <1>14, <1>18, <2>2, <3>1, IndexOfPassed
    <2>7. n * q2 <= whole * (index + 1)
        BY <1>3, <1>10, <1>12, <1>14, <1>18, <2>5, HighEdge
    <2>8. whole * rank < n * q2
        BY <1>15, <2>1
    <2>9. whole * rank \in Int /\ whole * (index + 1) \in Int /\ n * q2 \in Int
        BY <1>13
    <2>10. whole * rank < whole * (index + 1)
        BY <2>7, <2>8, <2>9
    <2>11. rank < index + 1
        BY <2>10, FactorOrder
    <2> QED
        BY <2>1, <2>6, <2>11
<1>20. PICK above : above = {i \in Chosen(s) : 100 * Duration(i) > high}
    OBVIOUS
<1>21. ASSUME NEW i \in above, NEW j \in above PROVE i = j
    <2>1. Rank(i, T) = index /\ Rank(j, T) = index
        BY <1>19, <1>20
    <2>2. i \in T /\ j \in T
        BY <1>15, <1>20
    <2> QED
        BY <1>3, <2>1, <2>2, RankIsOwn
<1>22. Cardinality(above) <= 1
    <2>1. CASE above = {}
        BY <2>1, FS_EmptySet
    <2>2. CASE above # {}
        <3>1. PICK i \in above : TRUE
            BY <2>2
        <3>2. above = {i}
            BY <1>21, <3>1
        <3>3. Cardinality({i}) = 1
            BY FS_Singleton
        <3> QED
            BY <3>2, <3>3
    <2> QED
        BY <2>1, <2>2
<1>23. s.latency[1] = window
    BY <1>4
<1>24. s.latency[1].low = low /\ s.latency[1].high = high
    BY <1>5, <1>23
<1>25. \A i \in Chosen(s) : 100 * Duration(i) >= s.latency[1].low
    BY <1>17, <1>24
<1>26. Cardinality({i \in Chosen(s) : 100 * Duration(i) > s.latency[1].high}) <= 1
    BY <1>20, <1>22, <1>24
<1> QED
    BY <1>25, <1>26

\* Nobody faster than the latency window is selected, and at most one slower:
\* rounding percentiles to ranks adds no more.
THEOREM WindowHoldsSelection == ViewerSpec => []WindowBoundsSelection
<1>1. ASSUME PageInv PROVE WindowBoundsSelection
    <2> SUFFICES ASSUME Open, drag = <<>>, state.latency[1].low < state.latency[1].high
                 PROVE  /\ \A i \in shown.chosen : 100 * Duration(i) >= state.latency[1].low
                        /\ Cardinality({i \in shown.chosen :
                              100 * Duration(i) > state.latency[1].high}) <= 1
        BY DEF WindowBoundsSelection
    <2>1. /\ Opened /\ Settled(state) /\ Calculated(state) = state
          /\ shown = [all |-> Eligible(state), chosen |-> Chosen(state)]
        BY <1>1 DEF PageInv, ShownIsCurrent
    <2>2. shown.chosen = Chosen(state)
        BY <2>1
    <2> QED
        BY <2>1, <2>2, SelectionFits
<1> QED
    BY <1>1, PageInvariant, PTL

-----------------------------------------------------------------------------
(* The page as it opens *)

LEMMA RankAtWhole ==
    ASSUME NEW n \in Nat, NEW whole \in Nat \ {0}
    PROVE  RankAt(n, 0, whole) = 0 /\ RankAt(n, whole, whole) = n
<1>1. n = 0 => RankAt(n, 0, whole) = 0
    <2>1. PICK x : x = (n * 0 + (whole - 1)) \div whole
        OBVIOUS
    <2>2. x >= 0 /\ x \in Int
        <3>1. n * 0 + (whole - 1) \in Nat
            OBVIOUS
        <3> QED
            BY <2>1, <3>1, Quotient
    <2> QED
        BY <2>1, <2>2 DEF RankAt
<1>2. n > 0 => RankAt(n, 0, whole) = 0
    <2> SUFFICES ASSUME n > 0 PROVE RankAt(n, 0, whole) = 0
        OBVIOUS
    <2>1. ~(0 < RankAt(n, 0, whole))
        <3>1. ~(whole * 0 < n * 0)
            OBVIOUS
        <3>2. 0 \in Nat /\ 0 < n
            OBVIOUS
        <3> QED
            BY <3>1, <3>2, RankAtFraction
    <2>2. PICK x : x = (n * 0 + (whole - 1)) \div whole
        OBVIOUS
    <2>3. x >= 0 /\ x \in Int
        <3>1. n * 0 + (whole - 1) \in Nat
            OBVIOUS
        <3> QED
            BY <2>2, <3>1, Quotient
    <2>4. RankAt(n, 0, whole) = IF x < n THEN x ELSE n
        BY <2>2 DEF RankAt
    <2> QED
        BY <2>1, <2>3, <2>4
<1>3. RankAt(n, whole, whole) = n
    <2>1. PICK x : x = (n * whole + (whole - 1)) \div whole
        OBVIOUS
    <2>2. n * whole + (whole - 1) \in Int /\ n * whole \in Int
        OBVIOUS
    <2>3. x \in Int /\ n * whole + (whole - 1) < whole * (x + 1)
        BY <2>1, <2>2, Quotient
    <2>4. whole * n <= whole * (x + 1) /\ whole * (x + 1) \in Int
        <3>1. n * whole = whole * n /\ whole * (x + 1) \in Int
            BY <2>3
        <3> QED
            BY <2>2, <2>3, <3>1
    <2>5. whole * n < whole * (x + 1)
        <3>1. n * whole = whole * n
            OBVIOUS
        <3> QED
            BY <2>2, <2>3, <2>4, <3>1
    <2>6. n < x + 1
        BY <2>3, <2>5, FactorOrder
    <2>7. RankAt(n, whole, whole) = IF x < n THEN x ELSE n
        BY <2>1 DEF RankAt
    <2> QED
        BY <2>3, <2>6, <2>7
<1> QED
    BY <1>1, <1>2, <1>3

\* The whole range of percents stays the whole range of percentiles.
LEMMA WholeRange ==
    ASSUME NEW s, Proper(s), s.latency = <<>>, s.percentile = [low |-> 0, high |-> 100 * Grain],
           NEW d, Sorted(d), NEW r, SyncedTo(r, s, d)
    PROVE  r.percentile.low = 0 /\ r.percentile.high = 100 * Grain
<1>1. CASE d # <<>> /\ r.latency[1].low < r.latency[1].high
    <2>1. PICK first \in Nat, last \in Nat : first = d[1] /\ last = d[Len(d)] /\ first <= last
        BY <1>1, SortedEnds
    <2>2. PICK grain \in Nat \ {0} : grain = Grain
        BY ViewerAssumption
    <2>3. s.percentile.low \div Grain = 0 /\ s.percentile.high \div Grain = 100
        BY <2>2
    <2>4. PercentileR7(d, 0)[1] = 100 * first /\ PercentileR7(d, 100)[1] = 100 * last
        <3>1. 0 \in 0..100 /\ 100 \in 0..100
            OBVIOUS
        <3> QED
            BY <1>1, <2>1, <3>1, PercentileType
    <2>5. PICK window : window = [low |-> 100 * first, high |-> 100 * last]
        OBVIOUS
    <2>6. WindowOf(s, d) = window
        BY <2>3, <2>4, <2>5 DEF WindowOf
    <2>7. Nearest(d, window) = window
        <3>1. window \in Span
            BY <2>5 DEF Span
        <3>2. Within(d, window)
            BY <2>1, <2>5, <3>1 DEF Within
        <3> QED
            BY <1>1, <3>1, <3>2, NearestWindow
    <2>8. r.latency[1] = window
        BY <1>1, <2>6, <2>7 DEF SyncedTo
    <2>9. r.percentile = NamedBy(d, window) /\ 100 * first < 100 * last
        BY <1>1, <2>5, <2>8 DEF SyncedTo
    <2>10. PercentileAtDuration(d, 100 * first, "low") = 0
        BY <1>1, <2>1, PercentileEnds
    <2>11. PercentileAtDuration(d, 100 * last, "high") = 100 * Grain
        <3>1. Len(d) > 1
            <4>1. PICK n \in Nat \ {0} : n = Len(d)
                BY <1>1, SortedEnds
            <4>2. n # 1
                BY <2>1, <2>9, <4>1
            <4> QED
                BY <4>1, <4>2
        <3>2. 100 * last \in Int /\ ~(100 * last <= 100 * first) /\ 100 * last >= 100 * last
            BY <2>9
        <3> QED
            BY <1>1, <2>1, <3>1, <3>2, PercentileEnds
    <2> QED
        BY <2>5, <2>9, <2>10, <2>11 DEF NamedBy
<1>2. CASE ~(d # <<>> /\ r.latency[1].low < r.latency[1].high)
    <2>1. r.percentile = s.percentile
        BY <1>2 DEF SyncedTo
    <2> QED
        BY <2>1
<1> QED
    BY <1>1, <1>2

\* With no time asked for, the page begins with everyone the query engine takes
\* that began before the end of the capture.
LEMMA LoadedPopulation ==
    ASSUME Opened, Query.time = <<>>
    PROVE  Eligible(Loaded) = {i \in Candidates(P, Query) : i.start < Bounds.to}
<1>1. PICK f \in Files : Loads(f) /\ P = f.profile
    BY DEF Opened
<1>2. PICK threads : threads = IF Query.threads = <<>> THEN P.threads ELSE Query.threads[1]
    OBVIOUS
<1>3. PICK first \in Int, last \in Int : Bounds.from = first /\ Bounds.to = last
    BY BoundsType
<1>4. Loaded.threads = threads /\ Loaded.time.from = first /\ Loaded.time.to = last
    BY <1>2, <1>3 DEF Loaded, InitialTime
<1>5. ASSUME NEW i \in P.invocations
      PROVE  i.tid \in P.threads /\ first <= i.start
    <2>1. ValidInvocation(P, i)
        BY <1>1 DEF Loads, Validates
    <2>2. CaptureBounds(P) # <<>> /\ Bounds.from = CaptureBounds(P)[1].from
        BY DEF CaptureBounds, Bounds
    <2>3. CaptureBounds(P)[1].from <= i.start
        BY <1>1, <2>2, CaptureBoundsType
    <2> QED
        BY <1>3, <2>1, <2>2, <2>3 DEF ValidInvocation
<1>6. Eligible(Loaded) =
         {i \in P.invocations :
             /\ i.fn = Query.fn /\ i.complete /\ i.valid
             /\ i.tid \in threads /\ first <= i.start /\ i.start < last}
    BY <1>4 DEF Eligible
<1>7. \A i \in P.invocations :
         (i.tid \in threads) <=> (Query.threads # <<>> => i.tid \in Query.threads[1])
    BY <1>2, <1>5
<1> QED
    BY <1>3, <1>5, <1>6, <1>7 DEF Candidates

LEMMA LoadedAgrees ==
    ASSUME Opened, Query.time = <<>>,
           Scaled(Query.percentile) = Scaled([low |-> 0, high |-> 100])
    PROVE  Chosen(Calculated(Loaded)) = {i \in Selected(P, Query) : i.start < Bounds.to}
<1>1. PICK whole \in Nat \ {0}, grain \in Nat \ {0} : whole = 100 * Grain /\ grain = Grain
    BY ViewerAssumption, SMTT(20)
<1>2. PICK low \in 0..100, high \in 0..100 :
         Query.percentile.low = low /\ Query.percentile.high = high
    BY Zenon DEF Opened
<1>3. low = 0 /\ high = 100 /\ Scaled(Query.percentile) = [low |-> 0, high |-> 100 * Grain]
    <2>1. [low |-> grain * low, high |-> grain * high] = [low |-> grain * 0, high |-> grain * 100]
        BY <1>1, <1>2 DEF Scaled
    <2>2. grain * low = grain * 0 /\ grain * high = grain * 100
        BY <2>1
    <2>3. low <= 0 /\ 100 <= high
        <3>1. grain * low <= grain * 0 /\ grain * 100 <= grain * high
            BY <2>2
        <3>2. 0 \in Int /\ 100 \in Int
            OBVIOUS
        <3> QED
            BY <3>1, <3>2, FactorOrder
    <2>4. low = 0 /\ high = 100
        BY <2>3
    <2>5. grain * 0 = 0 /\ grain * 100 = 100 * grain
        OBVIOUS
    <2> QED
        BY <1>1, <1>2, <2>4, <2>5 DEF Scaled
<1>4. PICK s : s = Calculated(Loaded) /\ SyncedTo(s, Loaded, Durations(Eligible(Loaded)))
                  /\ Eligible(s) = Eligible(Loaded)
    BY LoadedIsProper, CalculatedState
<1>5. PICK T : T = Eligible(Loaded)
    OBVIOUS
<1>6. Population(T) /\ Sorted(Durations(T))
    BY <1>5, EligiblePopulation, DurationsAreSorted DEF DurationsOf
<1>7. s.percentile.low = 0 /\ s.percentile.high = whole
    <2>1. Loaded.latency = <<>> /\ Loaded.percentile = [low |-> 0, high |-> 100 * Grain]
        BY <1>3 DEF Loaded
    <2> QED
        BY <1>1, <1>4, <1>5, <1>6, <2>1, LoadedIsProper, WholeRange
<1>8. Chosen(s) = T
    <2>1. PICK n \in Nat : n = Cardinality(T)
        BY <1>6, FS_CardinalityType DEF Population
    <2>2. RankAt(n, 0, whole) = 0 /\ RankAt(n, whole, whole) = n
        BY RankAtWhole
    <2>3. Chosen(s) = InRanks(T, 0, n)
        BY <1>1, <1>4, <1>5, <1>7, <2>1, <2>2 DEF Chosen
    <2>4. \A i \in T : Rank(i, T) \in Nat /\ Rank(i, T) < n
        BY <1>6, <2>1, RankType, RankBound DEF Population
    <2> QED
        BY <2>3, <2>4 DEF InRanks
<1>9. Selected(P, Query) = Candidates(P, Query)
    <2>1. PICK C : C = Candidates(P, Query)
        OBVIOUS
    <2>2. IsFiniteSet(C) /\ Measured(C)
        <3>1. PICK f \in Files : P = f.profile
            BY DEF Opened
        <3>2. PICK S : S = P.invocations
            OBVIOUS
        <3>3. /\ IsFiniteSet(S) /\ C \subseteq S
              /\ \A i \in S : i.id \in Nat /\ i.start \in Nat /\ i.end \in Nat
            BY <2>1, <3>1, <3>2, CommandAssumption DEF Candidates
        <3>4. IsFiniteSet(C)
            BY <3>3, FS_Subset
        <3> QED
            BY <3>3, <3>4 DEF Measured
    <2>3. PICK n \in Nat : n = Cardinality(C)
        BY <2>2, FS_CardinalityType
    <2>4. Selected(P, Query) = InRanks(C, 0, n)
        BY <1>2, <1>3, <2>1, <2>3, RankAtEnds DEF Selected, InPercentiles
    <2>5. \A i \in C : Rank(i, C) \in Nat /\ Rank(i, C) < n
        BY <2>2, <2>3, RankType, RankBound
    <2> QED
        BY <2>1, <2>4, <2>5 DEF InRanks
<1> QED
    BY <1>4, <1>5, <1>8, <1>9, LoadedPopulation

\* Before the first event the page is what loading made it.
Fresh ==
    (Open /\ events = 0) =>
        /\ drag = <<>>
        /\ state = Calculated(Loaded)
        /\ typed = <<Scaled(Query.percentile)>>

LEMMA FreshKept ==
    ASSUME PageInv, Fresh, [ViewerNext]_viewerVars
    PROVE  Fresh'
<1>1. CASE CommandNext /\ UNCHANGED pageVars
    <2>1. ~Open
        BY <1>1, NoPageYet
    <2> QED
        BY <1>1, <2>1 DEF Fresh, pageVars, Open
<1>2. CASE OpenPage
    <2>1. drag = <<>> /\ UNCHANGED <<report, drag>>
        BY <1>2 DEF OpenPage, PageInv
    <2>2. Render(Loaded) /\ typed' = <<Scaled(Query.percentile)>>
        BY <1>2 DEF OpenPage, Loaded
    <2>3. state' = Calculated(Loaded)
        BY <2>2 DEF Render
    <2>4. Calculated(Loaded)' = Calculated(Loaded) /\ Query' = Query
        BY <2>1 DEF Calculated, Loaded, Eligible, InitialTime, ClampTime, Bounds, P, Query
    <2> QED
        BY <2>1, <2>2, <2>3, <2>4 DEF Fresh
<1>3. CASE Fields \/ Drags
    <2>1. events' = events + 1
        BY <1>3 DEF Fields, ToggleThread, CommitTime, CommitPercentile, SetBucket, SetMetric,
               SearchFrames, Drags, PressTimeline, PressHistogram, MoveTime, MoveLatency, Release,
               Event
    <2>2. events' # 0
        <3>1. events \in 0..MaxEvents /\ MaxEvents \in Nat
            BY ViewerAssumption, SMTT(20) DEF PageInv
        <3> QED
            BY <2>1, <3>1
    <2> QED
        BY <2>2 DEF Fresh
<1>4. CASE UNCHANGED viewerVars
    BY <1>4, ZenonT(40) DEF viewerVars, commandVars, pageVars, Fresh, Open, Calculated, Loaded, Eligible,
                InitialTime, ClampTime, Bounds, P, Query
<1> QED
    BY <1>1, <1>2, <1>3, <1>4 DEF ViewerNext

\* The page opens on the population that the query engine selects, when the
\* query asks for every percentile and no time.
THEOREM PageAgreesWithQuery == ViewerSpec => []FullRangeAgrees
<1>1. ViewerInit => Fresh
    BY DEF ViewerInit, PageInit, Fresh, Open
<1>2. PageInv /\ Fresh /\ [ViewerNext]_viewerVars => Fresh'
    BY FreshKept
<1>3. ASSUME PageInv, Fresh PROVE FullRangeAgrees
    <2> SUFFICES ASSUME Open, events = 0, Query.time = <<>>,
                        typed = <<Scaled([low |-> 0, high |-> 100])>>
                 PROVE  shown.chosen = {i \in Selected(P, Query) : i.start < Bounds.to}
        BY DEF FullRangeAgrees
    <2>1. /\ Opened /\ drag = <<>> /\ state = Calculated(Loaded)
          /\ typed = <<Scaled(Query.percentile)>>
        BY <1>3 DEF PageInv, Fresh
    <2>2. shown.chosen = Chosen(state)
        BY <1>3, <2>1 DEF PageInv, ShownIsCurrent
    <2>3. Scaled(Query.percentile) = Scaled([low |-> 0, high |-> 100])
        BY <2>1
    <2> QED
        BY <2>1, <2>2, <2>3, LoadedAgrees
<1> QED
    BY <1>1, <1>2, <1>3, PageInvariant, PTL DEF ViewerSpec

=============================================================================
