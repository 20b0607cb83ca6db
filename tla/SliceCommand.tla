---------------------------- MODULE SliceCommand ----------------------------
(***************************************************************************)
(* The commands of slice-cli that do not capture: view, discover,          *)
(* validate, doctor, symbols, and the symbol lookup profile begins with.   *)
(* A process runs one command and exits; a view leaves a report behind.    *)
(***************************************************************************)
EXTENDS SliceQuery, SliceSymbols, SliceDoctor

CONSTANTS
    Files,           \* what a profile file may hold
    ViewArgs,        \* --threads, --time, --percentile and --metric of a view
    Metrics,         \* values of --metric
    Elves,           \* modules: [elf, bias, page]
    Names,           \* --function
    Hosts,           \* what doctor finds
    FunctionName,    \* demangled names by function id
    NoFunction,      \* the function id of a frame that has none
    Units,           \* nanoseconds by suffix
    Word             \* the number of u64 values

\* A file is its magic, its version and, decoded, a profile; order is the
\* sequence of function ids.
ASSUME CommandAssumption ==
    /\ Word \in Nat \ {0}
    /\ \A suffix \in DOMAIN Units : Units[suffix] \in Nat
    /\ \A f \in Files :
          /\ f.magic \in BOOLEAN /\ f.decodes \in BOOLEAN
          /\ IsFiniteSet(f.profile.invocations)
          /\ \A i \in f.profile.invocations :
                i.id \in Nat /\ i.start \in Nat /\ i.end \in Nat
    /\ Hosts \subseteq
          [arch : STRING, release : Seq(Int), btf : BOOLEAN, uprobeMulti : BOOLEAN,
           tracing : SUBSET {"read", "denied", "missing"}, root : BOOLEAN, caps : SUBSET STRING]
    /\ \A m \in Elves : m.bias \in Nat /\ m.page \in Nat \ {0} /\ LinkedElf(m.elf, m.page)

\* Sample, as it is read: a state is one of two, weights are unsigned.
ASSUME SampleAssumption ==
    \A f \in Files :
       /\ IsFiniteSet(f.profile.samples)
       /\ \A s \in f.profile.samples :
             /\ s.weight \in Nat /\ s.state \in {"OnCpu", "OffCpu"}
             /\ s.stack \in Seq([label : STRING, fn : Nat])

VARIABLES
    command,         \* the command and its arguments; none yet
    outcome,         \* its exit and what it printed
    report           \* the HTML file of a view: its profile and its query

commandVars == <<command, outcome, report>>

NotRun == [kind |-> "none"]

Ok(value) == [status |-> "ok", value |-> value]
Refused(reason) == [status |-> "refused", value |-> reason]
Panicked == [status |-> "panicked", value |-> "overflow"]

CommandInit ==
    /\ command = NotRun
    /\ outcome = Ok("nothing")
    /\ report = <<>>

-----------------------------------------------------------------------------
(* Reading a profile *)

KnownFrames(p) ==
    \A stack \in p.stacks : \A k \in DOMAIN stack :
        stack[k].fn # NoFunction => stack[k].fn \in p.functions

\* Profile::from_bytes, which validates; each command validates again.
Loads(file) ==
    /\ file.magic
    /\ file.decodes
    /\ file.version = 1
    /\ Validates(file.profile)
    /\ KnownFrames(file.profile)

-----------------------------------------------------------------------------
(* Arguments *)

\* u64 arithmetic: a build with overflow checks panics, one without wraps.
Arithmetic(x, checked) ==
    IF x < Word THEN Ok(x) ELSE IF checked THEN Panicked ELSE Ok(x % Word)

ParseDuration(text, checked) ==
    IF text.suffix \in DOMAIN Units /\ text.number \in 0..(Word - 1)
    THEN Arithmetic(text.number * Units[text.suffix], checked)
    ELSE Refused("duration")

\* FROM:TO, counted from the start of the capture.
ParseTime(arg, bounds, checked) ==
    LET offset(text) ==
            LET d == ParseDuration(text, checked)
            IN IF d.status = "ok" THEN Arithmetic(bounds[1].from + d.value, checked) ELSE d
        from == offset(arg[1].from)
        to == offset(arg[1].to)
    IN IF arg = <<>> THEN Ok(<<>>)
       ELSE IF bounds = <<>> THEN Refused("no invocations")
       ELSE IF from.status # "ok" THEN from
       ELSE IF to.status # "ok" THEN to
       ELSE IF from.value >= to.value THEN Refused("time")
       ELSE Ok(<<[from |-> from.value, to |-> to.value]>>)

ParseThreads(arg) == IF \A t \in UNION ToSet(arg) : t >= 0 THEN Ok(arg) ELSE Refused("threads")

ParsePercentile(arg) ==
    IF arg.low \in 0..255 /\ arg.high \in 0..255 /\ ValidPercentiles(arg)
    THEN Ok(arg) ELSE Refused("percentile")

-----------------------------------------------------------------------------
(* The commands *)

\* view: the query of the first function, in the order it is put together, and
\* the two checks of render_html.
ViewOutcome(file, args, checked) ==
    LET p == file.profile
        time == ParseTime(args.time, CaptureBounds(p), checked)
        parts == <<ParseThreads(args.threads), time, ParsePercentile(args.percentile)>>
        bad == SelectInSeq(parts, LAMBDA part : part.status # "ok")
        query == [fn |-> p.order[1], threads |-> args.threads, time |-> time.value,
                  percentile |-> args.percentile, metric |-> args.metric]
    IN IF ~Loads(file) THEN Refused("profile")
       ELSE IF p.order = <<>> THEN Refused("no functions")
       ELSE IF bad # 0 THEN parts[bad]
       ELSE IF ~ValidQuery(query) THEN Refused("query")
       ELSE Ok(query)

\* The file is written last, and that may fail.
View ==
    /\ command = NotRun
    /\ \E f \in Files, args \in ViewArgs, checked, written \in BOOLEAN :
          LET viewed == ViewOutcome(f, args, checked)
              done == viewed.status = "ok" /\ written
          IN /\ command' = [kind |-> "view", file |-> f, args |-> args]
             /\ outcome' = IF viewed.status = "ok" /\ ~written THEN Refused("write") ELSE viewed
             /\ report' = IF done THEN <<[profile |-> f.profile, query |-> viewed.value]>> ELSE report

\* A frame counts a sample once for each place it has in its stack.
InclusiveTime(p, metric) ==
    LET counted == {s \in p.samples : Includes(metric, s.state)}
        places(label, s) == {k \in DOMAIN s.stack : s.stack[k].label = label}
        labels == UNION {{s.stack[k].label : k \in DOMAIN s.stack} : s \in counted}
    IN [label \in labels |->
           MapThenSumSet(LAMBDA s : s.weight * Cardinality(places(label, s)), counted)]

Discover ==
    /\ command = NotRun
    /\ \E f \in Files, metric \in Metrics :
          /\ command' = [kind |-> "discover", file |-> f, metric |-> metric]
          /\ outcome' = IF Loads(f) THEN Ok(InclusiveTime(f.profile, metric))
                        ELSE Refused("profile")
    /\ UNCHANGED report

\* sample_summary: counts and times by state.
SampleSummary(p) ==
    [state \in {"OnCpu", "OffCpu"} |->
        [count |-> Cardinality(InState(p.samples, state)),
         time |-> TotalWeight(InState(p.samples, state))]]

Requirements == SUBSET {"complete", "samples", "off_cpu"}

Lacks(p) ==
    {r \in {"complete", "samples", "off_cpu"} :
        CASE r = "complete" -> \A i \in p.invocations : ~(i.complete /\ i.valid)
          [] r = "samples" -> p.samples = {}
          [] r = "off_cpu" -> SampleSummary(p)["OffCpu"].count = 0}

ValidateFile ==
    /\ command = NotRun
    /\ \E f \in Files, required \in Requirements :
          /\ command' = [kind |-> "validate", file |-> f, required |-> required]
          /\ outcome' = IF ~Loads(f) THEN Refused("profile")
                        ELSE IF required \cap Lacks(f.profile) # {} THEN Refused("requirement")
                        ELSE Ok(SampleSummary(f.profile))
    /\ UNCHANGED report

Doctor ==
    /\ command = NotRun
    /\ \E host \in Hosts :
          /\ command' = [kind |-> "doctor", host |-> host]
          /\ outcome' = IF HasFailures(DoctorReport(host)) THEN Refused("prerequisites")
                        ELSE Ok(DoctorReport(host))
    /\ UNCHANGED report

Symbols ==
    /\ command = NotRun
    /\ \E module \in Elves :
          /\ command' = [kind |-> "symbols", module |-> module]
          /\ outcome' = IF ListedNames(module.elf) = {} THEN Refused("symbols")
                        ELSE Ok(ListedNames(module.elf))
    /\ UNCHANGED report

\* The beginning of profile: main goes no further without a symbol.
ProbeSymbol ==
    /\ command = NotRun
    /\ \E module \in Elves, name \in Names :
          LET selected == SelectSymbol(module.elf, name)
          IN /\ command' = [kind |-> "profile", module |-> module, name |-> name]
             /\ outcome' = IF selected.status = "selected" THEN Ok(selected)
                           ELSE Refused(selected.status)
    /\ UNCHANGED report

CommandNext == View \/ Discover \/ ValidateFile \/ Doctor \/ Symbols \/ ProbeSymbol

CommandSpec == CommandInit /\ [][CommandNext]_commandVars

-----------------------------------------------------------------------------
(* Properties *)

Ran(kinds) == command.kind \in kinds /\ outcome.status = "ok"

\* No command goes on with a profile in which some invocations have each other
\* as ancestors: the walk over parents would not end for its consumers.
CyclesAreRefused ==
    Ran({"view", "discover", "validate"}) =>
       LET invs == command.file.profile.invocations
       IN ~\E closed \in (SUBSET invs) \ {{}} :
             \A i \in closed : i.parent \in IdsOf(closed)

\* A percentile range split anywhere gives two ranges that share no invocation
\* and lose none: rank_bounds rounds both ends the same way.
RangesPartition ==
    Ran({"view"}) =>
       LET p == command.file.profile
           q == outcome.value
           all == Candidates(p, q)
       IN \A middle \in (q.percentile.low + 1)..(q.percentile.high - 1) :
             LET below == InPercentiles(all, q.percentile.low, middle)
                 above == InPercentiles(all, middle, q.percentile.high)
             IN below \cap above = {} /\ below \cup above = Selected(p, q)

\* Nobody outside a range that ends at 100 is slower than somebody inside, and
\* the range 0:100 is every candidate: ranks, not durations, decide on ties.
SlowestAreSelected ==
    Ran({"view"}) =>
       LET p == command.file.profile
           q == outcome.value
       IN q.percentile.high = 100 =>
             /\ \A j \in Selected(p, q), i \in Candidates(p, q) \ Selected(p, q) :
                   Duration(i) <= Duration(j)
             /\ q.percentile.low = 0 => Selected(p, q) = Candidates(p, q)

\* A node a tree does not have counts nothing in it.
ValueAt(tree, node) == IF node \in DOMAIN tree THEN tree[node] ELSE 0

Children(tree, node) == {n \in DOMAIN tree : Len(n) = Len(node) + 1 /\ Front(n) = node}

SumOver(f, D) == MapThenSumSet(LAMBDA n : f[n], D)

\* Of the result for wall time and the trees for CPU and for off-CPU time.
Conserves(wall, cpu, offcpu) ==
    /\ \A node \in DOMAIN wall.tree :
          /\ wall.tree[node] = ValueAt(cpu, node) + ValueAt(offcpu, node)
          /\ SumOver(wall.tree, Children(wall.tree, node)) <= wall.tree[node]
    /\ wall.tree[<<>>] = wall.cpu + wall.offcpu

\* Wall time is CPU time and off-CPU time, in the total and in every node, and
\* a node never counts less than the nodes below it.
TreeConservesTime ==
    Ran({"view"}) =>
       LET result(metric) ==
               QueryResult(command.file.profile, [outcome.value EXCEPT !.metric = metric],
                           FunctionName[outcome.value.fn])
       IN Conserves(result("Wall"), result("Cpu").tree, result("OffCpu").tree)

\* What doctor says without privileges is true with them: it fails for the
\* same hosts, and the warnings it gave were about privileges only.
DoctorVerdictHolds ==
    command.kind = "doctor" =>
       LET elevated == DoctorReport(Elevated(command.host))
       IN ~Authorized(command.host) =>
             /\ outcome.status = "ok" <=> ~HasFailures(elevated)
             /\ Checks(elevated, "Warning") = {}

\* Code segments that begin a page, as the linkers of the GNU toolchain lay
\* them out.
AlignedCode(elf, page) ==
    \A k \in DOMAIN elf.segments :
        LET g == elf.segments[k]
        IN g.exec => g.address % page = 0 /\ g.offset % page = 0

OneName(elf, address) ==
    \A k, l \in {c \in Callable(elf) : elf.symbols[c].address = address} :
        elf.symbols[k].name = elf.symbols[l].name

\* From address to the next symbol, or to the end of its segment.
Body(elf, address) ==
    LET g == elf.segments[SegmentOfAddress(elf, address)]
    IN {a \in address..(g.address + g.size - 1) :
           \A k \in Callable(elf) : elf.symbols[k].address \notin (address + 1)..a}

\* The probe is put at the entry of the function and nowhere else, and a stack
\* that was in its body is shown under its own name, so that an off-CPU stack
\* gets no second root.  It takes aligned code and an address of one name.
ProbeResolvesToItself ==
    Ran({"profile"}) =>
       LET m == command.module
           address == outcome.value.address
           maps == LoadedMaps(m.elf, m.bias, m.page)
       IN (AlignedCode(m.elf, m.page) /\ OneName(m.elf, address)) =>
             /\ ProbedAddresses(maps, outcome.value.offset) = {m.bias + address}
             /\ \A a \in Body(m.elf, address) :
                   OffcpuFrames(m.elf, maps, <<m.bias + a>>, command.name) = <<command.name>>

=============================================================================
