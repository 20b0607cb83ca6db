# A verification of Slice in TLA+

Slice profiles one function of a running or launched program: BPF programs
record its calls, samples of its stacks and the time its threads spend off a
CPU, and a command-line tool turns the records into a profile of *invocations*
whose latencies and stacks a viewer explores. This directory models the path
from the probes to the profile, the life of a launched target, the commands
that read a profile and the page they produce, model-checks them with TLC, and
proves with TLAPS what the kernel half, the correlator, the launching command,
the commands and the page promise.

Paths below are relative to the repository (`src/` here).

## 1. Inventory

| Component | Source | State | Operations |
| --- | --- | --- | --- |
| kernel programs | `crates/slice-ebpf/bpf/slice.bpf.c` | `active_by_tid`, `offcpu_by_tid`, two identity maps, id sequence, ring buffer, loss counters | `slice_entry`, `slice_return`, `slice_sample`, `slice_sched_switch` |
| capture driver | `crates/slice-ebpf/src/lib.rs` 392-779 | links, ring consumer, `events_seen`, stop token | `capture_pid`, `poll_ring`, `sort_events`, `process_exists`, `rebuild_threads` |
| correlator | `crates/slice-collector/src/lib.rs` | source records, thread-keyed open invocations, violations, id sequences | `push`, `finish` |
| profile contract | `crates/slice-core/src/lib.rs` 15-222 | the profile | `validate`, `read`, `write` |
| query engine | `crates/slice-core/src/lib.rs` 182-192, 315-557 | none | `execute_query`, `rank_bounds`, `percentile_r7`, `capture_bounds` |
| command line | `crates/slice-cli/src/main.rs` | launched child, output file | `profile`, `view`, `discover`, `validate`, `doctor` |
| process control | `crates/slice-capture`, `crates/slice-ebpf/src/lib.rs` 36-138 | the child's signals | stop, wait, interrupt, kill, resolve |
| symbol resolver | `crates/slice-ebpf/src/lib.rs` 781-888, `crates/slice-cli/src/main.rs` 160-256 | load mappings, symbols | `select_symbol`, `list_symbols`, `Resolver::new`, `frames` |
| offline viewer | `crates/slice-render/src/lib.rs` | selection, filters, latency window, drag in progress | input handlers, `calculate`, `syncLatencyWindow` |
| doctor | `crates/slice-ebpf/src/lib.rs` 140-378 | none | `linux_doctor_report` |
| repository checks | `tools/repo-check` | none | reports |

How they interact. The kernel programs run in the context of the profiled
threads and of the scheduler, and share maps with one another; they send
records through the ring buffer to a callback of the capture thread, and two
loss counters through maps. The capture thread drives the links, the polling
loop and the replay; the Ctrl-C handler reaches it through one atomic flag and
the signal that interrupts a poll. The correlator and the profile contract are
called synchronously. The viewer sees only the file.

What is hard, and what correctness means for each part:

* kernel programs: handlers of one thread are preempted between two map
  operations and nest with interrupts; threads share maps and the ring; tables
  and ring have bounds; probes go live one after another. Correct means that
  the maps agree with one another, that no thread is left in an invocation,
  that time attributed to an invocation is time of it, and that recursion is
  reported.
* capture driver: the target, the signal and the loop race; records are lost,
  late, or left in the ring. Correct means that the profile is consistent, that
  a valid invocation is one call, that a clean call is in the profile, and that
  the capture ends.
* command line and process control: the target, the Ctrl-C thread and the
  command race, signals take effect late, and each step can fail. Correct means
  that the output file is never half written, that a held target is let go, and
  that the command ends.
* correlator: events come in any order, twice, or not at all. Correct means
  that the outcome depends on the set of events only and that the counters
  account for everything left out.
* query engine and profile contract: files come from anywhere. Correct means
  that a broken file is refused by every command, that percentile ranges
  partition the population, and that the flame tree conserves time.
* symbol resolver: the probe is placed by address, stacks are named by file
  offset. Correct means that both find the same function.
* offline viewer: filters, percentiles and a latency window determine each
  other, and drags change some of them without redrawing the rest. Correct
  means that what is shown is what the windows say.
* doctor: correct means that its verdict does not depend on who runs it.

The hazards in `PROJECT.json` list these at the lines where they bite.

## 2. Modules

| Module | Models |
| --- | --- |
| `SliceBpf` | the kernel programs, the program they observe and the scheduler |
| `SliceInvocations` | what the kernel programs promise: one invocation per thread, fresh ids |
| `SliceCollector` | `Correlator`: source mode and local mode |
| `SliceProfile` | `Profile::validate` as a predicate on profiles |
| `SliceCapture` | `capture_pid`, composing `SliceBpf`, `SliceCollector` and `SliceProfile` |
| `SliceLaunch` | `slice profile`: the launched target, its signals, the Ctrl-C handler, the output file |
| `SliceSave` | what `slice profile` promises about the output file |
| `SliceQuery` | the query engine, on the profiles of `SliceProfile` |
| `SliceSymbols` | probe offsets, load mappings, names of stack addresses |
| `SliceDoctor` | the prerequisite report |
| `SliceCommand` | the commands that do not capture, composing the three modules above |
| `SliceViewer` | the page of a view, on top of `SliceCommand` |
| `SliceBpf_proofs`, `SliceRecords_proofs` | theorems about `SliceBpf`: its maps, and the records in its ring |
| `SliceSent_proofs` | lemmas about `SliceBpf`: all records it ever submitted |
| `SliceCapture_proofs` | theorems about `SliceCapture`, from `SliceSent_proofs` and `SliceCollector_proofs` |
| `SliceCollector_proofs`, `SliceLaunch_proofs`, `SliceCommand_proofs`, `SliceViewer_proofs` | theorems about the module each is named for; the last one extends the one before it |
| `MCBpf`, `MCCollector`, `MCCapture`, `MCLaunch`, `MCReport` | instances for TLC |

Two of these are abstract specifications, and two refinements are stated:

* `SliceBpf` implements `SliceInvocations` (`InvocationsAreExclusive`). `open` is
  the id in `active_by_tid`, `used` is every id up to `next_invocation_id`. The
  entry's map update is `Enter`, the return's deletion is `Leave`, a call that
  is refused for want of room only spends an id, every other step stutters.
* `SliceLaunch` implements `SliceSave` (`SaveIsAtomic`). Creating the temporary
  file is `Prepare`, the rename is `Replace`; the many ways in which the command
  fails or dies become `Fail` and `Die`.

### SliceBpf

A thread is named by its BPF tid; `TraceTid` is the other name under which the
`sched_switch` tracepoint knows it, and `Other` is any foreign task.

* A uprobe handler runs in the thread and can be preempted, so `slice_entry`
  is `Call` (the thread enters the function and the handler reads the clock),
  then `EntryRejected`, `EntryRefused`, or `EntryInstalled` and
  `EntryAnnounced`; `slice_return` is `Return`, then `ReturnUnmatched`, or
  `ReturnEmitted` and `ReturnCleared`. Samples and context switches may come
  between any two of them. The four deletions of `slice_return` are one step:
  once `active_by_tid` has lost the thread, the other maps are read only to be
  cleared.
* `slice_sched_switch` runs with interrupts off and `slice_sample` is itself an
  interrupt: `SchedSwitch` and `SampleTaken` are one step each.
* `Attach` and `Detach` follow the order of `capture_pid`. A frame's return is
  probed only if the return link was live when it was entered (`ret`), since
  the kernel replaces the return address at entry.
* `ThreadExit` leaves the function without a return and lets the tid be used
  again. A tid is reused as the same model value with no frames.
* `call` and `depth` in a record are ghosts: no action reads them.
* The clock advances by a member of `Ticks` at each reading, zero included,
  except that an interrupt never shares a reading with the step before it: it
  takes longer than the clock's nanosecond.

Left out: probe diagnostics and `observed_tgid` (read for messages only), CPU
numbers, what a stack holds, failures of the map updates of
`slice_sched_switch` (`MapsMirror` is why they have room), unwinding by
`longjmp` or an exception (for the maps it is `ThreadExit` of one frame).

### SliceCollector

`Push` is `Correlator::push` with one operator per event kind and association
mode; `Finish` is `finish`. A vector the code only appends to and filters is a
set whose equal elements are told apart by a number `n` (`Tagged`), a stack is
its frames, since interning maps frames to ids one to one, and the saturating
counters are natural numbers. `log` is a ghost with every event pushed, which
the properties compare the profile with.

`CorrSpec` pushes anything in any order. `ConsistentSpec` pushes what a source
gives that hangs together (`Agree`): ids always or never, and one thread and one
function for an id. The properties of source mode are about the latter.

### SliceProfile

`Validates` is the conjunction of the checks of `Profile::validate`, but for
the one of frames against function ids, which is `KnownFrames` of
`SliceCommand`, since a captured profile's stacks are not told apart. `NoParent`
is a number no u64 is: the id 0 is one like any other.

### SliceCapture

One thread of control, `phase`, through attaching, looping, polling, draining,
detaching and replaying, beside the environment: the target's threads and the
scheduler (`TargetStep`), the target's exit, the exit of its main thread alone
(`LeaderExits`) and Ctrl-C (`StopRequested`). `RecordReceived` is the ring
callback and may run at any moment of a poll. `PollInterrupted` and
`DrainInterrupted` are the two answers `poll_ring` gives a signal, with and
without the stop token. `Replay` pushes the least record of `sort_events` that
is still waiting, so the whole replay is in time order, and `FinishProfile`
calls `Finish` with the present clock. `Profile` is what `capture_pid` returns,
after `rebuild_threads` and the correction of `events_generated`.

After the links are dropped the target's steps are left out: nobody observes
them.

### SliceLaunch

`cli` is where `profile` is. A signal is sent by one step and takes effect by
another (`Sent`, then `StopDelivered`, `InterruptDelivered`, `KillDelivered`),
except SIGCONT, which wakes its receiver when it is sent. The Ctrl-C handler is
a thread of three steps: the token, SIGINT, SIGCONT. The terminal may send the
child its own SIGINT. Before the handler is installed Ctrl-C kills the command,
and `CommandKilled` kills it at any moment. `ResolveFails`, `NothingCaptured`,
`CaptureFails` and `WriteFails` differ in the clean-up they do, as in the code.
The capture is reduced to what the command sees: the links become live
(`LinksLive`), and it returns once the main thread is gone or the token is set
(`Captured`); `SliceCapture` is the detailed model of that part, with the three
steps of the handler as one.

Left out: pids (a signal to a reaped child is lost instead of reaching whatever
has its pid, see the hazards), SIGTSTP from the terminal, a target that may not
be signalled because it changed its user, and the printing after the wait.

### SliceQuery

Nothing is sorted: the place of an invocation in the population is the number
of candidates before it (`Rank`), so that `rank_bounds` and the slice it bounds
become a set (`InPercentiles`). A node of the flame tree is named by the path to
it, and its value is the weight of the samples whose path goes through it. Saturation
of the sums is left out.

### SliceSymbols, SliceDoctor

An ELF file is a sequence of symbols and one of `PT_LOAD` headers. `SelectSymbol`
is what `slice profile` asks of it, `FrameLabel` what the capture does; between
the two, `LoadedMaps` and `ProbedAddresses` are the loader and the uprobe, both
external. `LinkedElf` says what a linker makes: segments that share no byte of the
file and no page of memory, and functions in executable ones. A host is what doctor's checks read of it, and `Elevated` is the same
host for root.

### SliceCommand

A process runs one command on one of `Files`, `Elves` or `Hosts` and exits with
an `outcome`: an answer, a refusal with the first reason the code meets, or a
panic. `Arithmetic` is u64 addition and multiplication, which wraps or panics
by the build. A view leaves `report` behind if the file can be written; it uses
the first function of the profile, as the code does.

### SliceViewer

`OpenPage` is the script's first `render`; each field and each pointer handler
is an action. During a drag only `state` changes, and `shown`, the population
last rendered, is stale until `Release`. `histogram` is what the closures of the
last histogram drawn remember: with an empty population the chart is blanked
while these handlers stay. Places in the charts are fractions; latencies are in
hundredths of a nanosecond and percentiles in `Grain`-ths of a percent, so that
what the script computes in doubles is exact with the durations of the
instances; `ViewerAssumption` asks for a `Grain` that is fine enough for that, one
unit of it less than what a hundredth of a nanosecond is of any population. One
pointer is modelled, so the pointer id of a drag is left out. The
handlers of resizing, zooming and the wheel only redraw and are left out.

`typed` is a ghost: the percentile range last asked for.

## 3. Runs

All runs set `CHECK_DEADLOCK FALSE`: a bounded program stops at its bounds, a
finished capture, correlator or command stops for good.

| Run | Instance | Question |
| --- | --- | --- |
| `bpf_launch` | 2 threads, 2 calls, depth 2, one slot in `active_by_tid`, ring 3, clock 3 | what the ring says about invocations and off-CPU time |
| `bpf_attach` | 2 threads, 2 calls, clock 2, links attached and detached one by one, thread exit, ring 1 | consistency of the maps, refinement of `SliceInvocations` |
| `collector_orders` | 2 ids, 2 threads, up to 5 events, 3 times | is the profile a function of the set of events |
| `capture_path` | 2 threads of a held target, 2 calls, depth 2, ring 2, clock 3, thread exit | the whole path |
| `capture_ends` | 1 thread, 2 calls, target held or running, clock 1, stops, signals, failures, thread and main thread exits | termination, attaching in mid-call, truncated captures |
| `launch_ends` | launched or attached, a target that obeys SIGINT or not | the output file, refinement of `SliceSave`, the held target, the end of the command |
| `report_report` | 11 files, 14 views, 12 modules, 1680 hosts, 4 events on a page | the commands that do not capture, and the page |
| `capture_dropped`, `capture_nested`, `capture_leader`, `launch_orphan`, `report_exact` | | see Findings |

Why the bounds are enough to be interesting. A property about records of one
thread needs an outer call and a nested or a later one: two calls of each
thread, depth two. That the violations of one thread harm none of another's
calls needs a third call while the second thread runs; it is checked in
`collector_orders`, where events and not steps are counted. Interference between
threads goes through the ring, the table's free slots, the id sequence and the
identity maps, each of which two threads can contend for. A ring of one to three
records makes every record the lost one in some behaviour. Four clock values
(0 to 3) separate an entry, a switch-out, a switch-in and a return. Two ids are
enough for the correlator because its records are independent and are related
only by the violations of a thread, for which the second thread exists.
`MCSymmetry` exchanges both threads under both of their names; the runs that use
it (`bpf_launch`, `bpf_attach`) check no liveness.

In `MCReport` a file has at most four invocations on two threads: durations all
different, two equal, one invocation, one unfinished, none, and cyclic parents of
length one and two; files that do not decode, or are of another version; views
with every kind of argument, bad ones and ones that wrap a word of 64 values
included; two layouts of segments, one with code in mid-page, with aliased,
repeated and unusual symbols. `MaxEvents` is 4: press, move, and release with one
event between or after them, which is what it takes to change a filter during
a drag, or to leave the histogram's old handlers on an empty chart and use them.
`Places` are the two ends and the middle of a chart. `Grain` is 24 so that each
percentile of each instance is a whole number.

What the properties say:

* `BpfTypeOK`, `CorrTypeOK`, `ViewerTypeOK`: the type invariants; the last one also
  says that the page's windows never cross.
* `MapsMirror`: the three secondary maps never outlive the active entry they
  describe and the identity maps are inverse, so a map of the same capacity
  cannot overflow and a reused tid inherits nothing.
* `OffcpuOnlyWhileOff`: each off-CPU interval is closed by the switch-in that
  ends it.
* `NoActiveLeak`: a thread outside the function is outside `active_by_tid`.
* `OneOwnerPerId`, `InvocationsDoNotOverlap`, `MismatchIsReported`,
  `OffcpuInsideInvocation`: ids, non-overlap, recursion and time attribution.
  `MismatchIsReported` holds while the entry link is live: the links are dropped
  entry first, and a recursive call in that gap is not seen, which is harmless
  because the ring is closed by then.
* `PopulationIsWellBracketed`, `SamplesAreThoseInside`, `QualityAccounts`,
  `LocalSamplesOwned`: the profile as a function of the pushed events.
* `ProfileValidates`, `ValidIsOneCall`, `OffCpuTimeIsItsOwn`,
  `CleanCallIsValid`: the profile as a statement about the program.
* `OutputOldOrWhole`, `StatusTellsOutput`: the output file across failures and
  the death of the command.
* `HeldWhileAttaching`, `FailureFreesTarget`, `AttachedIsNotSignalled`: who
  holds, resumes and kills which target.
* `InvocationsAreExclusive`, `SaveIsAtomic`: the two refinements.
* `CyclesAreRefused`: whatever a file says, a command goes on only with parents
  that form no cycle, stated as the absence of a set closed under parents.
* `RangesPartition`, `SlowestAreSelected`: percentile ranges split without loss or
  overlap, and the top range holds the slowest.
* `TreeConservesTime`: wall time is CPU time plus off-CPU time in every node, and
  no node has less than the nodes below it.
* `ProbeResolvesToItself`: probe and resolver agree on the function, for code
  that begins a page and addresses of one name; without these two conditions
  they do not, and the off-CPU stacks get a second root.
* `DoctorVerdictHolds`: the verdict without privileges is the one with them.
* `ShownIsCurrent`, `WindowBoundsSelection`, `WindowInBounds`,
  `ViewControlsKeepPopulation`, `FullRangeAgrees`: the page. At most one selected
  invocation is slower than the window says, because the upper rank is rounded
  up. An empty time window, left by a drag at the right edge, may be moved to the
  start of the capture and opened before it by the start field: this takes six
  events, more than the run allows, and was found by the proof, so
  `WindowInBounds` allows a nanosecond on either side. The page shows an invocation that starts in the capture's last
  nanosecond only when the query engine does and the time window reaches past it.
* `CommandEnds`: once the target is gone, or Ctrl-C reached one that obeys, the
  command ends. A target that ignores SIGINT is waited for, as the code does.
* `CaptureEnds`: a capture whose target is gone, or that was asked to stop,
  ends.

Fairness. `CaptureSpec` assumes weak fairness of the capture thread's own
steps. The operating system runs the thread, `poll_ring` returns after 100 ms
at the latest when the ring is empty, and nothing else blocks it. Nothing is
assumed of the target, of the user, of signals or of failures. Because the
clock and the calls are bounded, a run cannot show a producer that outruns the
consumer forever; that hazard is listed without a property. `LaunchSpec`
assumes weak fairness of the command, of the handler thread and of the delivery
of signals, each of which only the operating system schedules. That a target
which obeys SIGINT ends is part of its definition; no other step of it is fair.

## 4. Findings

* A lost VIOLATION conceals a broken invocation (`capture_dropped`). The
  adapter's README promises the opposite; only the global counter tells.
* A second nested call is accepted (`capture_nested`): the return of the first
  one removed the outer call's entry.
* A target whose identity cannot be resolved is left stopped (`launch_orphan`):
  `?` skips the clean-up that every later failure does.
* A main thread that exits first ends the capture (`capture_leader`).
* Percentiles are not exact in the page (`report_exact`): a range whose upper end
  falls on a duration is widened to the next rank when it is drawn. `0:50` of
  three invocations becomes `0:100`, so the page shows three invocations where
  the query engine selects two.

`collector_orders` pushes what `ConsistentSpec` allows: one thread and one
function per invocation id, as the kernel half has it. The correlator checks this only half-way:
`source_return` compares its function and thread with the record, `source_entry`
overwrites them, so a return pushed before a disagreeing entry would go
unnoticed. `capture_pid` cannot produce such a pair.

## 5. Proofs

The theorems hold for every value of the constants that satisfies the named
assumptions of the modules: any sets of threads, ids, stacks, files, modules and
hosts, any capacity, and any number of steps.

`SliceBpf_proofs` (`TidAssumption`, `BoundAssumption`):

* `BpfTypeCorrect`: `BpfTypeOK /\ EntryHeld` is inductive. `EntryHeld`, that a
  handler which installed or reported an invocation still finds its entry, is
  what makes the id in an ENTRY or RETURN record a number: without it the step
  from `EntryInstalled` to `EntryAnnounced` is not typed.
* `MapsMirrorActive`: `MapsMirror` is inductive relative to the types. It rests
  on the injectivity of `TraceTid`.
* `RunningThreadHasNoInterval`: `OffcpuOnlyWhileOff`, strengthened by the fact
  that nothing is open before the scheduler link goes live; the step of
  `slice_sched_switch` needs `MapsMirror` to know that the incoming thread's
  interval is found under its trace tid.
* `ActiveNeverLeaks`: `NoActiveLeak`, strengthened by `FramesCover` (every frame
  returns through the probe and a thread with an active entry still has a frame)
  and by the fact that links which were live from the start never become new.
* `IdsAreUnique`: `OneOwnerPerId` is inductive relative to the types, since it
  bounds every id by the sequence.
* `KernelImplementsInvocations`: every step of `SliceBpf` is a step of
  `SliceInvocations` or a stutter. It needs the types, and from `OneOwnerPerId`
  that the sequence bounds every id, so that the id an entry installs was never
  used.

`SliceRecords_proofs` is about what is in the ring, and more: each of its
invariants is stated of a sequence `sent` that keeps up with the ring (`Grows`: a
record that is submitted is appended to `sent`, a record that is consumed may
leave it from the front or stay). The ring is one such sequence, and gives the
theorems below; what was received followed by the ring is another, and gives the
theorems about the capture. Facts about times and ids see `sent` as a set
(`Records`); facts about order see its positions.

* `IdsInv`: no record has an id beyond the sequence, and the records of an active
  id are its thread's, with its ENTRY announced and no RETURN before the handler
  of the return is at its end.
* `OffcpuStaysInside`: `TimeInv` orders, for each active thread, the start of its
  invocation, its open interval, the records of its id and the clock; `Apart` is
  the property over sets of records.
* `EntriesAreSeparated`: `OverlapInv`, that an ENTRY in the ring has its RETURN
  behind it or its thread is still inside.
* `MismatchesAreReported`: `CallInv`, that the next probed return of a thread
  inside an invocation is that of the call which began it, unless a VIOLATION
  stands between. It needs which frames are hijacked (`Hijacked`: once one is, all
  above it are) and that links go in order (`LinkInv`).

`SliceCollector_proofs` (`CollectorAssumption`, `NoRecordAssumption`):

* `CorrelatorTyped`: the types with the finiteness of everything counted, and
  that tags in a multiset are below its size (`WellTagged`).
* `PopulationBracketed`, `SamplesInside`: `CorrInv` ties each record of
  `source_invocations` to the events pushed for its id so far (`RecordAgrees`): it
  is marked invalid exactly when a boundary came twice or the two are the wrong
  way round, in whichever order they arrived. `FinishFits` carries this over to the
  profile.
* `LocalSamplesHaveOneOwner`: `LocalInv`, open and reported invocations share no id
  and every sample has its owner in one of them.
* `QualityIsAccurate`: each counter equals the number of what it counts. Most of
  the proof is bijections: records to reports, waiting samples to samples,
  complete invalid records to invalid reports.

`SliceLaunch_proofs` proves, from three inductive invariants:

* `FileInv`, what the two paths hold at each stage of the command: gives
  `OutputAtomic`, `StatusIsTruthful`, the one step of `LaunchTypeCorrect`
  that is not local, the rename, and `CommandImplementsSave`, where it says that
  nothing is left beside the output when the command succeeds.
* `SignalInv`, who can have been sent what: a kill is pending only after a
  failure, the handler's thread sends signals only after it set the token, and
  a target that was not launched has none pending. It gives
  `HeldUntilLinksLive` and `AttachedUntouched`.
* `FreedInv`, relative to `SignalInv`: once the handler is installed no stop is
  pending, so a target that was resumed is not held again. It gives
  `FailedTargetIsKilled`.

`SliceCommand_proofs` (`CommandAssumption`, `SampleAssumption`: a file's samples are
finite in number and of the types `Sample` has). A command is one step, so these
are facts about operators:

* `RangesSplit`, `SlowestSelected`: `Rank` is a bijection of the population to
  0 .. n-1 (it is strictly monotone along `Before`, by the cardinality of
  initial segments), and `rank_bounds` is monotone in the percentile.
* `CyclesRefused`: in a set closed under parents the walk of `Profile::validate`
  never meets `None`, by induction on its length. The induction is over the set of
  lengths at which it has not left the set, with the library's `InductiveSet`.
* `DoctorTellsRoot`: check by check, over all hosts.
* `ProbeAtOwnEntry`: with `LinkedElf` and code that begins a page, the loader's line
  of a segment is the only one that covers an address of the segment, in both
  directions of the translation, and `FrameLabel` finds the symbol of the entry.
* `TreeKeepsTime`: weights are summed by a fold of the library, a function on the
  subsets of a set that takes one member at a time out by `CHOOSE`. That this
  function exists is an induction over the subsets of a finite set (`SumsExist`,
  a set of subsets closed under adding a member is all of them: `SubsetInduction`);
  that its value is the same whichever member is taken out is another (`SumsAny`).
  From there sums split along a union, grow with the set, and a sum of sums over
  parts is at most the sum of the whole (`SumsUnion`, `SumsMonotone`,
  `SumsOfSums`). The samples of a wall-clock query are those of the two others,
  which share none; the samples under two children of a node are apart, for a
  path has one prefix of each length (`ChildrenApart`).

`SliceViewer_proofs` (`CommandAssumption`, `ViewerAssumption`):

* `PageInvariant`, `PageTyped`: what every handler finds and leaves (`PageInv`): the
  state is `Settled` outside a render, drags are of the kind of their chart, and the
  histogram remembers a sorted, non-empty list of durations.
* `PageIsCurrent`: rendering twice is rendering once. `syncLatencyWindow` is
  idempotent because the window it leaves is `Within` the durations of the same
  population, so that clamping it again does nothing, and the percentiles are a
  function of it.
* `ControlsKeepPopulation`: from `PageIsCurrent`, since bucket and metric are read by
  neither `eligible` nor `syncLatencyWindow`.
* `TimeStaysInside`: `TimeInv`, the windows of the state and of the drag in progress
  are both `Near` the capture: out of it by a nanosecond, on one side only. The
  attempt to prove the stricter bound found the sequence that breaks it (section 3).
* `WindowHoldsSelection`: the page turns a latency into a percentile and that into a
  rank. The percentile of a latency is placed between two steps of ranks
  (`Placed`); `rank_bounds` rounds the low end down and the high end up, which for
  a window whose ends are durations costs nothing below (`LowEdge`) and one rank
  above (`HighEdge`). `Grain` has to be fine enough (`Fine`).
* `PageAgreesWithQuery`: the first render of a full range leaves every eligible
  invocation selected, and eligible means what `Candidates` means but for the
  half-open end of the time.

`SliceSent_proofs` says more of a `sent` from which nothing is ever taken
(`Follows`), that is of all records ever submitted. `SentInv` is one inductive
invariant of named parts; those that `SliceRecords_proofs` does not have are:

* `OwnersInv`: an id is at least 2, and all records that carry it are of one thread.
  `SpendsInv`: every id is paid for by a call, so ids stay in the `Ids` of the
  correlator.
* `OnceInv`: an id has at most one ENTRY and at most one RETURN. `EndsInv`: the
  RETURN is not before the ENTRY.
* `OrderInv`: the boundary records of a thread are in the order of their times, for
  the time in a record is that of the thread's present probe. `StackInv`: a sample
  or an off-CPU record accounts for time after the thread's earlier ones; this
  needs that the sampling link goes before the scheduler link (`SampledInv`), for
  otherwise a sample could come inside an interval left open.
* `CallersInv`, `HoldsInv`: a call is of one thread, and from its ENTRY on nothing is
  open on the thread but its own invocation or one a call inside it opened. So
  the RETURN of that call, if it has one, carries the id of its ENTRY.

`SliceCapture_proofs` (those and `CaptureAssumption`):

* `CaptureInvariant`: `RecordsInv`, that `received \o ring` satisfies `SentInv` until a
  failing capture drops all links at once, and `ProfileInv`, that the log of
  the correlator has one event for each record replayed, saying what the record
  says (`ReplayInv`). From `OwnersInv` each replayed event is consistent with the log,
  so the invariants of `SliceCollector_proofs` hold of the replay although `Push` is
  not told to be consistent here.
* `CapturedProfileValidates`: ids are unique since records are reported by id; an
  invocation ends after it starts by `EndsInv`; a sample in the profile lies in its
  invocation by `finish`, and is of its thread by `OwnersInv`; the quality record is
  that of `QualityIsAccurate`. Parents are absent, so there is no cycle.
* `ValidInvocationIsOneCall`: `ReportInv`, that among the records received a RETURN of
  another call's id has a VIOLATION of the thread before it, is `Reported` of
  `SentInv` for as long as `slice_entry` is attached, which covers all receiving.
  By `OrderInv` that VIOLATION lies between the two in time as well, so `finish`
  catches it.
* `OffCpuTimeIsOwned`: from `Apart` and `StackInv`, carried over the replay.
* `CleanCallIsReported`: by `OnceInv` and `HoldsInv` the two records of a clean call
  are the only boundaries of one id, and no VIOLATION lies between, so their events
  are `Bracketed`, which is what makes an invocation valid.

What stays with TLC: liveness (`CommandEnds`, `CaptureEnds`), which the prover does
not reach. Every other property of a passing run is a theorem.

## 6. Plan

An abstract specification of what a capture promises (a population of
disjoint calls per thread with their own samples), implemented by
`SliceCapture`, from the four theorems about its profile.

## 7. Not modelled

* Repository checks (`tools/repo-check`): a linter of the repository's files.
* Compression and decoding of a file: one Boolean. Splitting of arguments.
* The page's layout, tooltips, zoom, and its own flame tree, which follows
  `execute_query`; floating-point rounding in the page.
* Skeleton loading, `build.rs`, probe diagnostics and messages.
* Pids and their reuse; a file that changes while it is read.
* A producer that outruns the ring's consumer forever (see Fairness).
