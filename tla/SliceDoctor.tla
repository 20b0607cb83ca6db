----------------------------- MODULE SliceDoctor -----------------------------
(***************************************************************************)
(* The prerequisite report of `slice doctor`.  A host is a record of what  *)
(* the checks read: arch, release (the version as a sequence of numbers,   *)
(* -1 for a component that is no number), btf, uprobeMulti (whether the    *)
(* BTF, if there is one, names it), tracing (what reading each of the two  *)
(* paths of the tracepoint gives), root and caps.                          *)
(***************************************************************************)
EXTENDS Integers, Sequences, FiniteSets

CaptureCapabilities == {"CAP_BPF", "CAP_PERFMON", "CAP_SYS_PTRACE"}

Authorized(host) == host.root \/ CaptureCapabilities \subseteq host.caps

\* Both components must be there and be numbers.
KernelAtLeast(release, major, minor) ==
    /\ Len(release) >= 2
    /\ release[1] >= 0 /\ release[2] >= 0
    /\ \/ release[1] > major
       \/ release[1] = major /\ release[2] >= minor

\* The first path that can be read settles it; a refusal outweighs an absence.
TracepointAccess(host) ==
    CASE "read" \in host.tracing -> "Available"
      [] "read" \notin host.tracing /\ "denied" \in host.tracing -> "PermissionDenied"
      [] OTHER -> "Missing"

Required(holds) == IF holds THEN "Pass" ELSE "Failure"

RefusalIsFailure(host) == Required(TracepointAccess(host) = "Available")

\* A refusal is forgiven only to a caller that has yet to be authorized.
TracepointStatus(host) ==
    CASE TracepointAccess(host) = "Available" -> "Pass"
      [] TracepointAccess(host) = "PermissionDenied" /\ ~Authorized(host) -> "Warning"
      [] OTHER -> "Failure"

\* The checks that can be other than Pass.
DoctorReport(host) ==
    [architecture |-> Required(host.arch = "x86_64"),
     kernel |-> Required(KernelAtLeast(host.release, 6, 6)),
     btf |-> Required(host.btf),
     uprobe_multi |-> Required(host.btf /\ host.uprobeMulti),
     sched_switch |-> TracepointStatus(host),
     authority |-> IF Authorized(host) THEN "Pass" ELSE "Warning"]

Checks(report, status) == {key \in DOMAIN report : report[key] = status}

HasFailures(report) == Checks(report, "Failure") # {}

\* The same host for root: whatever was denied can be read.
Elevated(host) ==
    [host EXCEPT !.root = TRUE,
                 !.tracing = {IF answer = "denied" THEN "read" ELSE answer : answer \in @}]
=============================================================================
