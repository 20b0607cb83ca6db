------------------------------ MODULE MCReport ------------------------------
(***************************************************************************)
(* Small files, modules and hosts for SliceViewer.  Function 1 is the      *)
(* selected one; frames without a function have id 0.                      *)
(***************************************************************************)
EXTENDS SliceViewer

Call(id, fn, tid, start, end, complete, parent) ==
    [id |-> id, fn |-> fn, tid |-> tid, start |-> start, end |-> end,
     complete |-> complete, valid |-> complete, parent |-> parent]

Named(label) == [label |-> label, fn |-> 0]
Target == [label |-> "f", fn |-> 1]

Plain == <<Named("main"), Named("f"), Named("g")>>
Bare == <<Named("main"), Target>>
Recursive == <<Named("f"), Named("g"), Named("g")>>
Foreign == <<Named("main")>>

Taken(n, id, tid, ts, cpu, weight, stack) ==
    [n |-> n, id |-> id, tid |-> tid, ts |-> ts, state |-> cpu, weight |-> weight, stack |-> stack]

Quality(complete, incomplete, generated) ==
    [complete |-> complete, incomplete |-> incomplete, samplesGenerated |-> generated,
     eventsGenerated |-> 0]

ProfileOf(order, invs, samples, generated) ==
    [order |-> order, functions |-> ToSet(order), threads |-> {i.tid : i \in invs},
     invocations |-> invs, stacks |-> {Plain, Bare, Recursive, Foreign}, samples |-> samples,
     quality |-> Quality(Cardinality({i \in invs : i.complete}),
                         Cardinality({i \in invs : ~i.complete}), generated)]

File(p) == [magic |-> TRUE, decodes |-> TRUE, version |-> 1, profile |-> p]

\* Three calls of 2, 4 and 8 on two threads, and one that never returned.
Mixed ==
    ProfileOf(<<1>>,
        {Call(1, 1, 1, 10, 12, TRUE, NoParent), Call(2, 1, 2, 12, 16, TRUE, NoParent),
         Call(3, 1, 1, 20, 28, TRUE, NoParent), Call(4, 1, 2, 26, 30, FALSE, NoParent)},
        {Taken(0, 1, 1, 11, "OnCpu", 1, Plain), Taken(1, 2, 2, 16, "OffCpu", 3, Bare),
         Taken(2, 3, 1, 28, "OffCpu", 5, Plain), Taken(3, 3, 1, 22, "OnCpu", 1, Recursive),
         Taken(4, 3, 1, 23, "OnCpu", 1, Foreign)}, 5)

\* Two calls of the same duration, both nested in a third.
Ties ==
    ProfileOf(<<1>>,
        {Call(1, 1, 1, 0, 12, TRUE, NoParent), Call(2, 1, 1, 2, 4, TRUE, 1), Call(3, 1, 1, 6, 8, TRUE, 1)},
        {Taken(0, 2, 1, 3, "OnCpu", 1, Plain)}, 1)

\* One call, of the second function of two.
Second == ProfileOf(<<1, 2>>, {Call(1, 2, 1, 0, 4, TRUE, NoParent)}, {}, 0)

Unfinished == ProfileOf(<<1>>, {Call(1, 1, 1, 0, 4, FALSE, NoParent)}, {}, 0)

Empty == ProfileOf(<<1>>, {}, {}, 0)

\* A parent that is its own child's child, and one that is its own: the id 0,
\* which is no absence of a parent.
Cyclic ==
    ProfileOf(<<1>>, {Call(1, 1, 1, 0, 4, TRUE, 2), Call(2, 1, 1, 0, 4, TRUE, 1)}, {}, 0)
Loop == ProfileOf(<<1>>, {Call(1, 1, 1, 0, 4, TRUE, NoParent), Call(0, 1, 1, 0, 4, TRUE, 0)}, {}, 0)

NoFunctions == ProfileOf(<<>>, {}, {}, 0)

MCFiles ==
    {File(p) : p \in {Mixed, Ties, Second, Unfinished, Empty, Cyclic, Loop, NoFunctions}}
       \cup {[File(Mixed) EXCEPT !.magic = FALSE], [File(Mixed) EXCEPT !.decodes = FALSE],
             [File(Mixed) EXCEPT !.version = 2]}

Args(threads, time, low, high) ==
    [threads |-> threads, time |-> time, percentile |-> [low |-> low, high |-> high],
     metric |-> "Wall"]

Ns(from, to) ==
    <<[from |-> [number |-> from, suffix |-> "ns"], to |-> [number |-> to, suffix |-> "ns"]]>>

\* 4us and 60ns are past the end of MCWord; 4us and 5us wrap to the same.
MCViewArgs ==
    {Args(<<>>, <<>>, 0, 100), Args(<<>>, <<>>, 0, 50), Args(<<>>, <<>>, 30, 70),
     Args(<<>>, <<>>, 50, 100),
     Args(<<>>, <<>>, 99, 100), Args(<<>>, <<>>, 60, 40), Args(<<>>, <<>>, 0, 101),
     Args(<<{1}>>, <<>>, 0, 100), Args(<<{-1}>>, <<>>, 0, 100),
     Args(<<>>, Ns(0, 10), 0, 100), Args(<<>>, Ns(10, 10), 0, 100), Args(<<>>, Ns(60, 62), 0, 100),
     Args(<<>>, <<[from |-> [number |-> 0, suffix |-> "us"], to |-> [number |-> 4, suffix |-> "us"]]>>,
          0, 100),
     Args(<<>>, <<[from |-> [number |-> 0, suffix |-> "h"], to |-> [number |-> 4, suffix |-> "h"]]>>,
          0, 100)}

MCUnits == [suffix \in {"ns", "us"} |-> IF suffix = "ns" THEN 1 ELSE 16]

MCFunctionName == [fn \in {1, 2} |-> IF fn = 1 THEN "f" ELSE "g"]

-----------------------------------------------------------------------------
Symbol(name, address, text) == [name |-> name, address |-> address, text |-> text]

Segment(address, offset, size, exec) ==
    [address |-> address, offset |-> offset, size |-> size, exec |-> exec]

Separate == <<Segment(0, 0, 6, FALSE), Segment(16, 8, 10, TRUE), Segment(34, 18, 4, FALSE)>>
Shared == <<Segment(0, 0, 6, FALSE), Segment(22, 6, 10, TRUE)>>

MCElves ==
    {[elf |-> [symbols |-> symbols, segments |-> segments], bias |-> 64, page |-> 8] :
        symbols \in {<<Symbol("f", 18, TRUE), Symbol("g", 21, TRUE), Symbol("main", 16, TRUE)>>,
                     <<Symbol("h", 23, TRUE), Symbol("f", 23, TRUE), Symbol("g", 24, TRUE)>>,
                     <<Symbol("f", 19, TRUE), Symbol("g", 17, TRUE), Symbol("f", 19, TRUE)>>,
                     <<Symbol("f", 17, TRUE), Symbol("f", 20, TRUE), Symbol("g", 40, TRUE)>>,
                     <<Symbol("f", 0, TRUE), Symbol("g", 35, FALSE)>>,
                     <<>>},
        segments \in {Separate, Shared}}

-----------------------------------------------------------------------------
MCHosts ==
    [arch : {"x86_64", "aarch64"},
     release : {<<6, 6>>, <<6, 12>>, <<6, 5>>, <<5, 19>>, <<7, 0>>, <<6, -1>>, <<6>>},
     btf : BOOLEAN, uprobeMulti : BOOLEAN,
     tracing : {{"read"}, {"denied"}, {"missing"}, {"missing", "denied"}, {"missing", "read"}},
     root : BOOLEAN,
     caps : {{}, {"CAP_BPF", "CAP_PERFMON"}, {"CAP_BPF", "CAP_PERFMON", "CAP_SYS_PTRACE"}}]
=============================================================================
