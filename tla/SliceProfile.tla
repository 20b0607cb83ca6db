---------------------------- MODULE SliceProfile ----------------------------
(***************************************************************************)
(* Profile::validate of slice-core: what every consumer may rely on in a   *)
(* profile.  A profile is a record of sets; ids that must be unique are    *)
(* unique when no two records of a set share one.                          *)
(***************************************************************************)
EXTENDS Integers, FiniteSets

\* None, which no u64 is taken for: 0 is an id like any other.
NoParent == -1

UniqueIds(records) == \A a, b \in records : a.id = b.id => a = b

IdsOf(records) == {r.id : r \in records}

\* The parent the HashMap of parents gives for an id; unknown ids have none.
ParentOf(invs, id) ==
    IF id \in IdsOf(invs) THEN (CHOOSE i \in invs : i.id = id).parent ELSE NoParent

\* The walk from id to its ancestors: it meets an id twice exactly when it is
\* still going after as many steps as there are invocations.
Ancestor(invs, id) ==
    LET walk[n \in 0..Cardinality(invs)] ==
            IF n = 0 THEN id
            ELSE IF walk[n - 1] = NoParent THEN NoParent ELSE ParentOf(invs, walk[n - 1])
    IN walk

NotItsOwnParent(invs, id) == ParentOf(invs, id) # id

Acyclic(invs, id) == Ancestor(invs, id)[Cardinality(invs)] = NoParent

ValidInvocation(p, i) ==
    /\ i.fn \in p.functions
    /\ i.tid \in p.threads
    /\ i.end >= i.start
    /\ i.parent # NoParent => i.parent \in IdsOf(p.invocations)
    /\ Acyclic(p.invocations, i.id)

\* The sample's invocation and stack are known, the invocation ran on the
\* sample's thread and covers its time.
ValidSample(p, s) ==
    /\ s.stack \in p.stacks
    /\ \E i \in p.invocations :
          i.id = s.id /\ i.tid = s.tid /\ i.start <= s.ts /\ s.ts <= i.end

ConsistentQuality(p) ==
    LET population == {i \in p.invocations : i.complete /\ i.valid}
    IN /\ p.quality.complete <= Cardinality(population)
       /\ p.quality.incomplete <= Cardinality(p.invocations \ population)
       /\ p.quality.samplesGenerated >= Cardinality(p.samples)

Validates(p) ==
    /\ UniqueIds(p.invocations)
    /\ \A i \in p.invocations : ValidInvocation(p, i)
    /\ \A s \in p.samples : ValidSample(p, s)
    /\ ConsistentQuality(p)
=============================================================================
