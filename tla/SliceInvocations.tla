-------------------------- MODULE SliceInvocations --------------------------
(***************************************************************************)
(* What the kernel programs promise about the invocations of a population: *)
(* a thread is inside one invocation at most, enters it with an id nobody  *)
(* ever had, and keeps that id until the invocation is over.  SliceBpf     *)
(* implements this with active_by_tid and next_invocation_id.              *)
(***************************************************************************)
EXTENDS Integers

CONSTANTS
    Threads,         \* threads of the profiled process
    None             \* no invocation

VARIABLES
    open,            \* the invocation each thread is inside
    used             \* ids spent so far

invocationVars == <<open, used>>

InvocationInit ==
    /\ open = [t \in Threads |-> None]
    /\ used = {1}

\* The thread enters an invocation with a new id.
Enter(t) ==
    /\ open[t] = None
    /\ open'[t] \in Nat \ used
    /\ open' = [open EXCEPT ![t] = open'[t]]
    /\ used' = used \cup {open'[t]}

\* An id is spent on a call that does not become an invocation.
Spend ==
    /\ \E id \in used' \ used : id \in Nat /\ used' = used \cup {id}
    /\ UNCHANGED open

\* The invocation is over.
Leave(t) ==
    /\ open[t] # None
    /\ open' = [open EXCEPT ![t] = None]
    /\ UNCHANGED used

InvocationNext == Spend \/ \E t \in Threads : Enter(t) \/ Leave(t)

InvocationSpec == InvocationInit /\ [][InvocationNext]_invocationVars
=============================================================================
