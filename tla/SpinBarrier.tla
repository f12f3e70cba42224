---------------------------- MODULE SpinBarrier ----------------------------
(***************************************************************************)
(* ggml_barrier without OpenMP: two counters shared by a team of threads.  *)
(* A thread notes how often the barrier has opened, counts itself in, and  *)
(* spins until it opens again; the last one to arrive opens it.  A team of *)
(* one returns at once and is not modelled.                                *)
(***************************************************************************)
EXTENDS Integers

CONSTANT n_threads

ASSUME TeamAssumption == n_threads \in Nat \ {0, 1}

Threads == 0 .. n_threads - 1

VARIABLES
    n_barrier,         \* arrivals since the barrier opened
    n_barrier_passed,  \* how often it has opened
    passed_old,        \* the local copy of each thread
    at,                \* where each thread is in the function
    crossed            \* history: how often each thread has returned from it

barrier == <<n_barrier, n_barrier_passed, passed_old, at, crossed>>

BarrierInit ==
    /\ n_barrier = 0 /\ n_barrier_passed = 0
    /\ passed_old = [t \in Threads |-> 0]
    /\ at = [t \in Threads |-> "out"]
    /\ crossed = [t \in Threads |-> 0]

Goto(t, l) == at' = [at EXCEPT ![t] = l]

Load(t) ==
    /\ at[t] = "out"
    /\ passed_old' = [passed_old EXCEPT ![t] = n_barrier_passed]
    /\ Goto(t, "add")
    /\ UNCHANGED <<n_barrier, n_barrier_passed, crossed>>

Add(t) ==
    /\ at[t] = "add"
    /\ n_barrier' = n_barrier + 1
    /\ Goto(t, IF n_barrier = n_threads - 1 THEN "reset" ELSE "spin")
    /\ UNCHANGED <<n_barrier_passed, passed_old, crossed>>

Reset(t) ==
    /\ at[t] = "reset"
    /\ n_barrier' = 0
    /\ Goto(t, "open")
    /\ UNCHANGED <<n_barrier_passed, passed_old, crossed>>

Return(t) ==
    /\ crossed' = [crossed EXCEPT ![t] = @ + 1]
    /\ Goto(t, "out")

Open(t) ==
    /\ at[t] = "open"
    /\ n_barrier_passed' = n_barrier_passed + 1
    /\ Return(t)
    /\ UNCHANGED <<n_barrier, passed_old>>

\* mutation: spins while others wait instead of until the barrier opens
SeesEmpty(t) == n_barrier = 0

\* mutation: does not wait for the barrier to open
SeesAny(t) == n_barrier_passed >= passed_old[t]

SeesOpen(t) == n_barrier_passed # passed_old[t]

Leave(t) ==
    /\ at[t] = "spin" /\ SeesOpen(t)
    /\ Return(t)
    /\ UNCHANGED <<n_barrier, n_barrier_passed, passed_old>>

BarrierStep(t) == Load(t) \/ Add(t) \/ Reset(t) \/ Open(t) \/ Leave(t)

BarrierNext == \E t \in Threads : BarrierStep(t)

BarrierSpec == BarrierInit /\ [][BarrierNext]_barrier

\* Fields in range: no more arrivals than threads.
BarrierTypeOK ==
    /\ n_barrier \in 0 .. n_threads
    /\ n_barrier_passed \in Nat
    /\ passed_old \in [Threads -> Nat]
    /\ at \in [Threads -> {"out", "add", "reset", "open", "spin"}]
    /\ crossed \in [Threads -> Nat]

----------------------------------------------------------------------------
(* The promise: no thread returns from its k-th call before all have made  *)
(* their k-th.                                                             *)

arrived == [t \in Threads |->
              crossed[t] + IF at[t] \in {"reset", "open", "spin"} THEN 1 ELSE 0]

Rounds == INSTANCE Rounds WITH crossed <- crossed, arrived <- arrived

\* The two counters implement a barrier.
IsBarrier == Rounds!Spec

=============================================================================
