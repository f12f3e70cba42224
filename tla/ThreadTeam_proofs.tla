-------------------------- MODULE ThreadTeam_proofs --------------------------
(***************************************************************************)
(* The two counters of ggml_barrier are a barrier, for every number of     *)
(* threads, and in every use the thread team makes of them.                *)
(*                                                                         *)
(* The threads of a team write every row of every node once and read only  *)
(* finished sources, for every number of threads and every size of node.   *)
(* First the arithmetic: the shares, stripes and chunks of a node do not   *)
(* overlap and leave nothing out.  Then the invariant TeamInv: the barrier *)
(* keeps the team in formation (BInv, Formation), the shared chunk counter *)
(* belongs to the node in hand (Counter), every source is converted before *)
(* a chunk is taken (Converted), what is written of each node is what its  *)
(* threads have done of it (Parted), and so nothing has been written       *)
(* twice.                                                                  *)
(***************************************************************************)
EXTENDS ThreadTeam, FiniteSetTheorems, TLAPS

-----------------------------------------------------------------------------
(* The barrier.                                                            *)

\* the threads that have arrived and for which the barrier has not opened
Waiting == {t \in Threads : at[t] \in {"spin", "reset", "open"} /\ passed_old[t] = n_barrier_passed}

Last == {t \in Threads : at[t] \in {"reset", "open"}}

\* Where a thread is, it has crossed the barrier as often as that has opened,
\* but for a thread that still spins when it has opened.
InStep(t) ==
    /\ at[t] # "spin" => crossed[t] = n_barrier_passed
    /\ at[t] \in {"add", "reset", "open"} => passed_old[t] = n_barrier_passed
    /\ at[t] = "spin" => /\ crossed[t] = passed_old[t]
                         /\ passed_old[t] \in {n_barrier_passed, n_barrier_passed - 1}

\* While there is no last one the counter counts those that wait, who are not
\* all; and there is one last thread only when all wait.
Counts ==
    /\ Last = {} => n_barrier = Cardinality(Waiting) /\ n_barrier < n_threads
    /\ Last # {} => Waiting = Threads
    /\ \A t \in Threads : at[t] = "open" => n_barrier = 0
    /\ \A t, u \in Last : t = u

BInv == BarrierTypeOK /\ (\A t \in Threads : InStep(t)) /\ Counts

\* A team is finite, and so are those of it that wait.
LEMMA TeamFinite == IsFiniteSet(Threads) /\ Cardinality(Threads) = n_threads
<1>1. n_threads - 1 \in Int /\ 0 \in Int
  BY TeamAssumption
<1>2. IsFiniteSet(0 .. n_threads - 1)
  BY <1>1, FS_Interval
<1>3. Cardinality(0 .. n_threads - 1) = n_threads
  BY <1>1, FS_Interval, TeamAssumption
<1> QED BY <1>2, <1>3 DEF Threads

\* One more of the team is one more counted; if that makes them all, it is the team.
LEMMA OneMore ==
    ASSUME NEW W, W \subseteq Threads, NEW t \in Threads, t \notin W
    PROVE  /\ IsFiniteSet(W) /\ Cardinality(W) \in Nat
           /\ Cardinality(W \cup {t}) = Cardinality(W) + 1
           /\ Cardinality(W) + 1 = n_threads => W \cup {t} = Threads
           /\ Cardinality(W) + 1 <= n_threads
<1>1. IsFiniteSet(W) /\ Cardinality(W) \in Nat
  BY TeamFinite, FS_Subset, FS_CardinalityType
<1>2. IsFiniteSet(W \cup {t}) /\ Cardinality(W \cup {t}) = Cardinality(W) + 1
  BY <1>1, FS_AddElement
<1>3. W \cup {t} \subseteq Threads
  OBVIOUS
<1>4. Cardinality(W \cup {t}) <= n_threads
  BY <1>3, TeamFinite, FS_Subset
<1>5. Cardinality(W \cup {t}) = n_threads => W \cup {t} = Threads
  BY <1>3, TeamFinite, FS_Subset
<1> QED BY <1>1, <1>2, <1>4, <1>5

\* The invariant holds at first.
LEMMA InitBInv == BarrierInit => BInv
<1> SUFFICES ASSUME BarrierInit PROVE BInv
  OBVIOUS
<1>1. BarrierTypeOK
  BY TeamAssumption DEF BarrierInit, BarrierTypeOK
<1>2. \A t \in Threads : InStep(t)
  BY DEF BarrierInit, InStep
<1>3. Waiting = {} /\ Last = {}
  BY DEF BarrierInit, Waiting, Last
<1>4. Counts
  BY <1>3, FS_EmptySet, TeamAssumption DEF BarrierInit, Counts
<1> QED BY <1>1, <1>2, <1>4 DEF BInv

\* Each step of the barrier preserves it.
LEMMA StepBInv == ASSUME BInv, NEW t \in Threads, BarrierStep(t) PROVE BInv'
<1> USE TeamAssumption
<1>0. /\ BarrierTypeOK /\ Counts /\ n_barrier_passed \in Nat /\ n_barrier \in Nat
      /\ \A u \in Threads : InStep(u)
      /\ \A u \in Threads : passed_old[u] \in Nat /\ crossed[u] \in Nat
  BY DEF BInv, BarrierTypeOK
<1>1. CASE Load(t)
  <2>1. BarrierTypeOK'
    BY <1>0, <1>1 DEF Load, Goto, BarrierTypeOK
  <2>2. (\A u \in Threads : InStep(u))'
    BY <1>0, <1>1 DEF Load, Goto, BarrierTypeOK, InStep
  <2>3. t \notin Waiting /\ Last = {}
    BY <1>0, <1>1 DEF Load, Waiting, Counts
  <2>4. Waiting' = Waiting /\ Last' = {}
    BY <1>0, <1>1, <2>3 DEF Load, Goto, Waiting, Last, BarrierTypeOK
  <2>5. Counts'
    BY <1>0, <1>1, <2>3, <2>4 DEF Load, Goto, Counts, Last
  <2> QED BY <2>1, <2>2, <2>5 DEF BInv
<1>2. CASE Add(t)
  <2>1. t \notin Waiting /\ Last = {}
    BY <1>0, <1>2 DEF Add, Waiting, Counts
  <2>2. /\ n_barrier = Cardinality(Waiting) /\ n_barrier + 1 <= n_threads
        /\ Cardinality(Waiting \cup {t}) = n_barrier + 1
        /\ n_barrier + 1 = n_threads => Waiting \cup {t} = Threads
    <3>1. Waiting \subseteq Threads
      BY DEF Waiting
    <3> QED BY <1>0, <2>1, <3>1, OneMore DEF Counts
  <2>3. BarrierTypeOK'
    BY <1>0, <1>2, <2>2 DEF Add, Goto, BarrierTypeOK
  <2>4. (\A u \in Threads : InStep(u))'
    BY <1>0, <1>2 DEF Add, Goto, BarrierTypeOK, InStep
  <2>5. Waiting' = Waiting \cup {t}
    BY <1>0, <1>2 DEF Add, Goto, Waiting, BarrierTypeOK, InStep
  <2>6. Counts'
    <3>1. CASE n_barrier = n_threads - 1
      <4>1. Last' = {t}
        BY <1>0, <1>2, <2>1, <3>1 DEF Add, Goto, Last, BarrierTypeOK
      <4>2. \A u \in Threads : at'[u] # "open"
        BY <1>0, <1>2, <2>1, <3>1 DEF Add, Goto, Last, BarrierTypeOK
      <4> QED BY <2>2, <2>5, <3>1, <4>1, <4>2 DEF Counts
    <3>2. CASE n_barrier # n_threads - 1
      <4>1. Last' = {}
        BY <1>0, <1>2, <2>1, <3>2 DEF Add, Goto, Last, BarrierTypeOK
      <4>2. n_barrier' = Cardinality(Waiting') /\ n_barrier' < n_threads
        BY <1>0, <1>2, <2>2, <2>5, <3>2 DEF Add
      <4> QED BY <4>1, <4>2 DEF Counts, Last
    <3> QED BY <3>1, <3>2
  <2> QED BY <2>3, <2>4, <2>6 DEF BInv
<1>3. CASE Reset(t)
  <2>1. BarrierTypeOK'
    BY <1>0, <1>3 DEF Reset, Goto, BarrierTypeOK
  <2>2. (\A u \in Threads : InStep(u))'
    BY <1>0, <1>3 DEF Reset, Goto, BarrierTypeOK, InStep
  <2>3. t \in Last /\ Waiting = Threads
    BY <1>0, <1>3 DEF Reset, Last, Counts
  <2>4. Last' = Last /\ Waiting' = Threads
    BY <1>0, <1>3, <2>3 DEF Reset, Goto, Last, Waiting, BarrierTypeOK
  <2>5. Counts'
    BY <1>0, <1>3, <2>3, <2>4 DEF Reset, Counts
  <2> QED BY <2>1, <2>2, <2>5 DEF BInv
<1>4. CASE Open(t)
  <2>1. t \in Last /\ Waiting = Threads /\ n_barrier = 0 /\ \A u \in Last : u = t
    BY <1>0, <1>4 DEF Open, Last, Counts
  <2>2. BarrierTypeOK'
    BY <1>0, <1>4 DEF Open, Return, Goto, BarrierTypeOK
  <2>3. \A u \in Threads \ {t} : at[u] = "spin" /\ passed_old[u] = n_barrier_passed
    BY <2>1 DEF Waiting, Last
  <2>4. (\A u \in Threads : InStep(u))'
    BY <1>0, <1>4, <2>3 DEF Open, Return, Goto, BarrierTypeOK, InStep
  <2>5. Waiting' = {} /\ Last' = {}
    BY <1>0, <1>4, <2>3 DEF Open, Return, Goto, Waiting, Last, BarrierTypeOK
  <2>6. Counts'
    BY <1>0, <1>4, <2>1, <2>5, FS_EmptySet DEF Open, Counts, Last
  <2> QED BY <2>2, <2>4, <2>6 DEF BInv
<1>5. CASE Leave(t)
  <2>1. t \notin Waiting /\ Last = {}
    BY <1>0, <1>5 DEF Leave, SeesOpen, Waiting, Counts
  <2>2. BarrierTypeOK'
    BY <1>0, <1>5 DEF Leave, Return, Goto, BarrierTypeOK
  <2>3. (\A u \in Threads : InStep(u))'
    BY <1>0, <1>5 DEF Leave, SeesOpen, Return, Goto, BarrierTypeOK, InStep
  <2>4. Waiting' = Waiting /\ Last' = {}
    BY <1>0, <1>5, <2>1 DEF Leave, Return, Goto, Waiting, Last, BarrierTypeOK
  <2>5. Counts'
    BY <1>0, <1>5, <2>1, <2>4 DEF Leave, Counts, Last
  <2> QED BY <2>2, <2>3, <2>5 DEF BInv
<1> QED BY <1>1, <1>2, <1>3, <1>4, <1>5 DEF BarrierStep

\* Each step of the barrier arrives, crosses or goes on in silence: who crosses
\* finds that all have arrived at its round.
LEMMA StepOfRounds ==
    ASSUME BInv, NEW t \in Threads, BarrierStep(t)
    PROVE  Rounds!Next \/ UNCHANGED <<arrived, crossed>>
<1>0. /\ BarrierTypeOK /\ Counts /\ n_barrier_passed \in Nat
      /\ \A u \in Threads : InStep(u)
      /\ \A u \in Threads : passed_old[u] \in Nat /\ crossed[u] \in Nat
  BY DEF BInv, BarrierTypeOK
<1>1. CASE Load(t)
  BY <1>0, <1>1 DEF Load, Goto, arrived, BarrierTypeOK
<1>2. CASE Add(t)
  <2>1. arrived[t] = crossed[t]
    BY <1>0, <1>2 DEF Add, arrived
  <2>2. arrived' = [arrived EXCEPT ![t] = @ + 1] /\ UNCHANGED crossed
    <3>1. /\ at[t] = "add" /\ at'[t] \in {"reset", "spin"} /\ crossed' = crossed
          /\ \A u \in Threads : u # t => at'[u] = at[u]
      BY <1>0, <1>2 DEF Add, Goto, BarrierTypeOK
    <3>2. \A u \in Threads : arrived'[u] = IF u = t THEN arrived[u] + 1 ELSE arrived[u]
      BY <1>0, <3>1 DEF arrived
    <3>3. arrived' = [u \in Threads |-> arrived'[u]] /\ arrived = [u \in Threads |-> arrived[u]]
      BY DEF arrived
    <3>4. arrived' = [arrived EXCEPT ![t] = @ + 1]
      <4> HIDE DEF arrived
      <4> QED BY <3>2, <3>3
    <3> QED BY <3>1, <3>4
  <2>3. Rounds!Arrive(t)
    BY <2>1, <2>2 DEF Rounds!Arrive
  <2> QED BY <2>3 DEF Rounds!Next
<1>3. CASE Reset(t)
  BY <1>0, <1>3 DEF Reset, Goto, arrived, BarrierTypeOK
<1>4. CASE Open(t)
  <2>1. \A u \in Threads : arrived[u] = n_barrier_passed + 1
    <3>1. Waiting = Threads
      BY <1>0, <1>4 DEF Open, Last, Counts
    <3> QED BY <1>0, <3>1 DEF Waiting, InStep, arrived
  <2>2. crossed[t] = n_barrier_passed
    BY <1>0, <1>4 DEF Open, InStep
  <2>3. UNCHANGED arrived /\ crossed' = [crossed EXCEPT ![t] = @ + 1]
    BY <1>0, <1>4 DEF Open, Return, Goto, arrived, BarrierTypeOK
  <2>4. Rounds!Cross(t)
    BY <1>0, <2>1, <2>2, <2>3 DEF Rounds!Cross
  <2> QED BY <2>4 DEF Rounds!Next
<1>5. CASE Leave(t)
  <2>1. passed_old[t] = n_barrier_passed - 1 /\ crossed[t] = passed_old[t]
    BY <1>0, <1>5 DEF Leave, SeesOpen, InStep
  <2>2. Last = {}
    BY <1>0, <2>1 DEF Counts, Waiting
  <2>3. \A u \in Threads : arrived[u] >= n_barrier_passed
    BY <1>0, <2>2 DEF Last, InStep, arrived, BarrierTypeOK
  <2>4. arrived[t] = n_barrier_passed
    BY <1>0, <1>5, <2>1 DEF Leave, arrived
  <2>5. UNCHANGED arrived /\ crossed' = [crossed EXCEPT ![t] = @ + 1]
    BY <1>0, <1>5 DEF Leave, Return, Goto, arrived, BarrierTypeOK
  <2>6. \A u \in Threads : arrived[u] \in Nat
    BY <1>0 DEF arrived
  <2>7. Rounds!Cross(t)
    BY <1>0, <2>1, <2>3, <2>4, <2>5, <2>6 DEF Rounds!Cross
  <2> QED BY <2>7 DEF Rounds!Next
<1> QED BY <1>1, <1>2, <1>3, <1>4, <1>5 DEF BarrierStep

\* Nobody has arrived or crossed at first.
LEMMA InitOfRounds == BarrierInit => Rounds!Init
  BY DEF BarrierInit, Rounds!Init, arrived

-----------------------------------------------------------------------------
\* ggml_barrier alone: no thread returns from its k-th call before all have
\* made their k-th, for every number of threads (ggml.c, ggml_barrier).
THEOREM BarrierImplementsRounds == BarrierSpec => IsBarrier
<1>1. BInv /\ [BarrierNext]_barrier => BInv'
  <2> SUFFICES ASSUME BInv, [BarrierNext]_barrier PROVE BInv'
    OBVIOUS
  <2>1. CASE BarrierNext
    BY <2>1, StepBInv DEF BarrierNext
  <2>2. CASE UNCHANGED barrier
    BY <2>2 DEF barrier, BInv, BarrierTypeOK, InStep, Counts, Waiting, Last
  <2> QED BY <2>1, <2>2
<1>2. BInv /\ [BarrierNext]_barrier => [Rounds!Next]_<<arrived, crossed>>
  <2> SUFFICES ASSUME BInv, [BarrierNext]_barrier
               PROVE  [Rounds!Next]_<<arrived, crossed>>
    OBVIOUS
  <2>1. CASE BarrierNext
    BY <2>1, StepOfRounds DEF BarrierNext
  <2>2. CASE UNCHANGED barrier
    BY <2>2 DEF barrier, arrived
  <2> QED BY <2>1, <2>2
<1> QED BY InitBInv, InitOfRounds, <1>1, <1>2, PTL DEF BarrierSpec, IsBarrier, Rounds!Spec

\* A step of the team is a step of the barrier or leaves it alone.
LEMMA TeamStep == [Next]_vars => [BarrierNext]_barrier
<1> SUFFICES ASSUME Next \/ UNCHANGED vars PROVE BarrierNext \/ UNCHANGED barrier
  OBVIOUS
<1>1. CASE Main
  BY <1>1 DEF Main, Create, SetCounter, Join
<1>2. CASE \E t \in Threads : Step(t)
  <2>1. PICK t \in Threads : Step(t)
    BY <1>2
  <2>2. CASE Meet(t)
    BY <2>2 DEF Meet, BarrierNext
  <2>3. CASE Compute(t) \/ Convert(t) \/ Gemv(t) \/ OneChunk(t) \/ NextChunk(t)
    BY <2>3 DEF Compute, Convert, Gemv, OneChunk, NextChunk
  <2>4. CASE Callback(t) \/ Status(t)
    BY <2>4 DEF Callback, Status
  <2> QED BY <2>1, <2>2, <2>3, <2>4 DEF Step
<1>3. CASE Returned \/ UNCHANGED vars
  BY <1>3 DEF Returned, vars
<1> QED BY <1>1, <1>2, <1>3 DEF Next

\* The whole team, with any graph, any chunks, and a callback that may abort:
\* its counters go on implementing the barrier between the nodes.
THEOREM TeamMeetsAtBarrier == Spec => IsBarrier
<1>1. Init => BarrierInit
  BY DEF Init
<1> QED BY <1>1, TeamStep, BarrierImplementsRounds, PTL DEF Spec, BarrierSpec

-----------------------------------------------------------------------------
(* Numbers.                                                                *)

\* What a quotient and its remainder are.
LEMMA DivMod ==
    ASSUME NEW a \in Int, NEW b \in Nat \ {0}
    PROVE  a \div b \in Int /\ a % b \in 0 .. b - 1 /\ a = (b * (a \div b)) + (a % b)
  OBVIOUS

\* A quotient is known from its bounds.
LEMMA DivIs ==
    ASSUME NEW a \in Int, NEW b \in Nat \ {0}, NEW q \in Int,
           b * q <= a, a < (b * q) + b
    PROVE  a \div b = q
  OBVIOUS

\* A quotient is below q when the dividend is below b * q, and only then.
LEMMA DivBelow ==
    ASSUME NEW a \in Int, NEW b \in Nat \ {0}, NEW q \in Int
    PROVE  a \div b < q <=> a < b * q
  OBVIOUS

LEMMA DivNat ==
    ASSUME NEW a \in Nat, NEW b \in Nat \ {0}
    PROVE  a \div b \in Nat /\ a % b \in Nat
  OBVIOUS

LEMMA DivMonotone ==
    ASSUME NEW b \in Nat \ {0}, NEW i \in Int, NEW j \in Int, i <= j
    PROVE  i \div b <= j \div b
  OBVIOUS

\* Products keep the order.
LEMMA Times ==
    ASSUME NEW b \in Nat, NEW i \in Int, NEW j \in Int, i <= j
    PROVE  b * i \in Int /\ b * j \in Int /\ b * i <= b * j
  OBVIOUS

LEMMA Ceil ==
    ASSUME NEW a \in Nat, NEW b \in Nat \ {0}
    PROVE  /\ CeilDiv(a, b) \in Nat
           /\ a <= b * CeilDiv(a, b) /\ b * CeilDiv(a, b) < a + b
<1> DEFINE s == a + b - 1
<1>1. s \in Nat
  OBVIOUS
<1> HIDE DEF s
<1>2. s \div b \in Int /\ s % b \in 0 .. b - 1 /\ s = (b * (s \div b)) + (s % b)
  BY <1>1, DivMod
<1>3. s \div b \in Nat
  BY <1>1, <1>2
<1>4. b * (s \div b) \in Int
  BY <1>2
<1>5. CeilDiv(a, b) = s \div b
  BY DEF CeilDiv, s
<1>6. s = a + b - 1
  BY DEF s
<1> HIDE DEF CeilDiv
<1>7. a <= b * (s \div b) /\ b * (s \div b) < a + b
  BY <1>2, <1>4, <1>6
<1> QED BY <1>3, <1>5, <1>7

\* A ceiling is below q when the dividend is at most b * (q - 1), and only then.
LEMMA CeilBelow ==
    ASSUME NEW a \in Nat, NEW b \in Nat \ {0}, NEW q \in Int
    PROVE  CeilDiv(a, b) <= q <=> a <= b * q
<1>1. a + b - 1 \in Int
  OBVIOUS
<1>2. CeilDiv(a, b) <= q <=> (a + b - 1) \div b < q + 1
  BY DivMod DEF CeilDiv
<1>3. @ <=> a + b - 1 < b * (q + 1)
  BY <1>1, DivBelow
<1>4. b * (q + 1) = (b * q) + b
  OBVIOUS
<1>5. b * q \in Int
  OBVIOUS
<1> QED BY <1>2, <1>3, <1>4, <1>5

LEMMA CeilPositive ==
    ASSUME NEW a \in Nat \ {0}, NEW b \in Nat \ {0}
    PROVE  CeilDiv(a, b) \in Nat \ {0}
  BY Ceil

-----------------------------------------------------------------------------
\* Two stripes have no row in common.
LEMMA StripesApart ==
    ASSUME NEW n \in Nat \ {0}, NEW chunks \in Nat \ {0}, NEW i \in Nat, NEW j \in Nat,
           NEW x, x \in Stripe(n, chunks, i), x \in Stripe(n, chunks, j)
    PROVE  i = j
<1> DEFINE q == CeilDiv(n, chunks)
<1>1. q \in Nat \ {0}
  BY CeilPositive
<1>2. /\ x \in Int /\ q * i <= x /\ x < q * (i + 1) /\ q * j <= x /\ x < q * (j + 1)
  <2>1. q * i \in Int /\ q * (i + 1) \in Int /\ q * j \in Int /\ q * (j + 1) \in Int
    BY <1>1
  <2> HIDE DEF q
  <2>2. x \in q * i .. LessOf(q * (i + 1), n) - 1 /\ x \in q * j .. LessOf(q * (j + 1), n) - 1
    BY DEF Stripe, q
  <2> QED BY <2>1, <2>2 DEF LessOf
<1> HIDE DEF q
<1>3. ~ i < j
  <2>1. i < j => q * (i + 1) <= q * j
    BY <1>1, Times
  <2> QED BY <1>1, <1>2, <2>1
<1>4. ~ j < i
  <2>1. j < i => q * (j + 1) <= q * i
    BY <1>1, Times
  <2> QED BY <1>1, <1>2, <2>1
<1> QED BY <1>3, <1>4

\* The stripes of a range are in it, and each row is in one of them.
LEMMA StripesCover ==
    ASSUME NEW n \in Nat \ {0}, NEW chunks \in Nat \ {0}
    PROVE  /\ \A i \in Nat : Stripe(n, chunks, i) \subseteq 0 .. n - 1
           /\ \A x \in 0 .. n - 1 : \E i \in 0 .. chunks - 1 : x \in Stripe(n, chunks, i)
<1> DEFINE q == CeilDiv(n, chunks)
<1>1. q \in Nat \ {0} /\ n <= chunks * q
  BY CeilPositive, Ceil
<1>2. \A i \in Nat : q * i \in Nat /\ q * (i + 1) \in Nat
  BY <1>1
<1>3. \A i \in Nat : Stripe(n, chunks, i) = q * i .. LessOf(q * (i + 1), n) - 1
  BY DEF Stripe
<1> HIDE DEF q
<1>4. ASSUME NEW i \in Nat PROVE Stripe(n, chunks, i) \subseteq 0 .. n - 1
  <2>1. q * i \in Nat /\ q * (i + 1) \in Nat
    BY <1>2
  <2>2. LessOf(q * (i + 1), n) \in Nat /\ LessOf(q * (i + 1), n) <= n
    BY <2>1 DEF LessOf
  <2>3. \A a, b \in Nat : b <= n => a .. b - 1 \subseteq 0 .. n - 1
    OBVIOUS
  <2>4. q * i .. LessOf(q * (i + 1), n) - 1 \subseteq 0 .. n - 1
    BY <2>1, <2>2, <2>3
  <2> QED BY <1>3, <2>4
<1>5. ASSUME NEW x \in 0 .. n - 1
      PROVE  \E i \in 0 .. chunks - 1 : x \in Stripe(n, chunks, i)
  <2> DEFINE i == x \div q
  <2>1. i \in Int /\ q * i <= x /\ x < q * (i + 1)
    BY <1>1, DivMod
  <2>2. i \in 0 .. chunks - 1
    <3>1. x < q * chunks
      BY <1>1
    <3>2. x \div q < chunks
      BY <1>1, <3>1, DivBelow
    <3>3. 0 <= x \div q
      BY <1>1
    <3> QED BY <2>1, <3>2, <3>3
  <2> HIDE DEF i
  <2>3. x \in q * i .. LessOf(q * (i + 1), n) - 1
    BY <1>2, <2>1, <2>2 DEF LessOf
  <2>4. Stripe(n, chunks, i) = q * i .. LessOf(q * (i + 1), n) - 1
    BY <1>3, <2>2
  <2> QED BY <2>2, <2>3, <2>4
<1> QED BY <1>4, <1>5

-----------------------------------------------------------------------------

\* whether the work of a node is handed out in chunks
HandsOut(node) == node.op = "mul_mat" /\ node.interleave = 0

LEMMA ChunkingType ==
    ASSUME NEW node, IsNode(node)
    PROVE  /\ Chunking(node)[1] \in Nat \ {0} /\ Chunking(node)[2] \in Nat \ {0}
           /\ NChunks(node) \in Nat
<1>1. ChunkSize(node) \in Nat \ {0}
  BY WorkAssumption DEF ChunkSize
<1>2. CeilDiv(node.nr0, ChunkSize(node)) \in Nat \ {0} /\ CeilDiv(node.nr1, ChunkSize(node)) \in Nat \ {0}
  BY <1>1, CeilPositive DEF IsNode
<1>3. Chunking(node)[1] \in Nat \ {0} /\ Chunking(node)[2] \in Nat \ {0}
  <2> HIDE DEF CeilDiv, ChunkSize
  <2> QED BY <1>2, TeamAssumption DEF Chunking
<1>4. \A a, b \in Nat : a * b \in Nat
  OBVIOUS
<1> QED BY <1>3, <1>4 DEF NChunks

\* Two chunks have no element in common.
LEMMA ChunksApart ==
    ASSUME NEW node, IsNode(node), NEW c \in Nat, NEW d \in Nat,
           NEW e, e \in Chunk(node, c), e \in Chunk(node, d)
    PROVE  c = d
<1> DEFINE n1 == Chunking(node)[1]
           n2 == Chunking(node)[2]
<1>1. n1 \in Nat \ {0} /\ n2 \in Nat \ {0} /\ node.nr0 \in Nat \ {0} /\ node.nr1 \in Nat \ {0}
  BY ChunkingType DEF IsNode
<1>2. \A i \in Nat : Chunk(node, i) = Stripe(node.nr0, n1, i % n1) \X Stripe(node.nr1, n2, i \div n1)
  BY DEF Chunk
<1> HIDE DEF n1, n2
<1>3. /\ c % n1 \in Nat /\ d % n1 \in Nat /\ c \div n1 \in Nat /\ d \div n1 \in Nat
      /\ c = (n1 * (c \div n1)) + (c % n1) /\ d = (n1 * (d \div n1)) + (d % n1)
  <2>1. c % n1 \in Nat /\ d % n1 \in Nat /\ c \div n1 \in Nat /\ d \div n1 \in Nat
    BY <1>1, DivNat
  <2>2. c = (n1 * (c \div n1)) + (c % n1)
    BY <1>1, DivMod
  <2>3. d = (n1 * (d \div n1)) + (d % n1)
    BY <1>1, DivMod
  <2> QED BY <2>1, <2>2, <2>3
<1>4. /\ e[1] \in Stripe(node.nr0, n1, c % n1) /\ e[1] \in Stripe(node.nr0, n1, d % n1)
      /\ e[2] \in Stripe(node.nr1, n2, c \div n1) /\ e[2] \in Stripe(node.nr1, n2, d \div n1)
  BY <1>2
<1>5. c % n1 = d % n1
  BY <1>1, <1>3, <1>4, StripesApart
<1>6. c \div n1 = d \div n1
  BY <1>1, <1>3, <1>4, StripesApart
<1> QED BY <1>3, <1>5, <1>6

\* The chunks that are handed out are in the result, and each element of it is
\* in one of them.
LEMMA ChunksCover ==
    ASSUME NEW node, IsNode(node)
    PROVE  /\ \A c \in 0 .. NChunks(node) - 1 : Chunk(node, c) \subseteq Elements(node)
           /\ \A e \in Elements(node) : \E c \in 0 .. NChunks(node) - 1 : e \in Chunk(node, c)
<1> DEFINE n1 == Chunking(node)[1]
           n2 == Chunking(node)[2]
<1>1. n1 \in Nat \ {0} /\ n2 \in Nat \ {0} /\ node.nr0 \in Nat \ {0} /\ node.nr1 \in Nat \ {0}
  BY ChunkingType DEF IsNode
<1>2. \A i \in Nat : Chunk(node, i) = Stripe(node.nr0, n1, i % n1) \X Stripe(node.nr1, n2, i \div n1)
  BY DEF Chunk
<1>3. NChunks(node) = n1 * n2 /\ n1 * n2 \in Nat
  BY <1>1 DEF NChunks
<1>4. /\ \A i \in Nat : Stripe(node.nr0, n1, i) \subseteq 0 .. node.nr0 - 1
      /\ \A x \in 0 .. node.nr0 - 1 : \E i \in 0 .. n1 - 1 : x \in Stripe(node.nr0, n1, i)
  <2> HIDE DEF n1, n2
  <2> QED BY <1>1, StripesCover
<1>5. /\ \A i \in Nat : Stripe(node.nr1, n2, i) \subseteq 0 .. node.nr1 - 1
      /\ \A x \in 0 .. node.nr1 - 1 : \E i \in 0 .. n2 - 1 : x \in Stripe(node.nr1, n2, i)
  <2> HIDE DEF n1, n2
  <2> QED BY <1>1, StripesCover
<1> HIDE DEF n1, n2
<1>6. ASSUME NEW c \in 0 .. NChunks(node) - 1 PROVE Chunk(node, c) \subseteq Elements(node)
  <2>1. c \in Nat
    BY <1>3
  <2>2. c % n1 \in Nat /\ c \div n1 \in Nat
    BY <1>1, <2>1, DivNat
  <2> QED BY <1>2, <1>4, <1>5, <2>1, <2>2 DEF Elements
<1>7. ASSUME NEW e \in Elements(node)
      PROVE  \E c \in 0 .. NChunks(node) - 1 : e \in Chunk(node, c)
  <2>1. e = <<e[1], e[2]>> /\ e[1] \in 0 .. node.nr0 - 1 /\ e[2] \in 0 .. node.nr1 - 1
    BY DEF Elements
  <2>2. PICK i \in 0 .. n1 - 1 : e[1] \in Stripe(node.nr0, n1, i)
    BY <1>4, <2>1
  <2>3. PICK j \in 0 .. n2 - 1 : e[2] \in Stripe(node.nr1, n2, j)
    BY <1>5, <2>1
  <2> DEFINE c == (n1 * j) + i
  <2>4. c \in Nat /\ n1 * j <= c /\ c < (n1 * j) + n1 /\ n1 * j \in Nat
    BY <1>1
  <2>5. c \div n1 = j
    <3> HIDE DEF c
    <3> QED BY <1>1, <2>4, DivIs
  <2>6. c % n1 = i
    <3>1. c = (n1 * (c \div n1)) + (c % n1) /\ c % n1 \in Int
      <4> HIDE DEF c
      <4> QED BY <1>1, <2>4, DivMod
    <3>2. c = (n1 * j) + (c % n1)
      BY <2>5, <3>1
    <3> QED BY <2>4, <3>1, <3>2
  <2>7. c < n1 * n2
    <3>1. n1 * (j + 1) <= n1 * n2
      BY <1>1, Times
    <3>2. n1 * (j + 1) = (n1 * j) + n1
      BY <1>1
    <3> HIDE DEF c
    <3> QED BY <1>1, <1>3, <2>4, <3>1, <3>2
  <2> HIDE DEF c
  <2>8. e \in Chunk(node, c)
    BY <1>2, <2>1, <2>2, <2>3, <2>4, <2>5, <2>6
  <2> QED BY <1>3, <2>4, <2>7, <2>8
<1> QED BY <1>6, <1>7

-----------------------------------------------------------------------------
\* What is assumed of a product with interleaved weights.
LEMMA GemvType ==
    ASSUME NEW node, IsNode(node), node.op = "mul_mat", node.interleave > 0
    PROVE  /\ node.nr0 \in Nat \ {0} /\ node.interleave \in Nat \ {0}
           /\ node.nr0 % node.interleave = 0 /\ n_threads \in Nat \ {0}
<1>1. node.nr0 \in Nat \ {0} /\ node.interleave \in Nat
  BY DEF IsNode
<1>3. node.nr0 % node.interleave = 0
  BY DEF IsNode
<1>2. n_threads \in Nat \ {0}
  BY TeamAssumption
<1> QED BY <1>1, <1>2, <1>3

\* where the columns of thread t begin
GemvFirst(node, t) == CeilDiv((t * node.nr0) \div n_threads, node.interleave) * node.interleave

LEMMA GemvFirstType ==
    ASSUME NEW node, IsNode(node), node.op = "mul_mat", node.interleave > 0, NEW t \in Nat
    PROVE  GemvFirst(node, t) \in Nat
<1>1. node.nr0 \in Nat \ {0} /\ node.interleave \in Nat \ {0} /\ n_threads \in Nat \ {0}
  BY GemvType
<1>2. t * node.nr0 \in Nat
  BY <1>1
<1>3. (t * node.nr0) \div n_threads \in Nat
  BY <1>1, <1>2, DivNat
<1>4. CeilDiv((t * node.nr0) \div n_threads, node.interleave) \in Nat
  BY <1>1, <1>3, Ceil
<1> QED BY <1>1, <1>4 DEF GemvFirst

LEMMA GemvInOrder ==
    ASSUME NEW node, IsNode(node), node.op = "mul_mat", node.interleave > 0,
           NEW t \in Nat, NEW u \in Nat, t <= u
    PROVE  GemvFirst(node, t) <= GemvFirst(node, u)
<1> DEFINE g == node.interleave
           m == node.nr0
           i == (t * m) \div n_threads
           j == (u * m) \div n_threads
<1>1. m \in Nat \ {0} /\ g \in Nat \ {0} /\ n_threads \in Nat \ {0}
  BY GemvType
<1>2. t * m \in Nat /\ u * m \in Nat /\ t * m <= u * m
  BY <1>1, Times
<1>3. i <= j /\ i \in Nat /\ j \in Nat
  <2>1. t * m \in Int /\ u * m \in Int
    BY <1>2
  <2>2. i <= j
    <3> HIDE DEF m
    <3> QED BY <1>1, <1>2, <2>1, DivMonotone
  <2>3. i \in Nat /\ j \in Nat
    <3> HIDE DEF m
    <3> QED BY <1>1, <1>2, DivNat
  <2> QED BY <2>2, <2>3
<1>4. GemvFirst(node, t) = CeilDiv(i, g) * g /\ GemvFirst(node, u) = CeilDiv(j, g) * g
  BY DEF GemvFirst
<1> HIDE DEF i, j, g, m
<1>5. CeilDiv(j, g) \in Nat /\ j <= g * CeilDiv(j, g) /\ CeilDiv(i, g) \in Nat
  BY <1>1, <1>3, Ceil
<1>6. g * CeilDiv(j, g) \in Nat
  BY <1>1, <1>5
<1>7. CeilDiv(i, g) <= CeilDiv(j, g)
  BY <1>1, <1>3, <1>5, <1>6, CeilBelow
<1>8. g * CeilDiv(i, g) <= g * CeilDiv(j, g)
  BY <1>1, <1>5, <1>7, Times
<1> QED BY <1>1, <1>4, <1>5, <1>8

\* Two threads have no column in common.
LEMMA GemvApart ==
    ASSUME NEW node, IsNode(node), node.op = "mul_mat", node.interleave > 0,
           NEW t \in Nat, NEW u \in Nat,
           NEW x, x \in GemvRows(node, t), x \in GemvRows(node, u)
    PROVE  t = u
<1>1. \A v \in Nat : GemvRows(node, v) = GemvFirst(node, v) .. GemvFirst(node, v + 1) - 1
  BY DEF GemvRows, GemvFirst
<1>2. \A v \in Nat : GemvFirst(node, v) \in Nat
  BY GemvFirstType
<1>3. x \in Nat /\ GemvFirst(node, t) <= x /\ x < GemvFirst(node, t + 1)
                /\ GemvFirst(node, u) <= x /\ x < GemvFirst(node, u + 1)
  <2>1. \A a, b \in Nat : x \in a .. b - 1 => x \in Nat /\ a <= x /\ x < b
    OBVIOUS
  <2>2. t + 1 \in Nat /\ u + 1 \in Nat
    OBVIOUS
  <2>3. x \in GemvFirst(node, t) .. GemvFirst(node, t + 1) - 1
    BY <1>1
  <2>4. x \in GemvFirst(node, u) .. GemvFirst(node, u + 1) - 1
    BY <1>1
  <2> QED BY <1>2, <2>1, <2>2, <2>3, <2>4
<1>4. t < u => GemvFirst(node, t + 1) <= GemvFirst(node, u)
  BY GemvInOrder
<1>5. u < t => GemvFirst(node, u + 1) <= GemvFirst(node, t)
  BY GemvInOrder
<1>6. /\ GemvFirst(node, t) \in Nat /\ GemvFirst(node, t + 1) \in Nat
      /\ GemvFirst(node, u) \in Nat /\ GemvFirst(node, u + 1) \in Nat
  BY <1>2
<1> QED BY <1>3, <1>4, <1>5, <1>6

\* The columns of the threads are those of the product.
LEMMA GemvCover ==
    ASSUME NEW node, IsNode(node), node.op = "mul_mat", node.interleave > 0
    PROVE  /\ \A t \in Threads : GemvRows(node, t) \subseteq 0 .. node.nr0 - 1
           /\ \A x \in 0 .. node.nr0 - 1 : \E t \in Threads : x \in GemvRows(node, t)
<1> DEFINE g == node.interleave
           m == node.nr0
<1>1. m \in Nat \ {0} /\ g \in Nat \ {0} /\ n_threads \in Nat \ {0} /\ m % g = 0
  BY GemvType
<1>2. \A v \in Nat : GemvRows(node, v) = GemvFirst(node, v) .. GemvFirst(node, v + 1) - 1
  BY DEF GemvRows, GemvFirst
<1>3. \A v \in Nat : GemvFirst(node, v) \in Nat
  BY GemvFirstType
<1>4. \A v \in Nat : GemvFirst(node, v) = CeilDiv((v * m) \div n_threads, g) * g
  BY DEF GemvFirst
<1>5. GemvFirst(node, n_threads) = m
  <2> HIDE DEF g, m
  <2>1. n_threads * m \in Nat
    BY <1>1
  <2>2. (n_threads * m) \div n_threads = m
    BY <1>1, <2>1, DivIs
  <2>3. m = g * (m \div g) /\ m \div g \in Int
    BY <1>1, DivMod
  <2>4. CeilDiv(m, g) = m \div g
    <3>1. (m \div g) * g = m /\ m + g - 1 \in Int
      BY <1>1, <2>3
    <3> QED BY <1>1, <2>3, <3>1, DivIs DEF CeilDiv
  <2> QED BY <1>1, <1>4, <2>2, <2>3, <2>4
<1> HIDE DEF g, m
<1>6. ASSUME NEW t \in Threads PROVE GemvRows(node, t) \subseteq 0 .. m - 1
  <2>1. t \in Nat /\ t + 1 \in Nat /\ t + 1 <= n_threads
    BY <1>1 DEF Threads
  <2>2. GemvFirst(node, t + 1) <= m
    BY <1>1, <1>5, <2>1, GemvInOrder
  <2>3. GemvRows(node, t) = GemvFirst(node, t) .. GemvFirst(node, t + 1) - 1
    BY <1>2, <2>1
  <2>4. GemvFirst(node, t) \in Nat /\ GemvFirst(node, t + 1) \in Nat
    BY <1>3, <2>1
  <2> QED BY <1>1, <2>2, <2>3, <2>4
<1>7. ASSUME NEW x \in 0 .. m - 1 PROVE \E t \in Threads : x \in GemvRows(node, t)
  \* the group of x begins at g * X; the last thread that begins at most there
  <2> DEFINE X == x \div g
             y == (g * X) + 1
             t == CeilDiv(n_threads * y, m) - 1
  <2>1. X \in Nat /\ g * X \in Nat /\ g * X <= x /\ x < (g * X) + g
    BY <1>1, DivMod
  <2>2. y \in Nat \ {0} /\ y <= m
    BY <1>1, <2>1
  <2>3. n_threads * y \in Nat \ {0} /\ n_threads * y <= n_threads * m
    <3> HIDE DEF y
    <3> QED BY <1>1, <2>2, Times
  <2>4. t \in Nat /\ t + 1 = CeilDiv(n_threads * y, m)
    <3> HIDE DEF y
    <3>1. CeilDiv(n_threads * y, m) \in Nat \ {0}
      BY <1>1, <2>3, CeilPositive
    <3> HIDE DEF CeilDiv
    <3> QED BY <3>1
  <2>5. t \in Threads
    <3>1. n_threads * y <= m * n_threads
      BY <1>1, <2>3
    <3>2. n_threads * y \in Nat
      BY <2>3
    <3> HIDE DEF y
    <3>3. CeilDiv(n_threads * y, m) <= n_threads
      BY <1>1, <3>1, <3>2, CeilBelow
    <3> HIDE DEF t
    <3> QED BY <1>1, <2>4, <3>3 DEF Threads
  <2>6. t * m < n_threads * y /\ n_threads * y <= (t + 1) * m
    <3>1. n_threads * y \in Nat
      BY <2>3
    <3> HIDE DEF y
    <3>2. n_threads * y <= m * CeilDiv(n_threads * y, m)
      BY <1>1, <3>1, Ceil
    <3>3. m * CeilDiv(n_threads * y, m) < (n_threads * y) + m
      BY <1>1, <3>1, Ceil
    <3> HIDE DEF t
    <3>4. m * (t + 1) = (m * t) + m /\ m * t = t * m /\ m * (t + 1) = (t + 1) * m
      BY <1>1, <2>4
    <3> QED BY <1>1, <2>4, <3>1, <3>2, <3>3, <3>4
  <2> HIDE DEF t, X
  <2>7. GemvFirst(node, t) <= x
    <3>1. t * m \in Nat
      BY <1>1, <2>4
    <3>2. (t * m) \div n_threads < y
      <4> HIDE DEF y
      <4> QED BY <1>1, <2>2, <2>6, <3>1, DivBelow
    <3>3. (t * m) \div n_threads \in Nat /\ (t * m) \div n_threads <= g * X
      <4>1. (t * m) \div n_threads \in Nat
        BY <1>1, <3>1, DivNat
      <4> QED BY <2>1, <3>2, <4>1
    <3>4. CeilDiv((t * m) \div n_threads, g) <= X /\ CeilDiv((t * m) \div n_threads, g) \in Nat
      <4> DEFINE w == (t * m) \div n_threads
      <4> HIDE DEF w
      <4>1. w \in Nat /\ w <= g * X
        BY <3>3 DEF w
      <4>2. CeilDiv(w, g) <= X /\ CeilDiv(w, g) \in Nat
        BY <1>1, <2>1, <4>1, CeilBelow, Ceil
      <4> QED BY <4>2 DEF w
    <3>5. g * CeilDiv((t * m) \div n_threads, g) <= g * X
      BY <1>1, <2>1, <3>4, Times
    <3>6. GemvFirst(node, t) = CeilDiv((t * m) \div n_threads, g) * g
      BY <1>4, <2>4
    <3>7. GemvFirst(node, t) = g * CeilDiv((t * m) \div n_threads, g)
      BY <1>1, <3>4, <3>6
    <3> QED BY <1>1, <2>1, <3>5, <3>7, <1>3, <2>4
  <2>8. x < GemvFirst(node, t + 1)
    <3>1. t + 1 \in Nat /\ (t + 1) * m \in Nat
      BY <1>1, <2>4
    <3>2. ~ (t + 1) * m < n_threads * y
      BY <1>1, <2>2, <2>3, <2>6, <3>1
    <3>3. ~ ((t + 1) * m) \div n_threads < y
      <4> HIDE DEF y
      <4> QED BY <1>1, <2>2, <3>1, <3>2, DivBelow
    <3>4. ((t + 1) * m) \div n_threads \in Nat /\ ~ ((t + 1) * m) \div n_threads <= g * X
      <4>1. ((t + 1) * m) \div n_threads \in Nat
        BY <1>1, <3>1, DivNat
      <4> QED BY <2>1, <3>3, <4>1
    <3>5. CeilDiv(((t + 1) * m) \div n_threads, g) \in Nat
          /\ ~ CeilDiv(((t + 1) * m) \div n_threads, g) <= X
      <4> DEFINE w == ((t + 1) * m) \div n_threads
      <4> HIDE DEF w
      <4>1. w \in Nat /\ ~ w <= g * X
        BY <3>4 DEF w
      <4>2. ~ CeilDiv(w, g) <= X /\ CeilDiv(w, g) \in Nat
        BY <1>1, <2>1, <4>1, CeilBelow, Ceil
      <4> QED BY <4>2 DEF w
    <3>6. g * (X + 1) <= g * CeilDiv(((t + 1) * m) \div n_threads, g)
      BY <1>1, <2>1, <3>5, Times
    <3>7. GemvFirst(node, t + 1) = CeilDiv(((t + 1) * m) \div n_threads, g) * g
      BY <1>4, <3>1
    <3>8. g * (X + 1) = (g * X) + g
      BY <1>1, <2>1
    <3>9. GemvFirst(node, t + 1) = g * CeilDiv(((t + 1) * m) \div n_threads, g)
      BY <1>1, <3>5, <3>7
    <3> QED BY <1>1, <2>1, <3>6, <3>8, <3>9, <1>3, <3>1
  <2>9. GemvRows(node, t) = GemvFirst(node, t) .. GemvFirst(node, t + 1) - 1
    BY <1>2, <2>4
  <2>10. GemvFirst(node, t) \in Nat /\ GemvFirst(node, t + 1) \in Nat
    BY <1>3, <2>4
  <2> QED BY <2>5, <2>7, <2>8, <2>9, <2>10
<1> QED BY <1>6, <1>7 DEF m

-----------------------------------------------------------------------------
(* The work of a node comes in numbered parts, its chunks or the shares of  *)
(* the threads.  A thread begins with the part of its own number.           *)

Part(node, i) ==
    IF HandsOut(node)
    THEN IF i < NChunks(node) THEN Chunk(node, i) ELSE {}
    ELSE IF i \in Threads THEN Share(node, i) ELSE {}

Product(k) == cgraph[k].op = "mul_mat"

Begun == {"gemv", "chunk", "next", "callback", "end"}

Over == {"status", "exit", "returned"}

Labels == {"create", "unborn", "start", "counter", "middle"} \cup Begun \cup Over

\* the node thread t is at, or is to go on with, and whether it has passed the
\* barrier in the middle of it
Here(t) == IF pc[t] \in Over THEN node_n[t] + 1 ELSE node_n[t]
Past(t) == pc[t] \in Begun /\ Product(node_n[t])

LabelFits(t) ==
    /\ pc[t] = "create" => t = 0
    /\ pc[t] \in {"counter", "returned"} => t = 0
    /\ pc[t] \in {"counter", "middle", "gemv", "chunk", "next"} => Product(node_n[t])
    /\ pc[t] = "gemv" => Node(t).interleave > 0 /\ cur[t] = t
    /\ pc[t] \in {"chunk", "next"} => Node(t).interleave = 0
    /\ at[t] # "out" => pc[t] \in {"middle", "end"}
    /\ pc[t] \in {"exit", "returned"} /\ ec = "success" => node_n[t] = Len(cgraph)

TeamType ==
    /\ Len(cgraph) \in Nat \ {0} /\ DOMAIN cgraph = 1 .. Len(cgraph)
    /\ \A k \in DOMAIN cgraph : IsNode(cgraph[k])
    /\ pc \in [Threads -> Labels]
    /\ node_n \in [Threads -> DOMAIN cgraph]
    /\ cur \in [Threads -> Nat]
    /\ current_chunk \in Nat
    /\ ec \in {"success", "aborted"}
    /\ DOMAIN written = DOMAIN cgraph
    /\ pc[0] = "returned" => \A t \in Threads \ {0} : pc[t] = "exit"
    /\ \A t \in Threads : LabelFits(t)

\* Threads that have crossed equally often are between the same two barriers,
\* and one that has crossed once more is behind the next.
Abreast(t, u) == Here(t) = Here(u) /\ (Past(t) <=> Past(u))

Behind(t, u) ==
    \/ Here(u) = Here(t) /\ ~ Past(t) /\ Past(u)
    \/ Here(u) = Here(t) + 1 /\ ~ Past(u) /\ (Past(t) \/ ~ Product(Here(t)))

Formation ==
    \A t, u \in Threads :
        /\ crossed[t] = crossed[u] => Abreast(t, u)
        /\ crossed[u] = crossed[t] + 1 => Behind(t, u)

\* nobody has gone on to a later node
InFront(k) == \A u \in Threads : Here(u) <= k

\* The shared counter, while it serves node k.
Counter ==
    /\ pc[0] = "middle" /\ InFront(node_n[0]) /\ (\A u \in Threads : ~ (Here(u) = node_n[0] /\ Past(u)))
           => current_chunk = n_threads
    /\ \A t \in Threads : Past(t) /\ InFront(node_n[t]) =>
           /\ current_chunk >= n_threads
           /\ pc[t] \in {"callback", "end"} /\ HandsOut(Node(t)) => current_chunk >= NChunks(Node(t))

\* A thread that has converted its rows finds them converted until the team
\* goes on to the next node.
RowsOf(t) == {r \in 0 .. Node(t).nr1 - 1 : r % n_threads = t}

HasConverted(t) ==
    pc[t] \in {"counter", "middle"} \cup Begun /\ Product(node_n[t]) /\ Node(t).convert

Converted ==
    \A t \in Threads : HasConverted(t) /\ InFront(node_n[t]) =>
        \A r \in RowsOf(t) : r \in DOMAIN wdata /\ wdata[r] = node_n[t]

\* the parts that thread t has taken and not written, or is to begin with
Owes(t, k) ==
    IF Here(t) < k \/ (Here(t) = k /\ pc[t] \notin Begun) THEN {t}
    ELSE IF Here(t) = k /\ pc[t] \in {"gemv", "chunk"} THEN {cur[t]}
    ELSE {}

\* the parts that have been given out
GivenOut(k) ==
    IF ~ InFront(k) THEN Nat
    ELSE IF \E t \in Threads : Here(t) = k /\ Past(t) THEN 0 .. current_chunk - 1
    ELSE Threads

\* Each part given out is owed by one thread or written; a part that is owed
\* or not given out is not written.
Parted(k) ==
    /\ written[k] \subseteq Elements(cgraph[k])
    /\ \A t \in Threads : Owes(t, k) \subseteq GivenOut(k)
    /\ \A t, u \in Threads : Owes(t, k) \cap Owes(u, k) # {} => t = u
    /\ \A i \in Nat :
          /\ i \in GivenOut(k) /\ (\A t \in Threads : i \notin Owes(t, k)) => Part(cgraph[k], i) \subseteq written[k]
          /\ i \notin GivenOut(k) \/ (\E t \in Threads : i \in Owes(t, k)) => Part(cgraph[k], i) \cap written[k] = {}

TeamInv ==
    /\ BInv /\ TeamType /\ Formation /\ Counter /\ Converted
    /\ \A k \in DOMAIN cgraph : Parted(k)
    /\ twice = {}

-----------------------------------------------------------------------------
(* The parts of a node. *)

LEMMA ShareIsPart ==
    ASSUME NEW node, ~ HandsOut(node), NEW t \in Threads
    PROVE  Part(node, t) = Share(node, t)
  BY DEF Part

LEMMA ChunkIsPart ==
    ASSUME NEW node, HandsOut(node), NEW i \in Nat
    PROVE  Part(node, i) = IF i < NChunks(node) THEN Chunk(node, i) ELSE {}
  BY DEF Part

\* Two threads have no element in common in their shares.
LEMMA SharesApart ==
    ASSUME NEW node, IsNode(node), ~ HandsOut(node), NEW t \in Threads, NEW u \in Threads,
           NEW e, e \in Share(node, t), e \in Share(node, u)
    PROVE  t = u
<1>0. t \in Nat /\ u \in Nat /\ n_threads \in Nat \ {0} /\ node.nr0 \in Nat \ {0}
  BY TeamAssumption DEF Threads, IsNode
<1>1. CASE node.op = "single"
  BY <1>1 DEF Share
<1>2. CASE node.op = "rows"
  <2>1. e[1] \in Stripe(node.nr0, n_threads, t) /\ e[1] \in Stripe(node.nr0, n_threads, u)
    BY <1>2 DEF Share
  <2> QED BY <1>0, <2>1, StripesApart
<1>3. CASE node.op = "mul_mat"
  <2>1. e[1] \in GemvRows(node, t) /\ e[1] \in GemvRows(node, u)
    BY <1>3 DEF Share
  <2>2. node.interleave > 0
    BY <1>3 DEF HandsOut, IsNode
  <2> QED BY <1>0, <1>3, <2>1, <2>2, GemvApart
<1> QED BY <1>1, <1>2, <1>3 DEF IsNode

\* The shares of the threads are the result.
LEMMA SharesCover ==
    ASSUME NEW node, IsNode(node), ~ HandsOut(node)
    PROVE  /\ \A t \in Threads : Share(node, t) \subseteq Elements(node)
           /\ \A e \in Elements(node) : \E t \in Threads : e \in Share(node, t)
<1>0. n_threads \in Nat \ {0} /\ node.nr0 \in Nat \ {0} /\ 0 \in Threads /\ Threads \subseteq Nat
  BY TeamAssumption DEF Threads, IsNode
<1>1. CASE node.op = "single"
  BY <1>0, <1>1 DEF Share
<1>2. CASE node.op = "rows"
  <2>1. Elements(node) = (0 .. node.nr0 - 1) \X {0}
    <3>1. node.nr1 = 1 /\ 0 .. 1 - 1 = {0}
      BY <1>2 DEF IsNode
    <3> QED BY <3>1 DEF Elements
  <2>2. /\ \A i \in Nat : Stripe(node.nr0, n_threads, i) \subseteq 0 .. node.nr0 - 1
        /\ \A x \in 0 .. node.nr0 - 1 : \E i \in 0 .. n_threads - 1 : x \in Stripe(node.nr0, n_threads, i)
    BY <1>0, StripesCover
  <2>3. \A t \in Threads : Share(node, t) = Stripe(node.nr0, n_threads, t) \X {0}
    BY <1>2 DEF Share
  <2> QED BY <1>0, <2>1, <2>2, <2>3 DEF Threads
<1>3. CASE node.op = "mul_mat"
  <2>1. node.interleave > 0
    BY <1>3 DEF HandsOut, IsNode
  <2>2. /\ \A t \in Threads : GemvRows(node, t) \subseteq 0 .. node.nr0 - 1
        /\ \A x \in 0 .. node.nr0 - 1 : \E t \in Threads : x \in GemvRows(node, t)
    BY <1>3, <2>1, GemvCover
  <2>3. \A t \in Threads : Share(node, t) = GemvRows(node, t) \X (0 .. node.nr1 - 1)
    BY <1>3 DEF Share
  <2> QED BY <2>2, <2>3 DEF Elements
<1> QED BY <1>1, <1>2, <1>3 DEF IsNode

\* Two parts of a node have no element in common.
LEMMA PartsApart ==
    ASSUME NEW node, IsNode(node), NEW i \in Nat, NEW j \in Nat, i # j
    PROVE  Part(node, i) \cap Part(node, j) = {}
<1> SUFFICES ASSUME NEW e, e \in Part(node, i), e \in Part(node, j) PROVE FALSE
  OBVIOUS
<1>1. CASE HandsOut(node)
  BY <1>1, ChunkIsPart, ChunksApart
<1>2. CASE ~ HandsOut(node)
  <2>1. i \in Threads /\ j \in Threads
    BY <1>2 DEF Part
  <2> QED BY <1>2, <2>1, ShareIsPart, SharesApart
<1> QED BY <1>1, <1>2

\* The parts of a node are its result.
LEMMA PartsCover ==
    ASSUME NEW node, IsNode(node)
    PROVE  /\ \A i \in Nat : Part(node, i) \subseteq Elements(node)
           /\ \A e \in Elements(node) : \E i \in Nat : e \in Part(node, i)
<1>1. CASE HandsOut(node)
  <2>1. NChunks(node) \in Nat
    BY ChunkingType
  <2>2. \A i \in Nat : i < NChunks(node) => i \in 0 .. NChunks(node) - 1
    BY <2>1
  <2>3. \A i \in 0 .. NChunks(node) - 1 : i \in Nat /\ i < NChunks(node)
    BY <2>1
  <2> QED BY <1>1, <2>2, <2>3, ChunkIsPart, ChunksCover
<1>2. CASE ~ HandsOut(node)
  <2>1. Threads \subseteq Nat
    BY TeamAssumption DEF Threads
  <2>2. \A i \in Nat : i \notin Threads => Part(node, i) = {}
    BY <1>2 DEF Part
  <2> QED BY <1>2, <2>1, <2>2, ShareIsPart, SharesCover
<1> QED BY <1>1, <1>2

-----------------------------------------------------------------------------
(* The barrier, as the team sees it. *)

\* A thread is at most one round ahead; then the other still spins.
LEMMA Near ==
    ASSUME BInv, NEW t \in Threads, NEW u \in Threads
    PROVE  /\ crossed[t] \in Nat /\ crossed[u] \in Nat
           /\ crossed[u] <= crossed[t] + 1
           /\ crossed[u] = crossed[t] + 1 => at[t] = "spin"
<1>1. crossed[t] \in Nat /\ crossed[u] \in Nat /\ n_barrier_passed \in Nat
  BY DEF BInv, BarrierTypeOK
<1>2. InStep(t) /\ InStep(u)
  BY DEF BInv
<1> QED BY <1>1, <1>2 DEF InStep

\* Who crosses finds nobody ahead by more than the round, and nobody behind who
\* has not come to the barrier.
LEMMA Crossing ==
    ASSUME BInv, NEW t \in Threads, BarrierStep(t), crossed' # crossed
    PROVE  /\ crossed' = [crossed EXCEPT ![t] = @ + 1]
           /\ at'[t] = "out" /\ \A u \in Threads : u # t => at'[u] = at[u]
           /\ \A u \in Threads :
                 /\ crossed[u] \in {crossed[t], crossed[t] + 1}
                 /\ crossed[u] = crossed[t] => at[u] # "out"
<1>0. /\ BarrierTypeOK /\ Counts /\ n_barrier_passed \in Nat
      /\ \A u \in Threads : InStep(u)
      /\ \A u \in Threads : passed_old[u] \in Nat /\ crossed[u] \in Nat
  BY DEF BInv, BarrierTypeOK
<1>1. CASE Open(t)
  <2>1. Waiting = Threads
    BY <1>0, <1>1 DEF Open, Last, Counts
  <2>2. \A u \in Threads : crossed[u] = n_barrier_passed /\ at[u] # "out"
    BY <1>0, <2>1 DEF Waiting, InStep
  <2> QED BY <1>0, <1>1, <2>2 DEF Open, Return, Goto, BarrierTypeOK
<1>2. CASE Leave(t)
  <2>1. crossed[t] = n_barrier_passed - 1 /\ at[t] = "spin"
    BY <1>0, <1>2 DEF Leave, SeesOpen, InStep
  <2>2. \A u \in Threads : /\ crossed[u] \in {crossed[t], crossed[t] + 1}
                           /\ crossed[u] = crossed[t] => at[u] # "out"
    BY <1>0, <2>1 DEF InStep
  <2> QED BY <1>0, <1>2, <2>2 DEF Leave, Return, Goto, BarrierTypeOK
<1> QED BY <1>1, <1>2 DEF BarrierStep, Load, Add, Reset

\* Who does not cross is still in the barrier.
LEMMA NotCrossing ==
    ASSUME BInv, NEW t \in Threads, BarrierStep(t), crossed' = crossed
    PROVE  at'[t] # "out" /\ \A u \in Threads : u # t => at'[u] = at[u]
<1>0. BarrierTypeOK /\ \A u \in Threads : crossed[u] \in Nat
  BY DEF BInv, BarrierTypeOK
<1>1. crossed[t] + 1 # crossed[t]
  BY <1>0
<1>2. ~ Open(t) /\ ~ Leave(t)
  BY <1>0, <1>1 DEF Open, Leave, Return, BarrierTypeOK
<1> QED BY <1>0, <1>2 DEF BarrierStep, Load, Add, Reset, Goto, BarrierTypeOK

-----------------------------------------------------------------------------
(* Where the threads are. *)

LEMMA TeamFacts ==
    ASSUME TeamType, NEW t \in Threads
    PROVE  /\ node_n[t] \in DOMAIN cgraph /\ node_n[t] \in Nat /\ node_n[t] <= Len(cgraph)
           /\ IsNode(Node(t)) /\ LabelFits(t) /\ pc[t] \in Labels /\ cur[t] \in Nat
           /\ t \in Nat /\ 0 \in Threads
  BY TeamAssumption DEF TeamType, Node, Threads

LEMMA InitType == Init => TeamType
<1> SUFFICES ASSUME Init PROVE TeamType
  OBVIOUS
<1>1. PICK case \in Cases : cgraph = case.graph
  BY DEF Init
<1>2. /\ Len(cgraph) \in Nat \ {0} /\ DOMAIN cgraph = 1 .. Len(cgraph)
      /\ \A k \in DOMAIN cgraph : IsNode(cgraph[k])
  BY <1>1, WorkAssumption
<1>3. 1 \in DOMAIN cgraph
  BY <1>2
<1>4. 0 \in Threads
  BY TeamAssumption DEF Threads
<1>5. \A t \in Threads : LabelFits(t)
  BY <1>4 DEF Init, BarrierInit, LabelFits
<1>6. pc \in [Threads -> Labels] /\ pc[0] = "create"
  BY <1>4 DEF Init, Labels
<1>7. DOMAIN written = DOMAIN cgraph /\ current_chunk \in Nat
      /\ node_n \in [Threads -> DOMAIN cgraph] /\ cur \in [Threads -> Nat]
  BY <1>3 DEF Init
<1> QED BY <1>2, <1>5, <1>6, <1>7 DEF TeamType, Init

\* The labels stay where they belong.
LEMMA StepLabels ==
    ASSUME TeamType, BInv, Next, NEW u \in Threads
    PROVE  LabelFits(u)'
<1>1. TeamAssumption /\ 0 \in Threads /\ LabelFits(u) /\ LabelFits(0) /\ IsNode(Node(u))
  BY TeamFacts, TeamAssumption
<1>2. /\ pc \in [Threads -> Labels] /\ node_n \in [Threads -> DOMAIN cgraph]
      /\ cur \in [Threads -> Nat]
      /\ pc[0] = "returned" => \A t \in Threads \ {0} : pc[t] = "exit"
  BY DEF TeamType
<1>3. ASSUME NEW t \in Threads, Create(t) PROVE LabelFits(u)'
  BY <1>1, <1>2, <1>3 DEF Create, LabelFits, Given, barrier, work, Product, Node
<1>4. CASE SetCounter
  BY <1>1, <1>2, <1>4 DEF SetCounter, Jump, LabelFits, Given, barrier, Product, Node
<1>5. CASE Join
  BY <1>1, <1>2, <1>5 DEF Join, Jump, LabelFits, Given, barrier, work, Product, Node
<1>6. ASSUME NEW t \in Threads, Compute(t) PROVE LabelFits(u)'
  BY <1>1, <1>2, <1>6 DEF Compute, Jump, LabelFits, Given, barrier, Product, Node
<1>7. ASSUME NEW t \in Threads, Convert(t) PROVE LabelFits(u)'
  BY <1>1, <1>2, <1>7 DEF Convert, AfterConvert, Jump, LabelFits, Given, barrier, Product, Node
<1>8. ASSUME NEW t \in Threads, Meet(t) PROVE LabelFits(u)'
  <2>1. /\ BarrierStep(t) /\ pc[t] \in {"middle", "end"} /\ LabelFits(t) /\ IsNode(Node(t))
        /\ UNCHANGED <<cgraph, node_n, ec>>
    BY <1>8, TeamFacts DEF Meet, Given
  <2>2. CASE crossed' = crossed
    <3>1. UNCHANGED <<pc, cur>>
      BY <1>8, <2>2 DEF Meet
    <3>2. u # t => at'[u] = at[u]
      BY <2>1, <2>2, NotCrossing
    <3> QED BY <1>1, <2>1, <3>1, <3>2 DEF LabelFits, Product, Node
  <2>3. CASE crossed' # crossed
    <3>1. at'[t] = "out" /\ (u # t => at'[u] = at[u])
      BY <2>1, <2>3, Crossing
    <3>2. CASE pc[t] = "middle"
      <4>1. cur' = [cur EXCEPT ![t] = t] /\ pc' = [pc EXCEPT ![t] = AfterMiddle(t)]
        BY <1>8, <2>3, <3>2 DEF Meet, Jump
      <4>2. Product(node_n[t]) /\ Node(t).interleave \in Nat
        BY <2>1, <3>2 DEF LabelFits, Product, Node, IsNode
      <4> QED BY <1>1, <1>2, <2>1, <3>1, <3>2, <4>1, <4>2 DEF AfterMiddle, LabelFits, Product, Node
    <3>3. CASE pc[t] = "end"
      <4>1. cur' = cur /\ pc' = [pc EXCEPT ![t] = "status"]
        BY <1>8, <2>3, <3>3 DEF Meet, Jump
      <4> QED BY <1>1, <1>2, <2>1, <3>1, <4>1 DEF LabelFits, Product, Node
    <3> QED BY <2>1, <3>2, <3>3
  <2> QED BY <2>2, <2>3
<1>9. ASSUME NEW t \in Threads, Gemv(t) PROVE LabelFits(u)'
  BY <1>1, <1>2, <1>9 DEF Gemv, Jump, LabelFits, Given, barrier, Product, Node
<1>10. ASSUME NEW t \in Threads, OneChunk(t) PROVE LabelFits(u)'
  <2>1. /\ UNCHANGED <<cgraph, node_n, ec, cur, at>> /\ pc[t] = "chunk"
        /\ \/ pc' = [pc EXCEPT ![t] = "callback"]
           \/ pc' = [pc EXCEPT ![t] = "next"]
    BY <1>10 DEF OneChunk, Jump, Given, barrier
  <2> QED BY <1>1, <1>2, <2>1 DEF LabelFits, Product, Node
<1>11. ASSUME NEW t \in Threads, NextChunk(t) PROVE LabelFits(u)'
  BY <1>1, <1>2, <1>11 DEF NextChunk, Jump, LabelFits, Given, barrier, Product, Node
<1>12. ASSUME NEW t \in Threads, Callback(t) PROVE LabelFits(u)'
  BY <1>1, <1>2, <1>12 DEF Callback, Jump, LabelFits, Given, barrier, work, Product, Node
<1>13. ASSUME NEW t \in Threads, Status(t) PROVE LabelFits(u)'
  BY <1>1, <1>2, <1>13 DEF Status, Jump, LabelFits, Given, barrier, work, Product, Node
<1>14. CASE Returned
  BY <1>1, <1>14 DEF Returned, vars, work, barrier, LabelFits, Product, Node
<1> QED BY <1>3, <1>4, <1>5, <1>6, <1>7, <1>8, <1>9, <1>10, <1>11, <1>12, <1>13, <1>14
        DEF Next, Main, Step

LEMMA StepType ==
    ASSUME TeamType, BInv, Next
    PROVE  TeamType'
<1>1. \A u \in Threads : LabelFits(u)'
  BY StepLabels
<1>2. /\ pc \in [Threads -> Labels] /\ node_n \in [Threads -> DOMAIN cgraph]
      /\ cur \in [Threads -> Nat] /\ current_chunk \in Nat /\ n_threads \in Nat /\ 0 \in Threads
      /\ Len(cgraph) \in Nat /\ DOMAIN cgraph = 1 .. Len(cgraph)
      /\ ec \in {"success", "aborted"} /\ DOMAIN written = DOMAIN cgraph
      /\ pc[0] = "returned" => \A t \in Threads \ {0} : pc[t] = "exit"
      /\ Threads \subseteq Nat
  BY TeamAssumption DEF TeamType, Threads
<1>3. cgraph' = cgraph
  BY DEF Next, Main, Step, Create, SetCounter, Join, Compute, Convert, Meet, Gemv, OneChunk,
         NextChunk, Callback, Status, Returned, Given, vars
<1>4. /\ (pc \in [Threads -> Labels])' /\ (cur \in [Threads -> Nat])'
      /\ node_n' \in [Threads -> DOMAIN cgraph] /\ (current_chunk \in Nat)'
      /\ (ec \in {"success", "aborted"})' /\ (DOMAIN written)' = DOMAIN cgraph
      /\ (pc[0] = "returned" => \A t \in Threads \ {0} : pc[t] = "exit")'
  <2> DEFINE P == /\ (pc \in [Threads -> Labels])' /\ (cur \in [Threads -> Nat])'
                  /\ node_n' \in [Threads -> DOMAIN cgraph] /\ (current_chunk \in Nat)'
                  /\ (ec \in {"success", "aborted"})' /\ (DOMAIN written)' = DOMAIN cgraph
                  /\ (pc[0] = "returned" => \A t \in Threads \ {0} : pc[t] = "exit")'
  <2>1. ASSUME NEW t \in Threads, Create(t) PROVE P
    BY <1>2, <2>1 DEF Create, Labels, work
  <2>2. CASE SetCounter
    BY <1>2, <2>2 DEF SetCounter, FirstFree, Jump, Labels
  <2>3. CASE Join
    BY <1>2, <2>3 DEF Join, Jump, Labels, Over, work
  <2>4. ASSUME NEW t \in Threads, Compute(t) PROVE P
    BY <1>2, <2>4 DEF Compute, Write, Jump, Labels, Begun
  <2>5. ASSUME NEW t \in Threads, Convert(t) PROVE P
    BY <1>2, <2>5 DEF Convert, AfterConvert, Jump, Labels
  <2>6. ASSUME NEW t \in Threads, Meet(t) PROVE P
    BY <1>2, <2>6 DEF Meet, AfterMiddle, Jump, Labels, Begun, Over
  <2>7. ASSUME NEW t \in Threads, Gemv(t) PROVE P
    BY <1>2, <2>7 DEF Gemv, Write, Jump, Labels, Begun
  <2>8. ASSUME NEW t \in Threads, OneChunk(t) PROVE P
    BY <1>2, <2>8 DEF OneChunk, Write, Jump, Labels, Begun
  <2>9. ASSUME NEW t \in Threads, NextChunk(t) PROVE P
    BY <1>2, <2>9 DEF NextChunk, Jump, Labels, Begun
  <2>10. ASSUME NEW t \in Threads, Callback(t) PROVE P
    BY <1>2, <2>10 DEF Callback, Jump, Labels, Begun, work
  <2>11. ASSUME NEW t \in Threads, Status(t) PROVE P
    <3>1. node_n[t] # Len(cgraph) => node_n[t] + 1 \in DOMAIN cgraph
      BY <1>2
    <3> QED BY <1>2, <2>11, <3>1 DEF Status, Jump, Labels, Over, work
  <2>12. CASE Returned
    BY <1>2, <2>12 DEF Returned, vars, work
  <2> QED BY <2>1, <2>2, <2>3, <2>4, <2>5, <2>6, <2>7, <2>8, <2>9, <2>10, <2>11, <2>12
          DEF Next, Main, Step
<1> QED BY <1>1, <1>3, <1>4 DEF TeamType

-----------------------------------------------------------------------------
(* The formation of the team. *)

\* Thread t returns from a barrier.
Passes(t) == Meet(t) /\ crossed' # crossed

\* Only a thread that returns from a barrier moves on.
LEMMA PlacesStay ==
    ASSUME TeamType, Next, \A t \in Threads : ~ Passes(t), NEW u \in Threads
    PROVE  Here(u)' = Here(u) /\ (Past(u)' <=> Past(u)) /\ crossed' = crossed /\ cgraph' = cgraph
<1>1. pc \in [Threads -> Labels] /\ node_n \in [Threads -> DOMAIN cgraph] /\ LabelFits(u)
      /\ 0 \in Threads /\ node_n[u] \in Nat /\ LabelFits(0)
  BY TeamFacts, TeamAssumption DEF TeamType, Threads
<1> DEFINE P == Here(u)' = Here(u) /\ (Past(u)' <=> Past(u)) /\ crossed' = crossed /\ cgraph' = cgraph
<1>3. ASSUME NEW t \in Threads, Create(t) PROVE P
  BY <1>1, <1>3 DEF Create, Given, barrier, work, Here, Past, Product, Begun, Over
<1>4. CASE SetCounter
  BY <1>1, <1>4 DEF SetCounter, Jump, Given, barrier, Here, Past, Product, Begun, Over
<1>5. CASE Join
  BY <1>1, <1>5 DEF Join, Jump, Given, barrier, work, Here, Past, Product, Begun, Over
<1>6. ASSUME NEW t \in Threads, Compute(t) PROVE P
  BY <1>1, <1>6 DEF Compute, Jump, Given, barrier, Here, Past, Product, Begun, Over, Node
<1>7. ASSUME NEW t \in Threads, Convert(t) PROVE P
  BY <1>1, <1>7 DEF Convert, AfterConvert, Jump, Given, barrier, Here, Past, Product, Begun, Over
<1>8. ASSUME NEW t \in Threads, Meet(t) PROVE P
  <2>1. crossed' = crossed
    BY <1>8 DEF Passes
  <2>2. UNCHANGED <<pc, cgraph, node_n>>
    BY <1>8, <2>1 DEF Meet, Given
  <2> QED BY <2>1, <2>2 DEF Here, Past, Product
<1>9. ASSUME NEW t \in Threads, Gemv(t) PROVE P
  BY <1>1, <1>9 DEF Gemv, Jump, Given, barrier, Here, Past, Product, Begun, Over
<1>10. ASSUME NEW t \in Threads, OneChunk(t) PROVE P
  <2>1. /\ UNCHANGED <<cgraph, node_n, crossed>> /\ pc[t] = "chunk"
        /\ \/ pc' = [pc EXCEPT ![t] = "callback"]
           \/ pc' = [pc EXCEPT ![t] = "next"]
    BY <1>10 DEF OneChunk, Jump, Given, barrier
  <2> QED BY <1>1, <2>1 DEF Here, Past, Product, Begun, Over
<1>11. ASSUME NEW t \in Threads, NextChunk(t) PROVE P
  BY <1>1, <1>11 DEF NextChunk, Jump, Given, barrier, Here, Past, Product, Begun, Over
<1>12. ASSUME NEW t \in Threads, Callback(t) PROVE P
  BY <1>1, <1>12 DEF Callback, Jump, Given, barrier, work, Here, Past, Product, Begun, Over
<1>13. ASSUME NEW t \in Threads, Status(t) PROVE P
  BY <1>1, <1>13 DEF Status, Jump, Given, barrier, work, Here, Past, Product, Begun, Over
<1>14. CASE Returned
  BY <1>1, <1>14 DEF Returned, vars, work, barrier, Here, Past, Product
<1> QED BY <1>3, <1>4, <1>5, <1>6, <1>7, <1>8, <1>9, <1>10, <1>11, <1>12, <1>13, <1>14
        DEF Next, Main, Step

\* Where a thread goes when it returns from a barrier.
LEMMA Passing ==
    ASSUME TeamType, BInv, NEW t \in Threads, Passes(t)
    PROVE  /\ cgraph' = cgraph
           /\ \A u \in Threads : u # t => /\ Here(u)' = Here(u) /\ (Past(u)' <=> Past(u))
                                          /\ pc'[u] = pc[u] /\ cur'[u] = cur[u]
           /\ node_n' = node_n /\ wdata' = wdata /\ written' = written /\ twice' = twice
           /\ current_chunk' = current_chunk /\ ec' = ec
           /\ \/ /\ pc[t] = "middle" /\ pc'[t] \in {"gemv", "chunk"} /\ cur'[t] = t
                 /\ Here(t) = node_n[t] /\ ~ Past(t) /\ Product(node_n[t])
                 /\ Here(t)' = node_n[t] /\ Past(t)'
              \/ /\ pc[t] = "end" /\ pc'[t] = "status" /\ cur'[t] = cur[t]
                 /\ Here(t) = node_n[t] /\ (Past(t) <=> Product(node_n[t]))
                 /\ Here(t)' = node_n[t] + 1 /\ ~ Past(t)'
<1>1. /\ pc \in [Threads -> Labels] /\ node_n \in [Threads -> DOMAIN cgraph] /\ cur \in [Threads -> Nat]
      /\ LabelFits(t) /\ Product(node_n[t]) \in BOOLEAN /\ node_n[t] \in Nat
  BY TeamFacts DEF TeamType, Product
<1>2. UNCHANGED <<cgraph, node_n, ec, current_chunk, wdata, written, twice>> /\ crossed' # crossed
  BY DEF Passes, Meet, Given
<1>3. CASE pc[t] = "middle"
  <2>1. cur' = [cur EXCEPT ![t] = t] /\ pc' = [pc EXCEPT ![t] = AfterMiddle(t)]
    BY <1>2, <1>3 DEF Passes, Meet, Jump
  <2>2. AfterMiddle(t) \in {"gemv", "chunk"}
    BY DEF AfterMiddle
  <2> QED BY <1>1, <1>2, <1>3, <2>1, <2>2 DEF LabelFits, Here, Past, Product, Begun, Over
<1>4. CASE pc[t] = "end"
  <2>1. cur' = cur /\ pc' = [pc EXCEPT ![t] = "status"]
    BY <1>2, <1>4 DEF Passes, Meet, Jump
  <2> QED BY <1>1, <1>2, <1>4, <2>1 DEF LabelFits, Here, Past, Product, Begun, Over
<1> QED BY <1>3, <1>4 DEF Passes, Meet

LEMMA InitFormation == TeamType /\ Init => Formation
<1> SUFFICES ASSUME TeamType, Init PROVE Formation
  OBVIOUS
<1>1. \A t \in Threads : Here(t) = 1 /\ ~ Past(t) /\ crossed[t] = 0
  BY DEF Init, BarrierInit, Here, Past, Begun, Over
<1> QED BY <1>1 DEF Formation, Abreast

LEMMA StepFormation ==
    ASSUME TeamType, BInv, Formation, Next
    PROVE  Formation'
<1>1. CASE \A t \in Threads : ~ Passes(t)
  <2>1. \A u \in Threads : Here(u)' = Here(u) /\ (Past(u)' <=> Past(u))
    BY <1>1, PlacesStay
  <2>2. crossed' = crossed /\ cgraph' = cgraph
    BY <1>1, PlacesStay, TeamAssumption DEF Threads
  <2> QED BY <2>1, <2>2 DEF Formation, Abreast, Behind, Product
<1>2. ASSUME NEW t \in Threads, Passes(t) PROVE Formation'
  <2>1. /\ crossed' = [crossed EXCEPT ![t] = @ + 1]
        /\ \A u \in Threads : crossed[u] \in {crossed[t], crossed[t] + 1}
    BY <1>2, Crossing DEF Passes, Meet
  <2>2. \A u \in Threads : crossed[u] \in Nat /\ crossed' [u] = IF u = t THEN crossed[t] + 1 ELSE crossed[u]
    BY <2>1 DEF BInv, BarrierTypeOK
  <2>3. cgraph' = cgraph
    BY <1>2, Passing
  <2>4. \A u \in Threads : u # t => Here(u)' = Here(u) /\ (Past(u)' <=> Past(u))
    BY <1>2, Passing
  <2>5. \/ Here(t)' = Here(t) /\ ~ Past(t) /\ Past(t)' /\ Product(Here(t))
        \/ Here(t)' = Here(t) + 1 /\ ~ Past(t)' /\ (Past(t) \/ ~ Product(Here(t)))
    BY <1>2, Passing
  <2>6. ASSUME NEW u \in Threads, u # t, crossed[u] = crossed[t]
        PROVE  Behind(u, t)'
    <3>1. Abreast(u, t)
      BY <2>6 DEF Formation
    <3> QED BY <2>3, <2>4, <2>5, <2>6, <3>1 DEF Abreast, Behind, Product
  <2>7. ASSUME NEW u \in Threads, u # t, crossed[u] = crossed[t] + 1
        PROVE  Abreast(u, t)' /\ Abreast(t, u)'
    <3>1. Behind(t, u)
      BY <2>7 DEF Formation
    <3>2. Here(t) \in Nat /\ Here(t) \in DOMAIN cgraph /\ Product(Here(t)) \in BOOLEAN
      BY <1>2, Passing, TeamFacts DEF Product
    <3>3. Past(u) => Product(Here(u))
      BY DEF Past, Here, Begun, Over
    <3> QED BY <2>4, <2>5, <2>7, <3>1, <3>2, <3>3 DEF Abreast, Behind
  <2>8. ASSUME NEW u \in Threads, NEW v \in Threads, u # t, v # t
        PROVE  /\ crossed[u] = crossed[v] => Abreast(u, v)'
               /\ crossed[v] = crossed[u] + 1 => Behind(u, v)'
    BY <2>3, <2>4, <2>8 DEF Formation, Abreast, Behind, Product
  <2> SUFFICES ASSUME NEW u \in Threads, NEW v \in Threads
               PROVE  /\ crossed'[u] = crossed'[v] => Abreast(u, v)'
                      /\ crossed'[v] = crossed'[u] + 1 => Behind(u, v)'
    BY DEF Formation
  <2>9. CASE u = t /\ v = t
    BY <2>2, <2>9 DEF Abreast
  <2>10. CASE u = t /\ v # t
    BY <2>1, <2>2, <2>7, <2>10
  <2>11. CASE u # t /\ v = t
    BY <2>1, <2>2, <2>6, <2>7, <2>11
  <2> QED BY <2>2, <2>8, <2>9, <2>10, <2>11
<1> QED BY <1>1, <1>2

\* Nobody is ahead of a thread outside the barrier, and who is behind is in it.
LEMMA Rest ==
    ASSUME TeamType, BInv, Formation, NEW t \in Threads, at[t] = "out", NEW u \in Threads
    PROVE  /\ Abreast(t, u) \/ (Behind(u, t) /\ pc[u] \in {"middle", "end"})
           /\ Here(u) <= Here(t)
<1>1. crossed[t] \in Nat /\ crossed[u] \in Nat /\ crossed[u] <= crossed[t]
      /\ crossed[t] <= crossed[u] + 1
  BY Near
<1>2. Here(u) \in Nat /\ Here(t) \in Nat
  BY TeamFacts DEF Here
<1>3. CASE crossed[u] = crossed[t]
  BY <1>2, <1>3 DEF Formation, Abreast
<1>4. CASE crossed[t] = crossed[u] + 1
  <2>1. Behind(u, t)
    BY <1>4 DEF Formation
  <2>2. at[u] = "spin"
    BY <1>4, Near
  <2>3. pc[u] \in {"middle", "end"}
    BY <2>2, TeamFacts DEF LabelFits
  <2> QED BY <1>2, <2>1, <2>3 DEF Behind
<1> QED BY <1>1, <1>3, <1>4

\* Who returns from a barrier leaves nobody behind who has not come to it.
LEMMA AllThere ==
    ASSUME TeamType, BInv, Formation, NEW t \in Threads, Passes(t), NEW u \in Threads
    PROVE  (Abreast(t, u) /\ pc[u] \in {"middle", "end"}) \/ Behind(t, u)
<1>1. crossed[u] \in {crossed[t], crossed[t] + 1} /\ (crossed[u] = crossed[t] => at[u] # "out")
  BY Crossing DEF Passes, Meet
<1>2. at[u] # "out" => pc[u] \in {"middle", "end"}
  BY TeamFacts DEF LabelFits
<1> QED BY <1>1, <1>2 DEF Formation

\* Of those at the same barrier, all are at the same place.
LEMMA SameBarrier ==
    ASSUME TeamType, NEW t \in Threads, NEW u \in Threads, Abreast(t, u),
           pc[t] \in {"middle", "end"}, pc[u] \in {"middle", "end"}
    PROVE  pc[u] = pc[t] /\ node_n[u] = node_n[t]
<1>1. Here(t) = node_n[t] /\ Here(u) = node_n[u]
  BY DEF Here, Over
<1>2. pc[t] = "middle" => Product(node_n[t])
  BY TeamFacts DEF LabelFits
<1>3. pc[u] = "middle" => Product(node_n[u])
  BY TeamFacts DEF LabelFits
<1> QED BY <1>1, <1>2, <1>3 DEF Abreast, Past, Begun

\* The team never goes back.
LEMMA Onward ==
    ASSUME TeamType, BInv, Next, NEW u \in Threads
    PROVE  Here(u)' >= Here(u) /\ Here(u) \in Nat
<1>1. Here(u) \in Nat
  BY TeamFacts DEF Here
<1>2. CASE \A t \in Threads : ~ Passes(t)
  BY <1>1, <1>2, PlacesStay
<1>3. ASSUME NEW t \in Threads, Passes(t) PROVE Here(u)' >= Here(u)
  BY <1>1, <1>3, Passing
<1> QED BY <1>1, <1>2, <1>3

\* A node that nobody has left was not left before.
LEMMA FrontBefore ==
    ASSUME TeamType, BInv, Next, NEW k \in Nat, InFront(k)'
    PROVE  InFront(k)
<1>1. \A u \in Threads : Here(u)' <= k
  BY DEF InFront
<1>2. TeamType'
  BY StepType
<1>3. ASSUME NEW u \in Threads PROVE Here(u)' \in Nat
  BY <1>2, <1>3 DEF Here, TeamType
<1> QED BY <1>1, <1>3, Onward DEF InFront

-----------------------------------------------------------------------------
(* The work buffer. *)

LEMMA StepConverted ==
    ASSUME TeamType, BInv, Converted, Next
    PROVE  Converted'
<1> SUFFICES ASSUME NEW t \in Threads, HasConverted(t)', InFront(node_n[t])'
             PROVE  (\A r \in RowsOf(t) : r \in DOMAIN wdata /\ wdata[r] = node_n[t])'
  BY DEF Converted
<1>1. /\ pc \in [Threads -> Labels] /\ node_n \in [Threads -> DOMAIN cgraph] /\ node_n[t] \in Nat
  BY TeamFacts DEF TeamType
<1>2. InFront(node_n[t])' /\ node_n'[t] \in Nat => InFront(node_n'[t])
  BY FrontBefore DEF InFront
<1>3. ASSUME NEW v \in Threads, Convert(v)
      PROVE  (\A r \in RowsOf(t) : r \in DOMAIN wdata /\ wdata[r] = node_n[t])'
  <2> DEFINE rows == {r \in 0 .. Node(v).nr1 - 1 : Node(v).convert /\ r % n_threads = v}
  <2>1. wdata' = [r \in DOMAIN wdata \cup rows |-> IF r \in rows THEN node_n[v] ELSE wdata[r]]
        /\ node_n' = node_n /\ cgraph' = cgraph /\ pc' = [pc EXCEPT ![v] = AfterConvert(v)]
    BY <1>3 DEF Convert, Jump, Given
  <2>2. RowsOf(t)' = RowsOf(t)
    BY <2>1 DEF RowsOf, Node
  <2>3. CASE t = v
    <3>1. Node(t).convert
      BY <2>1 DEF HasConverted, Node
    <3>2. RowsOf(t) = rows
      BY <2>3, <3>1 DEF RowsOf
    <3> HIDE DEF rows
    <3> QED BY <2>1, <2>2, <2>3, <3>2
  <2>4. CASE t # v
    <3>1. \A r \in RowsOf(t) : r \notin rows
      BY <2>4 DEF RowsOf
    <3>2. HasConverted(t)
      BY <1>1, <2>1, <2>4 DEF HasConverted, Product, Node
    <3>3. \A r \in RowsOf(t) : r \in DOMAIN wdata /\ wdata[r] = node_n[t]
      BY <1>1, <1>2, <2>1, <3>2 DEF Converted
    <3> HIDE DEF rows
    <3> QED BY <2>1, <2>2, <3>1, <3>3
  <2> QED BY <2>3, <2>4
<1>4. ASSUME wdata' = wdata, cgraph' = cgraph, node_n'[t] = node_n[t], HasConverted(t)
      PROVE  (\A r \in RowsOf(t) : r \in DOMAIN wdata /\ wdata[r] = node_n[t])'
  <2>1. RowsOf(t)' = RowsOf(t)
    BY <1>4 DEF RowsOf, Node
  <2>2. \A r \in RowsOf(t) : r \in DOMAIN wdata /\ wdata[r] = node_n[t]
    BY <1>1, <1>2, <1>4 DEF Converted
  <2> QED BY <1>4, <2>1, <2>2
<1>5. ASSUME \A v \in Threads : ~ Convert(v)
      PROVE  wdata' = wdata /\ cgraph' = cgraph /\ node_n'[t] = node_n[t] /\ HasConverted(t)
  <2> DEFINE P == wdata' = wdata /\ cgraph' = cgraph /\ node_n'[t] = node_n[t] /\ HasConverted(t)
  <2>0. LabelFits(t) /\ 0 \in Threads /\ LabelFits(0)
    BY TeamFacts, TeamAssumption DEF Threads
  <2>1. ASSUME NEW v \in Threads, Create(v) PROVE P
    BY <1>1, <2>1 DEF Create, work, Given, HasConverted, Product, Node, Begun
  <2>2. CASE SetCounter
    BY <1>1, <2>2 DEF SetCounter, Jump, Given, HasConverted, Product, Node, Begun
  <2>3. CASE Join
    BY <1>1, <2>3 DEF Join, Jump, Given, work, HasConverted, Product, Node, Begun
  <2>4. ASSUME NEW v \in Threads, Compute(v) PROVE P
    BY <1>1, <2>4 DEF Compute, Jump, Given, HasConverted, Product, Node, Begun
  <2>5. ASSUME NEW v \in Threads, Meet(v) PROVE P
    <3>1. CASE Passes(v)
      BY <1>1, <2>5, <3>1, Passing DEF HasConverted, Product, Node, Begun
    <3>2. CASE ~ Passes(v)
      BY <2>5, <3>2 DEF Passes, Meet, Given, HasConverted, Product, Node
    <3> QED BY <3>1, <3>2
  <2>6. ASSUME NEW v \in Threads, Gemv(v) PROVE P
    BY <1>1, <2>6 DEF Gemv, Jump, Given, HasConverted, Product, Node, Begun
  <2>7. ASSUME NEW v \in Threads, OneChunk(v) PROVE P
    <3>1. /\ UNCHANGED <<cgraph, node_n, wdata>> /\ pc[v] = "chunk"
          /\ \A u \in Threads : u # v => pc'[u] = pc[u]
      BY <1>1, <2>7 DEF OneChunk, Jump, Given
    <3> QED BY <1>1, <3>1 DEF HasConverted, Product, Node, Begun
  <2>8. ASSUME NEW v \in Threads, NextChunk(v) PROVE P
    BY <1>1, <2>8 DEF NextChunk, Jump, Given, HasConverted, Product, Node, Begun
  <2>9. ASSUME NEW v \in Threads, Callback(v) PROVE P
    BY <1>1, <2>9 DEF Callback, Jump, Given, work, HasConverted, Product, Node, Begun
  <2>10. ASSUME NEW v \in Threads, Status(v) PROVE P
    BY <1>1, <2>10 DEF Status, Jump, Given, work, HasConverted, Product, Node, Begun
  <2>11. CASE Returned
    BY <2>11 DEF Returned, vars, work, HasConverted, Product, Node
  <2> QED BY <1>5, <2>1, <2>2, <2>3, <2>4, <2>5, <2>6, <2>7, <2>8, <2>9, <2>10, <2>11
          DEF Next, Main, Step
<1> QED BY <1>3, <1>4, <1>5

-----------------------------------------------------------------------------
(* The shared counter. *)

\* nobody multiplies at node k yet
NonePast(k) == \A u \in Threads : ~ (Here(u) = k /\ Past(u))

LEMMA PastAtNode ==
    ASSUME NEW t \in Threads, Past(t)
    PROVE  Here(t) = node_n[t] /\ Product(node_n[t]) /\ pc[t] \in Begun
  BY DEF Past, Here, Begun, Over

LEMMA CounterSays ==
    ASSUME TeamType, Counter, NEW t \in Threads, Past(t), InFront(Here(t))
    PROVE  /\ current_chunk \in Nat /\ current_chunk >= n_threads
           /\ pc[t] \in {"callback", "end"} /\ HandsOut(Node(t)) => current_chunk >= NChunks(Node(t))
<1>1. InFront(node_n[t]) /\ current_chunk \in Nat
  BY PastAtNode DEF TeamType
<1> QED BY <1>1 DEF Counter

\* A thread that returns from the barrier of a product finds the counter set.
LEMMA CounterIsSet ==
    ASSUME TeamType, BInv, Formation, Counter, NEW t \in Threads, Passes(t), pc[t] = "middle",
           InFront(node_n[t])
    PROVE  /\ current_chunk \in Nat /\ current_chunk >= n_threads
           /\ NonePast(node_n[t]) => current_chunk = n_threads
<1>1. current_chunk \in Nat /\ 0 \in Threads /\ Here(t) = node_n[t] /\ ~ Past(t) /\ node_n[t] \in Nat
  BY Passing, TeamFacts DEF TeamType
<1>2. ASSUME ~ NonePast(node_n[t]) PROVE current_chunk >= n_threads
  <2>1. PICK u \in Threads : Here(u) = node_n[t] /\ Past(u)
    BY <1>2 DEF NonePast
  <2> QED BY <2>1, CounterSays
<1>3. ASSUME NonePast(node_n[t]) PROVE current_chunk = n_threads
  <2>1. CASE Abreast(t, 0) /\ pc[0] \in {"middle", "end"}
    <3>1. pc[0] = "middle" /\ node_n[0] = node_n[t]
      BY <1>1, <2>1, SameBarrier
    <3> QED BY <1>3, <3>1 DEF Counter, NonePast
  <2>2. ~ Behind(t, 0)
    <3>1. Here(0) <= node_n[t] /\ Here(0) \in Nat
      BY <1>1, TeamFacts DEF InFront, Here
    <3> QED BY <1>1, <1>3, <3>1 DEF Behind, NonePast
  <2> QED BY <1>1, <2>1, <2>2, AllThere
<1>4. n_threads \in Nat
  BY TeamAssumption
<1> QED BY <1>1, <1>2, <1>3, <1>4

\* While thread 0 is on its way to the counter nobody multiplies.
LEMMA CounterFree ==
    ASSUME TeamType, BInv, Formation, pc[0] = "counter", NEW t \in Threads, Past(t)
    PROVE  Here(t) < Here(0) /\ Here(t) \in Nat /\ Here(0) \in Nat
<1>1. 0 \in Threads /\ Here(t) \in Nat /\ Here(0) \in Nat
  BY TeamFacts, TeamAssumption DEF Threads, Here
<1>2. at[0] = "out" /\ ~ Past(0)
  BY <1>1, TeamFacts DEF LabelFits, Past, Begun
<1> QED BY <1>1, <1>2, Rest DEF Abreast, Behind

\* While a thread multiplies thread 0 does not wait for the others to set out.
LEMMA CounterInUse ==
    ASSUME TeamType, BInv, Formation, NEW t \in Threads, Past(t), at[t] = "out"
    PROVE  pc[0] = "middle" => Here(0) = Here(t)
<1>1. 0 \in Threads
  BY TeamFacts
<1>2. pc[0] = "middle" => ~ Past(0)
  BY DEF Past, Begun
<1> QED BY <1>1, <1>2, Rest DEF Abreast, Behind

LEMMA InitCounter == Init => Counter
<1> SUFFICES ASSUME Init PROVE Counter
  OBVIOUS
<1>1. 0 \in Threads
  BY TeamAssumption DEF Threads
<1>2. pc[0] = "create" /\ \A t \in Threads : ~ Past(t)
  BY <1>1 DEF Init, Past, Begun
<1> QED BY <1>2 DEF Counter

\* What a chunk taken says of the counter.
LEMMA TakenIsGiven ==
    ASSUME TeamType, BInv, Formation, NEW t \in Threads, Past(t), pc[t] \in {"gemv", "chunk"},
           Parted(node_n[t])
    PROVE  cur[t] < current_chunk
<1>1. at[t] = "out" /\ Here(t) = node_n[t] /\ node_n[t] \in Nat
  BY TeamFacts, PastAtNode DEF LabelFits
<1>2. InFront(node_n[t])
  BY <1>1, Rest DEF InFront
<1>3. Owes(t, node_n[t]) = {cur[t]}
  BY <1>1 DEF Owes, Begun
<1>4. GivenOut(node_n[t]) = 0 .. current_chunk - 1
  BY <1>1, <1>2 DEF GivenOut
<1>5. cur[t] \in 0 .. current_chunk - 1 /\ current_chunk \in Nat
  BY <1>3, <1>4 DEF Parted, TeamType
<1> QED BY <1>5

\* Each step keeps the counter in step with the team.
LEMMA StepCounter ==
    ASSUME TeamType, BInv, Formation, Counter, Next, \A k \in DOMAIN cgraph : Parted(k)
    PROVE  Counter'
<1>1. /\ pc \in [Threads -> Labels] /\ node_n \in [Threads -> DOMAIN cgraph]
      /\ cur \in [Threads -> Nat] /\ 0 \in Threads /\ n_threads \in Nat /\ current_chunk \in Nat
  BY TeamAssumption DEF TeamType, Threads
<1>2. ASSUME NEW v \in Threads, Passes(v) PROVE Counter'
  <2>1. /\ current_chunk' = current_chunk /\ node_n' = node_n /\ cgraph' = cgraph
        /\ \A u \in Threads : u # v => /\ Here(u)' = Here(u) /\ (Past(u)' <=> Past(u)) /\ pc'[u] = pc[u]
    BY <1>2, Passing
  <2>2. ASSUME pc'[0] = "middle", InFront(node_n[0])', NonePast(node_n[0])'
        PROVE  current_chunk' = n_threads
    <3>1. v # 0 /\ pc[0] = "middle"
      <4>1. pc'[v] \in {"gemv", "chunk", "status"}
        BY <1>2, Passing
      <4> QED BY <1>1, <2>1, <2>2, <4>1
    <3>2. InFront(node_n[0])
      BY <1>1, <2>1, <2>2, TeamFacts, FrontBefore DEF InFront
    <3>3. ~ (Here(v) = node_n[0] /\ Past(v))
      <4>1. SUFFICES ASSUME Here(v) = node_n[0], Past(v) PROVE FALSE
        OBVIOUS
      <4>2. Here(v)' = node_n[0] + 1 /\ node_n[0] \in Nat
        BY <1>2, <4>1, Passing, TeamFacts
      <4>3. Here(v)' <= node_n'[0]
        BY <2>2 DEF InFront
      <4> QED BY <2>1, <4>2, <4>3
    <3>4. NonePast(node_n[0])
      BY <2>1, <2>2, <3>3 DEF NonePast
    <3> QED BY <2>1, <3>1, <3>2, <3>4 DEF Counter, NonePast
  <2>3. ASSUME NEW u \in Threads, Past(u)', InFront(node_n[u])'
        PROVE  /\ current_chunk' >= n_threads
               /\ (pc[u] \in {"callback", "end"} /\ HandsOut(Node(u)) => current_chunk >= NChunks(Node(u)))'
    <3>1. InFront(node_n[u])
      BY <1>1, <2>1, <2>3, TeamFacts, FrontBefore DEF InFront
    <3>2. CASE u # v
      <4>1. Past(u) /\ pc'[u] = pc[u]
        BY <2>1, <2>3, <3>2
      <4> QED BY <2>1, <3>1, <4>1 DEF Counter, Node
    <3>3. CASE u = v
      <4>1. pc[v] = "middle" /\ pc'[v] \in {"gemv", "chunk"}
        BY <1>2, <2>3, <3>3, Passing
      <4>2. current_chunk >= n_threads
        BY <1>2, <3>1, <3>3, <4>1, CounterIsSet
      <4> QED BY <2>1, <3>3, <4>1, <4>2
    <3> QED BY <3>2, <3>3
  <2> QED BY <2>2, <2>3 DEF Counter, NonePast
<1>3. ASSUME \A v \in Threads : ~ Passes(v) PROVE Counter'
  <2>1. \A u \in Threads : Here(u)' = Here(u) /\ (Past(u)' <=> Past(u))
    BY <1>3, PlacesStay
  <2>2. \A k : (InFront(k)' <=> InFront(k)) /\ (NonePast(k)' <=> NonePast(k))
    BY <2>1 DEF InFront, NonePast
  <2>3. cgraph' = cgraph
    BY <1>1, <1>3, PlacesStay
  <2>4. CASE SetCounter
    <3>1. current_chunk' = n_threads /\ pc[0] = "counter"
      BY <2>4 DEF SetCounter, FirstFree
    <3>2. ASSUME NEW u \in Threads, Past(u)', InFront(node_n[u])' PROVE FALSE
      <4>1. Past(u) /\ Here(u)' = Here(u) /\ Here(0)' = Here(0)
        BY <1>1, <2>1, <3>2
      <4>2. Here(u) < Here(0) /\ Here(u) \in Nat /\ Here(0) \in Nat
        BY <3>1, <4>1, CounterFree
      <4>3. node_n'[u] = node_n[u] /\ node_n[u] = Here(u)
        BY <2>4, <4>1, PastAtNode DEF SetCounter
      <4> QED BY <1>1, <3>2, <4>1, <4>2, <4>3 DEF InFront
    <3> QED BY <3>1, <3>2 DEF Counter
  <2>5. ASSUME NEW v \in Threads, NextChunk(v) PROVE Counter'
    <3>1. /\ current_chunk' = current_chunk + 1 /\ node_n' = node_n
          /\ pc[v] = "next" /\ pc' = [pc EXCEPT ![v] = "chunk"]
      BY <2>5 DEF NextChunk, Jump
    <3>2. Past(v) /\ at[v] = "out"
      BY <3>1, TeamFacts DEF LabelFits, Past, Begun
    <3>3. ASSUME pc'[0] = "middle", NonePast(node_n[0])' PROVE FALSE
      <4>1. pc[0] = "middle" /\ Here(0) = node_n[0]
        BY <1>1, <3>1, <3>3 DEF Here, Over
      <4>2. Here(v) = node_n[0]
        BY <3>2, <4>1, CounterInUse
      <4>3. NonePast(node_n[0])
        BY <2>1, <3>1, <3>3 DEF NonePast
      <4> QED BY <3>2, <4>2, <4>3 DEF NonePast
    <3>4. ASSUME NEW u \in Threads, Past(u)', InFront(node_n[u])'
          PROVE  /\ current_chunk' >= n_threads
                 /\ (pc[u] \in {"callback", "end"} /\ HandsOut(Node(u)) => current_chunk >= NChunks(Node(u)))'
      <4>1. Past(u) /\ InFront(node_n[u]) /\ node_n'[u] = node_n[u]
        BY <2>1, <2>2, <3>1, <3>4 DEF InFront
      <4>2. IsNode(Node(u)) /\ Node(u)' = Node(u) /\ NChunks(Node(u)) \in Nat
        BY <2>3, <3>1, TeamFacts, ChunkingType DEF Node
      <4>3. pc'[u] \in {"callback", "end"} => pc'[u] = pc[u]
        BY <1>1, <3>1
      <4>4. /\ current_chunk >= n_threads
            /\ pc[u] \in {"callback", "end"} /\ HandsOut(Node(u)) => current_chunk >= NChunks(Node(u))
        BY <4>1 DEF Counter
      <4> QED BY <1>1, <3>1, <4>2, <4>3, <4>4
    <3> QED BY <3>3, <3>4 DEF Counter, NonePast
  <2>6. ASSUME NEW v \in Threads, OneChunk(v) PROVE Counter'
    <3>1. /\ pc[v] = "chunk" /\ node_n' = node_n /\ current_chunk' = current_chunk
          /\ \A u \in Threads : u # v => pc'[u] = pc[u]
          /\ pc'[v] # "middle"
      BY <1>1, <2>6 DEF OneChunk, Jump
    <3>2. Past(v) /\ at[v] = "out"
      BY <3>1, TeamFacts DEF LabelFits, Past, Begun
    <3>3. ASSUME pc'[0] = "middle", InFront(node_n[0])', NonePast(node_n[0])'
          PROVE  current_chunk' = n_threads
      <4>1. pc[0] = "middle" /\ InFront(node_n[0]) /\ NonePast(node_n[0])
        BY <1>1, <2>1, <3>1, <3>3 DEF InFront, NonePast
      <4> QED BY <3>1, <4>1 DEF Counter, NonePast
    <3>4. ASSUME NEW u \in Threads, Past(u)', InFront(node_n[u])'
          PROVE  /\ current_chunk' >= n_threads
                 /\ (pc[u] \in {"callback", "end"} /\ HandsOut(Node(u)) => current_chunk >= NChunks(Node(u)))'
      <4>1. Past(u) /\ InFront(node_n[u]) /\ Node(u)' = Node(u)
        BY <2>1, <2>3, <3>1, <3>4 DEF InFront, Node
      <4>2. /\ current_chunk >= n_threads
            /\ pc[u] \in {"callback", "end"} /\ HandsOut(Node(u)) => current_chunk >= NChunks(Node(u))
        BY <4>1 DEF Counter
      <4>3. CASE u # v
        BY <3>1, <4>1, <4>2, <4>3
      <4>4. CASE u = v
        <5>1. NChunks(Node(v)) \in Nat
          BY TeamFacts, ChunkingType
        <5>2. cur[v] < current_chunk /\ cur[v] \in Nat
          BY <1>1, <3>1, <3>2, TakenIsGiven
        <5>3. pc'[v] = "callback" => ~ cur[v] < NChunks(Node(v)) \/ n_threads >= NChunks(Node(v))
          BY <1>1, <2>6 DEF OneChunk, Jump
        <5>4. pc'[v] # "end"
          BY <1>1, <2>6 DEF OneChunk, Jump
        <5> QED BY <1>1, <3>1, <4>1, <4>2, <4>4, <5>1, <5>2, <5>3, <5>4
      <4> QED BY <4>3, <4>4
    <3> QED BY <3>3, <3>4 DEF Counter, NonePast
  <2>7. ASSUME ~ SetCounter, \A v \in Threads : ~ NextChunk(v) /\ ~ OneChunk(v)
        PROVE  Counter'
    <3>1. /\ current_chunk' = current_chunk
          /\ pc'[0] = "middle" => pc[0] = "middle" /\ node_n'[0] = node_n[0]
          /\ \A u \in Threads : Past(u) => /\ node_n'[u] = node_n[u]
                                           /\ pc'[u] \in {"callback", "end"} =>
                                                 pc[u] \in {"callback", "end"} \/ ~ HandsOut(Node(u))
      <4> DEFINE P == /\ current_chunk' = current_chunk
                      /\ pc'[0] = "middle" => pc[0] = "middle" /\ node_n'[0] = node_n[0]
                      /\ \A u \in Threads : Past(u) => /\ node_n'[u] = node_n[u]
                                                       /\ pc'[u] \in {"callback", "end"} =>
                                                             pc[u] \in {"callback", "end"} \/ ~ HandsOut(Node(u))
      <4>1. ASSUME NEW v \in Threads, Create(v) PROVE P
        BY <1>1, <4>1 DEF Create, work
      <4>2. CASE Join
        BY <1>1, <4>2 DEF Join, Jump, work
      <4>3. ASSUME NEW v \in Threads, Compute(v) PROVE P
        BY <1>1, <4>3 DEF Compute, Jump, HandsOut
      <4>4. ASSUME NEW v \in Threads, Convert(v) PROVE P
        BY <1>1, <4>4 DEF Convert, AfterConvert, Jump
      <4>5. ASSUME NEW v \in Threads, Meet(v) PROVE P
        BY <1>3, <4>5 DEF Meet, Passes
      <4>6. ASSUME NEW v \in Threads, Gemv(v) PROVE P
        <5>1. ~ HandsOut(Node(v))
          BY <4>6, TeamFacts DEF Gemv, LabelFits, HandsOut
        <5> QED BY <1>1, <4>6, <5>1 DEF Gemv, Jump
      <4>7. ASSUME NEW v \in Threads, Callback(v) PROVE P
        BY <1>1, <4>7 DEF Callback, Jump, work
      <4>8. ASSUME NEW v \in Threads, Status(v) PROVE P
        BY <1>1, <4>8 DEF Status, Jump, work, Past, Begun
      <4>9. CASE Returned
        BY <4>9 DEF Returned, vars, work
      <4> QED BY <2>7, <4>1, <4>2, <4>3, <4>4, <4>5, <4>6, <4>7, <4>8, <4>9 DEF Next, Main, Step
    <3>2. ASSUME pc'[0] = "middle", InFront(node_n[0])', NonePast(node_n[0])'
          PROVE  current_chunk' = n_threads
      <4>1. pc[0] = "middle" /\ InFront(node_n[0]) /\ NonePast(node_n[0])
        BY <2>1, <3>1, <3>2 DEF InFront, NonePast
      <4> QED BY <3>1, <4>1 DEF Counter, NonePast
    <3>3. ASSUME NEW u \in Threads, Past(u)', InFront(node_n[u])'
          PROVE  /\ current_chunk' >= n_threads
                 /\ (pc[u] \in {"callback", "end"} /\ HandsOut(Node(u)) => current_chunk >= NChunks(Node(u)))'
      <4>1. Past(u)
        BY <2>1, <3>3
      <4>2. InFront(node_n[u]) /\ Node(u)' = Node(u)
        BY <2>1, <2>3, <3>1, <3>3, <4>1 DEF InFront, Node
      <4>3. /\ current_chunk >= n_threads
            /\ pc[u] \in {"callback", "end"} /\ HandsOut(Node(u)) => current_chunk >= NChunks(Node(u))
        BY <4>1, <4>2 DEF Counter
      <4> QED BY <3>1, <4>1, <4>2, <4>3
    <3> QED BY <3>2, <3>3 DEF Counter, NonePast
  <2> QED BY <2>4, <2>5, <2>6, <2>7
<1> QED BY <1>2, <1>3

-----------------------------------------------------------------------------
(* The parts of a node, as threads take and write them. *)

\* Nobody takes or writes a part; those given out besides are empty.
LEMMA PartedStays ==
    ASSUME NEW k, Parted(k), cgraph'[k] = cgraph[k], written'[k] = written[k],
           \A u \in Threads : Owes(u, k)' = Owes(u, k),
           GivenOut(k) \subseteq GivenOut(k)',
           \A i \in Nat : i \in GivenOut(k)' => i \in GivenOut(k) \/ Part(cgraph[k], i) = {}
    PROVE  Parted(k)'
<1>1. /\ written'[k] \subseteq Elements(cgraph'[k])
      /\ \A t \in Threads : Owes(t, k)' \subseteq GivenOut(k)'
      /\ \A t, u \in Threads : Owes(t, k)' \cap Owes(u, k)' # {} => t = u
  BY DEF Parted
<1>2. ASSUME NEW i \in Nat, i \in GivenOut(k)', \A t \in Threads : i \notin Owes(t, k)'
      PROVE  Part(cgraph[k], i) \subseteq written[k]
  BY <1>2 DEF Parted
<1>3. ASSUME NEW i \in Nat, i \notin GivenOut(k)' \/ (\E t \in Threads : i \in Owes(t, k)')
      PROVE  Part(cgraph[k], i) \cap written[k] = {}
  BY <1>3 DEF Parted
<1> HIDE DEF Owes, GivenOut, Part
<1> QED BY <1>1, <1>2, <1>3 DEF Parted

\* A thread writes the part it owes: nobody has written any of it before.
LEMMA PartedWrites ==
    ASSUME NEW k, Parted(k), IsNode(cgraph[k]), cgraph'[k] = cgraph[k],
           NEW v \in Threads, NEW i \in Nat, Owes(v, k) = {i}, Owes(v, k)' = {},
           \A u \in Threads : u # v => Owes(u, k)' = Owes(u, k),
           GivenOut(k)' = GivenOut(k),
           written'[k] = written[k] \cup Part(cgraph[k], i)
    PROVE  Parted(k)' /\ written[k] \cap Part(cgraph[k], i) = {}
<1>1. /\ Part(cgraph[k], i) \subseteq Elements(cgraph[k])
      /\ \A j \in Nat : j # i => Part(cgraph[k], j) \cap Part(cgraph[k], i) = {}
  BY PartsCover, PartsApart
<1>2. /\ written'[k] \subseteq Elements(cgraph'[k])
      /\ \A t \in Threads : Owes(t, k)' \subseteq GivenOut(k)'
      /\ \A t, u \in Threads : Owes(t, k)' \cap Owes(u, k)' # {} => t = u
  BY <1>1 DEF Parted
<1>3. \A u \in Threads : u # v => i \notin Owes(u, k)
  BY DEF Parted
<1>4. ASSUME NEW j \in Nat, j \in GivenOut(k)', \A t \in Threads : j \notin Owes(t, k)'
      PROVE  Part(cgraph[k], j) \subseteq written'[k]
  <2>1. CASE j = i
    BY <2>1
  <2>2. CASE j # i
    <3>1. \A t \in Threads : j \notin Owes(t, k)
      BY <1>4, <2>2
    <3> QED BY <1>4, <3>1 DEF Parted
  <2> QED BY <2>1, <2>2
<1>5. ASSUME NEW j \in Nat, j \notin GivenOut(k)' \/ (\E t \in Threads : j \in Owes(t, k)')
      PROVE  Part(cgraph[k], j) \cap written'[k] = {}
  <2>1. j # i
    <3>1. i \in GivenOut(k)
      BY DEF Parted
    <3> QED BY <1>3, <1>5, <3>1
  <2>2. j \notin GivenOut(k) \/ (\E t \in Threads : j \in Owes(t, k))
    BY <1>5
  <2>3. Part(cgraph[k], j) \cap written[k] = {}
    BY <2>2 DEF Parted
  <2> QED BY <1>1, <2>1, <2>3
<1>6. written[k] \cap Part(cgraph[k], i) = {}
  <2>1. \E t \in Threads : i \in Owes(t, k)
    OBVIOUS
  <2>2. Part(cgraph[k], i) \cap written[k] = {}
    BY <2>1 DEF Parted
  <2> QED BY <2>2
<1> HIDE DEF Owes, GivenOut, Part
<1> QED BY <1>2, <1>4, <1>5, <1>6 DEF Parted

\* A thread takes a part that has not been given out.
LEMMA PartedTakes ==
    ASSUME NEW k, Parted(k), cgraph'[k] = cgraph[k], written'[k] = written[k],
           NEW v \in Threads, NEW i \in Nat, Owes(v, k) = {}, Owes(v, k)' = {i},
           \A u \in Threads : u # v => Owes(u, k)' = Owes(u, k),
           i \notin GivenOut(k), GivenOut(k)' = GivenOut(k) \cup {i}
    PROVE  Parted(k)'
<1>1. written'[k] \subseteq Elements(cgraph'[k])
  BY DEF Parted
<1>2. \A t \in Threads : Owes(t, k)' \subseteq GivenOut(k)'
  BY DEF Parted
<1>3. \A u \in Threads : u # v => i \notin Owes(u, k)
  BY DEF Parted
<1>4. ASSUME NEW t \in Threads, NEW u \in Threads, Owes(t, k)' \cap Owes(u, k)' # {}
      PROVE  t = u
  BY <1>3, <1>4 DEF Parted
<1>5. ASSUME NEW j \in Nat, j \in GivenOut(k)', \A t \in Threads : j \notin Owes(t, k)'
      PROVE  Part(cgraph[k], j) \subseteq written[k]
  BY <1>5 DEF Parted
<1>6. ASSUME NEW j \in Nat, j \notin GivenOut(k)' \/ (\E t \in Threads : j \in Owes(t, k)')
      PROVE  Part(cgraph[k], j) \cap written[k] = {}
  BY <1>6 DEF Parted
<1> HIDE DEF Owes, GivenOut, Part
<1> QED BY <1>1, <1>2, <1>4, <1>5, <1>6 DEF Parted

\* What a thread owes depends on where it is.
LEMMA OwesStays ==
    ASSUME NEW u, Here(u)' = Here(u), pc'[u] \in Begun <=> pc[u] \in Begun,
           pc'[u] \in {"gemv", "chunk"} <=> pc[u] \in {"gemv", "chunk"}, cur'[u] = cur[u], NEW k
    PROVE  Owes(u, k)' = Owes(u, k)
  BY DEF Owes

\* What is given out depends on the counter and on where the threads are.
LEMMA GivenStays ==
    ASSUME \A u \in Threads : Here(u)' = Here(u) /\ (Past(u)' <=> Past(u)),
           current_chunk' = current_chunk, NEW k
    PROVE  GivenOut(k)' = GivenOut(k)
  BY DEF GivenOut, InFront

LEMMA InitParted == TeamType /\ Init => twice = {} /\ \A k \in DOMAIN cgraph : Parted(k)
<1> SUFFICES ASSUME TeamType, Init PROVE twice = {} /\ \A k \in DOMAIN cgraph : Parted(k)
  OBVIOUS
<1>1. \A t \in Threads : Here(t) = 1 /\ ~ Past(t) /\ pc[t] \notin Begun
  BY DEF Init, Here, Past, Begun, Over
<1>2. ASSUME NEW k \in DOMAIN cgraph PROVE Parted(k)
  <2>1. k \in Nat /\ k >= 1 /\ Threads \subseteq Nat /\ InFront(k)
    BY <1>1, TeamAssumption DEF TeamType, Threads, InFront
  <2>2. \A t \in Threads : Owes(t, k) = {t}
    BY <1>1, <2>1 DEF Owes
  <2>3. GivenOut(k) = Threads
    BY <1>1, <2>1 DEF GivenOut
  <2>4. written[k] = {}
    BY DEF Init
  <2> QED BY <2>2, <2>3, <2>4 DEF Parted
<1> QED BY <1>2 DEF Init

\* A thread that writes its part, the others standing still.
LEMMA WriteParted ==
    ASSUME TeamType, \A k \in DOMAIN cgraph : Parted(k), twice = {},
           \A u \in Threads : Here(u)' = Here(u) /\ (Past(u)' <=> Past(u)),
           cgraph' = cgraph, current_chunk' = current_chunk, cur' = cur,
           NEW v \in Threads, NEW i \in Nat, NEW elems, elems = Part(Node(v), i),
           Owes(v, node_n[v]) = {i}, Here(v) = node_n[v],
           pc'[v] \in Begun \ {"gemv", "chunk"},
           \A u \in Threads : u # v => pc'[u] = pc[u],
           Write(v, elems) \/ (elems = {} /\ UNCHANGED <<written, twice>>)
    PROVE  (\A k \in DOMAIN cgraph : Parted(k))' /\ twice' = {}
<1>0. PICK n : n = node_n[v]
  OBVIOUS
<1>1. n \in DOMAIN cgraph /\ n \in Nat /\ IsNode(cgraph[n]) /\ Node(v) = cgraph[n]
      /\ DOMAIN written = DOMAIN cgraph /\ DOMAIN cgraph \subseteq Nat
      /\ Here(v) = n /\ Owes(v, n) = {i}
  BY <1>0, TeamFacts DEF TeamType, Node
<1>2. \A k \in DOMAIN cgraph : GivenOut(k)' = GivenOut(k)
  BY GivenStays
<1>3. \A u \in Threads : u # v => \A k : Owes(u, k)' = Owes(u, k)
  BY OwesStays
<1>4. Here(v)' = n /\ pc'[v] \in Begun /\ pc'[v] \notin {"gemv", "chunk"}
  BY <1>1
<1>5. \A k \in Nat : k # n => Owes(v, k)' = Owes(v, k)
  BY <1>1, <1>4 DEF Owes
<1>6. Owes(v, n)' = {}
  BY <1>1, <1>4 DEF Owes
<1>7. \A k \in DOMAIN cgraph : written'[k] = IF k = n THEN written[k] \cup elems ELSE written[k]
  BY <1>0, <1>1 DEF Write
<1>11. elems = Part(cgraph[n], i) /\ Parted(n) /\ cgraph'[n] = cgraph[n]
       /\ written'[n] = written[n] \cup elems
       /\ GivenOut(n)' = GivenOut(n)
       /\ \A u \in Threads : u # v => Owes(u, n)' = Owes(u, n)
  BY <1>1, <1>2, <1>3, <1>7
<1>12. Parted(n)' /\ written[n] \cap elems = {}
  <2>1. written'[n] = written[n] \cup Part(cgraph[n], i) /\ Parted(n)
        /\ Owes(v, n) = {i} /\ Owes(v, n)' = {} /\ IsNode(cgraph[n])
    BY <1>1, <1>6, <1>11
  <2> HIDE DEF Parted, Owes, GivenOut, Part
  <2>2. Parted(n)' /\ written[n] \cap Part(cgraph[n], i) = {}
    BY <1>11, <2>1, PartedWrites
  <2> QED BY <1>11, <2>2
<1>8. ASSUME NEW k \in DOMAIN cgraph PROVE Parted(k)'
  <2>1. CASE k = n
    BY <1>12, <2>1
  <2>2. CASE k # n
    <3>1. written'[k] = written[k] /\ GivenOut(k)' = GivenOut(k) /\ Parted(k)
      BY <1>2, <1>7, <2>2
    <3>2. \A u \in Threads : Owes(u, k)' = Owes(u, k)
      BY <1>1, <1>3, <1>5, <2>2
    <3> QED BY <3>1, <3>2, PartedStays
  <2> QED BY <2>1, <2>2
<1>10. twice' = {}
  BY <1>0, <1>12 DEF Write
<1> QED BY <1>8, <1>10

\* Where all have come to the last barrier of a node, nothing is left of it.
LEMMA AllGiven ==
    ASSUME TeamType, BInv, Formation, Counter, NEW v \in Threads, Passes(v), pc[v] = "end",
           NEW i \in Nat, i \notin GivenOut(node_n[v])
    PROVE  Part(Node(v), i) = {}
<1> DEFINE n == node_n[v]
<1>1. /\ n \in Nat /\ IsNode(Node(v)) /\ Node(v) = cgraph[n] /\ InFront(n)
      /\ Here(v) = n /\ (Past(v) <=> Product(n)) /\ current_chunk \in Nat /\ n_threads \in Nat
  BY TeamFacts, Passing, TeamAssumption DEF TeamType, GivenOut, Node
<1>2. CASE Past(v)
  <2>1. GivenOut(n) = 0 .. current_chunk - 1
    BY <1>1, <1>2 DEF GivenOut
  <2>2. /\ current_chunk >= n_threads
        /\ HandsOut(Node(v)) => current_chunk >= NChunks(Node(v))
    BY <1>1, <1>2, CounterSays
  <2>3. i >= current_chunk
    BY <1>1, <2>1
  <2>4. NChunks(Node(v)) \in Nat
    BY <1>1, ChunkingType
  <2>5. i \notin Threads
    BY <1>1, <2>2, <2>3 DEF Threads
  <2> QED BY <1>1, <2>2, <2>3, <2>4, <2>5 DEF Part
<1>3. CASE ~ Past(v)
  <2>1. ~ Product(n) /\ ~ HandsOut(Node(v))
    BY <1>1, <1>3 DEF Product, HandsOut
  <2>2. NonePast(n)
    BY <2>1, PastAtNode DEF NonePast
  <2>3. GivenOut(n) = Threads
    BY <1>1, <2>2 DEF GivenOut, NonePast
  <2> QED BY <2>1, <2>3 DEF Part
<1> QED BY <1>2, <1>3

\* Each step keeps the parts in order, and none is written twice.
LEMMA StepParted ==
    ASSUME TeamType, BInv, Formation, Counter, Next,
           \A k \in DOMAIN cgraph : Parted(k), twice = {}
    PROVE  (\A k \in DOMAIN cgraph : Parted(k))' /\ twice' = {}
<1> DEFINE P == (\A k \in DOMAIN cgraph : Parted(k))' /\ twice' = {}
<1>1. /\ pc \in [Threads -> Labels] /\ node_n \in [Threads -> DOMAIN cgraph]
      /\ cur \in [Threads -> Nat] /\ 0 \in Threads /\ n_threads \in Nat /\ current_chunk \in Nat
      /\ Threads = 0 .. n_threads - 1 /\ DOMAIN cgraph \subseteq Nat /\ Threads \subseteq Nat
  BY TeamAssumption DEF TeamType, Threads
<1>2. ASSUME NEW v \in Threads, Passes(v) PROVE P
  <2>0. PICK n : n = node_n[v]
    OBVIOUS
  <2>1. /\ cgraph' = cgraph /\ written' = written /\ twice' = twice /\ current_chunk' = current_chunk
        /\ \A u \in Threads : u # v => /\ Here(u)' = Here(u) /\ (Past(u)' <=> Past(u))
                                       /\ pc'[u] = pc[u] /\ cur'[u] = cur[u]
        /\ n \in Nat
    BY <1>2, <2>0, Passing, TeamFacts
  <2>2. \A u \in Threads : u # v => \A k : Owes(u, k)' = Owes(u, k)
    BY <2>1, OwesStays
  <2>3. CASE pc[v] = "middle"
    <3>1. /\ pc'[v] \in {"gemv", "chunk"} /\ cur'[v] = v /\ Here(v) = n /\ Here(v)' = n
          /\ ~ Past(v) /\ Past(v)'
      BY <1>2, <2>0, <2>3, Passing
    <3>2. \A k \in Nat : Owes(v, k)' = Owes(v, k)
      BY <2>1, <2>3, <3>1 DEF Owes, Begun
    <3>3. \A k : InFront(k)' <=> InFront(k)
      BY <2>1, <3>1 DEF InFront
    <3>4. ASSUME NEW k \in DOMAIN cgraph PROVE GivenOut(k)' = GivenOut(k)
      <4>1. CASE ~ InFront(k)
        BY <3>3, <4>1 DEF GivenOut
      <4>2. CASE InFront(k) /\ k # n
        <5>1. (\E u \in Threads : Here(u)' = k /\ Past(u)') <=> (\E u \in Threads : Here(u) = k /\ Past(u))
          BY <2>1, <3>1, <4>2
        <5> QED BY <2>1, <3>3, <5>1 DEF GivenOut
      <4>3. CASE InFront(k) /\ k = n
        <5>1. GivenOut(k)' = 0 .. current_chunk - 1
          BY <2>1, <3>1, <3>3, <4>3 DEF GivenOut
        <5>2. GivenOut(k) = IF NonePast(n) THEN Threads ELSE 0 .. current_chunk - 1
          BY <4>3 DEF GivenOut, NonePast
        <5>3. NonePast(n) => current_chunk = n_threads
          BY <1>2, <2>0, <2>3, <4>3, CounterIsSet
        <5> QED BY <1>1, <5>1, <5>2, <5>3
      <4> QED BY <4>1, <4>2, <4>3
    <3>5. ASSUME NEW k \in DOMAIN cgraph PROVE Parted(k)'
      <4>1. GivenOut(k)' = GivenOut(k) /\ Parted(k) /\ \A u \in Threads : Owes(u, k)' = Owes(u, k)
        BY <1>1, <2>2, <3>2, <3>4
      <4> QED BY <2>1, <4>1, PartedStays
    <3> QED BY <2>1, <3>5
  <2>4. CASE pc[v] = "end"
    <3>1. pc'[v] = "status" /\ Here(v) = n /\ Here(v)' = n + 1 /\ ~ Past(v)'
      BY <1>2, <2>0, <2>4, Passing
    <3>2. \A k \in Nat : Owes(v, k)' = Owes(v, k)
      BY <2>1, <2>4, <3>1 DEF Owes, Begun
    <3>3. ASSUME NEW k \in DOMAIN cgraph, k # n PROVE GivenOut(k)' = GivenOut(k)
      <4>1. InFront(k)' <=> InFront(k)
        <5>1. k \in Nat
          BY <1>1
        <5> QED BY <2>1, <3>1, <3>3, <5>1 DEF InFront
      <4>2. (\E u \in Threads : Here(u)' = k /\ Past(u)') <=> (\E u \in Threads : Here(u) = k /\ Past(u))
        BY <2>1, <3>1, <3>3
      <4> QED BY <2>1, <4>1, <4>2 DEF GivenOut
    <3>4. GivenOut(n)' = Nat
      <4>1. ~ InFront(n)'
        BY <2>1, <3>1 DEF InFront
      <4> QED BY <4>1 DEF GivenOut
    <3>5. ASSUME NEW k \in DOMAIN cgraph PROVE Parted(k)'
      <4>1. Parted(k) /\ \A u \in Threads : Owes(u, k)' = Owes(u, k)
        BY <1>1, <2>2, <3>2
      <4>2. CASE k # n
        BY <2>1, <3>3, <4>1, <4>2, PartedStays
      <4>3. CASE k = n
        <5>1. \A i \in Nat : i \notin GivenOut(k) => Part(cgraph[k], i) = {}
          BY <1>2, <2>0, <2>4, <4>3, AllGiven DEF Node
        <5>2. GivenOut(k) \subseteq GivenOut(k)'
          <6>1. GivenOut(k) \subseteq Nat
            BY <1>1 DEF GivenOut
          <6> QED BY <3>4, <4>3, <6>1
        <5> QED BY <2>1, <3>4, <4>1, <4>3, <5>1, <5>2, PartedStays
      <4> QED BY <4>2, <4>3
    <3> QED BY <2>1, <3>5
  <2> QED BY <1>2, <2>3, <2>4 DEF Passes, Meet
<1>3. ASSUME \A v \in Threads : ~ Passes(v) PROVE P
  <2>1. \A u \in Threads : Here(u)' = Here(u) /\ (Past(u)' <=> Past(u))
    BY <1>3, PlacesStay
  <2>2. cgraph' = cgraph
    BY <1>1, <1>3, PlacesStay
  <2>3. ASSUME NEW v \in Threads, Compute(v) PROVE P
    <3>1. /\ pc[v] = "start" /\ ~ HandsOut(Node(v)) /\ Write(v, Share(Node(v), v))
          /\ pc' = [pc EXCEPT ![v] = "callback"] /\ cur' = cur /\ current_chunk' = current_chunk
      BY <2>3 DEF Compute, Jump, HandsOut
    <3>2. Owes(v, node_n[v]) = {v} /\ Here(v) = node_n[v] /\ v \in Nat
      BY <1>1, <3>1 DEF Owes, Here, Over, Begun
    <3>3. Share(Node(v), v) = Part(Node(v), v)
      BY <3>1, ShareIsPart
    <3>4. pc'[v] \in Begun \ {"gemv", "chunk"} /\ \A u \in Threads : u # v => pc'[u] = pc[u]
      BY <1>1, <3>1 DEF Begun
    <3> HIDE DEF P
    <3>5. (\A k \in DOMAIN cgraph : Parted(k))' /\ twice' = {}
      BY <2>1, <2>2, <3>1, <3>2, <3>3, <3>4, WriteParted
    <3> QED BY <3>5 DEF P
  <2>4. ASSUME NEW v \in Threads, Gemv(v) PROVE P
    <3>1. /\ pc[v] = "gemv" /\ ~ HandsOut(Node(v)) /\ Write(v, Share(Node(v), v)) /\ cur[v] = v
          /\ pc' = [pc EXCEPT ![v] = "callback"] /\ cur' = cur /\ current_chunk' = current_chunk
      BY <2>4, TeamFacts DEF Gemv, Jump, HandsOut, LabelFits
    <3>2. Owes(v, node_n[v]) = {v} /\ Here(v) = node_n[v] /\ v \in Nat
      BY <1>1, <3>1, TeamFacts DEF Owes, Here, Over, Begun
    <3>3. Share(Node(v), v) = Part(Node(v), v)
      BY <3>1, ShareIsPart
    <3>4. pc'[v] \in Begun \ {"gemv", "chunk"} /\ \A u \in Threads : u # v => pc'[u] = pc[u]
      BY <1>1, <3>1 DEF Begun
    <3> HIDE DEF P
    <3>5. (\A k \in DOMAIN cgraph : Parted(k))' /\ twice' = {}
      BY <2>1, <2>2, <3>1, <3>2, <3>3, <3>4, WriteParted
    <3> QED BY <3>5 DEF P
  <2>5. ASSUME NEW v \in Threads, OneChunk(v) PROVE P
    <3> DEFINE i == cur[v]
    <3>1. /\ pc[v] = "chunk" /\ cur' = cur /\ current_chunk' = current_chunk /\ i \in Nat
          /\ \/ i < NChunks(Node(v)) /\ Write(v, Chunk(Node(v), i))
             \/ ~ i < NChunks(Node(v)) /\ UNCHANGED <<written, twice>>
          /\ pc'[v] \in {"callback", "next"} /\ \A u \in Threads : u # v => pc'[u] = pc[u]
      BY <1>1, <2>5 DEF OneChunk, Jump
    <3>2. HandsOut(Node(v))
      BY <3>1, TeamFacts DEF LabelFits, HandsOut, Product, Node
    <3>3. Owes(v, node_n[v]) = {i} /\ Here(v) = node_n[v]
      BY <1>1, <3>1, TeamFacts DEF Owes, Here, Over, Begun
    <3>4. Part(Node(v), i) = IF i < NChunks(Node(v)) THEN Chunk(Node(v), i) ELSE {}
      BY <3>1, <3>2, ChunkIsPart
    <3>5. Write(v, Part(Node(v), i)) \/ (Part(Node(v), i) = {} /\ UNCHANGED <<written, twice>>)
      BY <3>1, <3>4
    <3>6. pc'[v] \in Begun \ {"gemv", "chunk"}
      BY <3>1 DEF Begun
    <3> HIDE DEF P
    <3>7. (\A k \in DOMAIN cgraph : Parted(k))' /\ twice' = {}
      <4> HIDE DEF i
      <4>1. Owes(v, node_n[v]) = {i} /\ i \in Nat
        BY <3>1, <3>3
      <4> QED BY <2>1, <2>2, <3>1, <3>3, <3>5, <3>6, <4>1, WriteParted
    <3> QED BY <3>7 DEF P
  <2>6. ASSUME NEW v \in Threads, NextChunk(v) PROVE P
    <3>0. PICK n : n = node_n[v]
      OBVIOUS
    <3>1. /\ pc[v] = "next" /\ cur' = [cur EXCEPT ![v] = current_chunk]
          /\ current_chunk' = current_chunk + 1 /\ pc' = [pc EXCEPT ![v] = "chunk"]
          /\ written' = written /\ twice' = twice
      BY <2>6 DEF NextChunk, Jump
    <3>2. Past(v) /\ at[v] = "out" /\ Here(v) = n /\ n \in Nat /\ Here(v)' = n /\ Past(v)' /\ InFront(n)
      <4>1. Past(v) /\ at[v] = "out" /\ Here(v) = n /\ n \in Nat
        BY <3>0, <3>1, TeamFacts DEF LabelFits, Past, Begun, Here, Over
      <4> QED BY <2>1, <4>1, Rest DEF InFront
    <3>3. \A u \in Threads : u # v => \A k : Owes(u, k)' = Owes(u, k)
      BY <1>1, <2>1, <3>1, OwesStays
    <3>4. \A k \in Nat : k # n => Owes(v, k)' = Owes(v, k)
      BY <3>1, <3>2 DEF Owes
    <3>5. Owes(v, n) = {} /\ Owes(v, n)' = {current_chunk}
      BY <1>1, <3>1, <3>2 DEF Owes, Begun
    <3>6. \A k : InFront(k)' <=> InFront(k)
      BY <2>1 DEF InFront
    <3>7. GivenOut(n) = 0 .. current_chunk - 1 /\ GivenOut(n)' = 0 .. (current_chunk + 1) - 1
      BY <3>1, <3>2, <3>6 DEF GivenOut
    <3>8. ASSUME NEW k \in DOMAIN cgraph, k # n PROVE GivenOut(k)' = GivenOut(k)
      <4>1. CASE ~ InFront(k)
        BY <3>6, <4>1 DEF GivenOut
      <4>2. CASE InFront(k)
        <5>1. n <= k /\ k \in Nat
          BY <1>1, <3>2, <4>2 DEF InFront
        <5>2. \A u \in Threads : Here(u) # k
          BY <3>2, <3>8, <5>1 DEF InFront
        <5> QED BY <2>1, <3>6, <4>2, <5>2 DEF GivenOut
      <4> QED BY <4>1, <4>2
    <3>9. ASSUME NEW k \in DOMAIN cgraph PROVE Parted(k)'
      <4>1. CASE k = n
        <5>1. current_chunk \notin GivenOut(k) /\ GivenOut(k)' = GivenOut(k) \cup {current_chunk}
          BY <1>1, <3>7, <4>1
        <5> QED BY <1>1, <2>2, <3>1, <3>3, <3>5, <4>1, <5>1, PartedTakes
      <4>2. CASE k # n
        <5>1. Parted(k) /\ GivenOut(k)' = GivenOut(k) /\ \A u \in Threads : Owes(u, k)' = Owes(u, k)
          BY <1>1, <3>3, <3>4, <3>8, <4>2
        <5> QED BY <2>2, <3>1, <5>1, PartedStays
      <4> QED BY <4>1, <4>2
    <3> QED BY <2>2, <3>1, <3>9
  <2>7. ASSUME written' = written, twice' = twice, \A k \in DOMAIN cgraph : GivenOut(k)' = GivenOut(k),
               \A u \in Threads : /\ pc'[u] \in Begun <=> pc[u] \in Begun
                                  /\ pc'[u] \in {"gemv", "chunk"} <=> pc[u] \in {"gemv", "chunk"}
                                  /\ cur'[u] = cur[u]
        PROVE  P
    <3>1. \A u \in Threads : \A k : Owes(u, k)' = Owes(u, k)
      BY <2>1, <2>7, OwesStays
    <3>2. ASSUME NEW k \in DOMAIN cgraph PROVE Parted(k)'
      <4>1. Parted(k) /\ GivenOut(k)' = GivenOut(k) /\ \A u \in Threads : Owes(u, k)' = Owes(u, k)
        BY <2>7, <3>1
      <4> QED BY <2>2, <2>7, <4>1, PartedStays
    <3> QED BY <2>2, <2>7, <3>2
  <2>8. CASE SetCounter
    <3>1. /\ pc[0] = "counter" /\ pc' = [pc EXCEPT ![0] = "middle"]
          /\ written' = written /\ twice' = twice /\ cur' = cur
      BY <2>8 DEF SetCounter, Jump
    <3>2. ASSUME NEW k \in DOMAIN cgraph PROVE GivenOut(k)' = GivenOut(k)
      <4>1. ASSUME InFront(k), NEW t \in Threads, Here(t) = k, Past(t) PROVE FALSE
        <5>1. Here(t) < Here(0) /\ Here(t) \in Nat /\ Here(0) \in Nat
          BY <3>1, <4>1, CounterFree
        <5> QED BY <1>1, <4>1, <5>1 DEF InFront
      <4>2. InFront(k)' <=> InFront(k)
        BY <2>1 DEF InFront
      <4>3. \A t \in Threads : Here(t)' = Here(t) /\ (Past(t)' <=> Past(t))
        BY <2>1
      <4> QED BY <4>1, <4>2, <4>3 DEF GivenOut
    <3>3. \A u \in Threads : /\ pc'[u] \in Begun <=> pc[u] \in Begun
                             /\ pc'[u] \in {"gemv", "chunk"} <=> pc[u] \in {"gemv", "chunk"}
                             /\ cur'[u] = cur[u]
      BY <1>1, <3>1 DEF Begun
    <3> HIDE DEF P
    <3> QED BY <2>7, <3>1, <3>2, <3>3
  <2>9. ASSUME ~ SetCounter,
               \A v \in Threads : ~ Compute(v) /\ ~ Gemv(v) /\ ~ OneChunk(v) /\ ~ NextChunk(v)
        PROVE  P
    <3> DEFINE Q == /\ written' = written /\ twice' = twice /\ current_chunk' = current_chunk
                    /\ \A u \in Threads : /\ pc'[u] \in Begun <=> pc[u] \in Begun
                                          /\ pc'[u] \in {"gemv", "chunk"} <=> pc[u] \in {"gemv", "chunk"}
                                          /\ cur'[u] = cur[u]
    <3>1. ASSUME NEW v \in Threads, Create(v) PROVE Q
      BY <1>1, <3>1 DEF Create, work, Begun
    <3>2. ASSUME Join PROVE Q
      BY <1>1, <3>2 DEF Join, Jump, work, Begun
    <3>3. ASSUME NEW v \in Threads, Convert(v) PROVE Q
      BY <1>1, <3>3 DEF Convert, AfterConvert, Jump, Begun
    <3>4. ASSUME NEW v \in Threads, Meet(v) PROVE Q
      BY <1>3, <3>4 DEF Meet, Passes
    <3>5. ASSUME NEW v \in Threads, Callback(v) PROVE Q
      BY <1>1, <3>5 DEF Callback, Jump, work, Begun
    <3>6. ASSUME NEW v \in Threads, Status(v) PROVE Q
      BY <1>1, <3>6 DEF Status, Jump, work, Begun
    <3>7. ASSUME Returned PROVE Q
      BY <3>7 DEF Returned, vars, work
    <3>8. Q
      BY <2>9, <3>1, <3>2, <3>3, <3>4, <3>5, <3>6, <3>7 DEF Next, Main, Step
    <3>9. \A k \in DOMAIN cgraph : GivenOut(k)' = GivenOut(k)
      BY <2>1, <3>8, GivenStays
    <3> HIDE DEF P
    <3> QED BY <2>7, <3>8, <3>9
  <2> HIDE DEF P
  <2> QED BY <2>3, <2>4, <2>5, <2>6, <2>8, <2>9
<1> HIDE DEF P
<1>4. P
  BY <1>2, <1>3
<1> QED BY <1>4 DEF P

-----------------------------------------------------------------------------
(* What the invariant says of a node that the team has left. *)

LEMMA NodeDone ==
    ASSUME NEW k, Parted(k), IsNode(cgraph[k]), ~ InFront(k), \A u \in Threads : Owes(u, k) = {}
    PROVE  written[k] = Elements(cgraph[k])
<1>1. GivenOut(k) = Nat
  BY DEF GivenOut
<1>2. \A i \in Nat : Part(cgraph[k], i) \subseteq written[k]
  BY <1>1 DEF Parted
<1>3. written[k] \subseteq Elements(cgraph[k])
  BY DEF Parted
<1> QED BY <1>2, <1>3, PartsCover

LEMMA InvReadsComplete == TeamInv => ReadsComplete
<1> SUFFICES ASSUME TeamInv PROVE ReadsComplete
  OBVIOUS
<1>0. /\ TeamType /\ BInv /\ Formation /\ Len(cgraph) \in Nat /\ DOMAIN cgraph = 1 .. Len(cgraph)
      /\ \A k \in DOMAIN cgraph : Parted(k) /\ IsNode(cgraph[k])
      /\ 0 \in Threads
  BY TeamAssumption DEF TeamInv, TeamType, Threads
<1>1. ASSUME NEW t \in Threads, pc[t] \in {"start", "chunk", "gemv"}, NEW k \in 1 .. node_n[t] - 1
      PROVE  written[k] = Elements(cgraph[k])
  <2>1. /\ at[t] = "out" /\ Here(t) = node_n[t] /\ node_n[t] \in Nat /\ node_n[t] <= Len(cgraph)
    BY <1>0, <1>1, TeamFacts DEF LabelFits, Here, Over
  <2>2. k \in DOMAIN cgraph /\ k \in Nat /\ k < Here(t) /\ ~ InFront(k)
    BY <1>0, <2>1 DEF InFront
  <2>3. ASSUME NEW u \in Threads PROVE Owes(u, k) = {}
    <3>1. Here(u) \in Nat /\ LabelFits(u)
      BY <1>0, TeamFacts DEF Here
    <3>2. CASE Here(u) = Here(t)
      BY <2>1, <2>2, <3>2 DEF Owes
    <3>3. CASE Here(t) = Here(u) + 1 /\ (Past(u) \/ ~ Product(Here(u))) /\ pc[u] \in {"middle", "end"}
      <4>1. Here(u) = node_n[u] /\ pc[u] = "end"
        BY <3>1, <3>3 DEF LabelFits, Here, Over, Past, Begun
      <4> QED BY <2>1, <2>2, <3>1, <3>3, <4>1 DEF Owes, Begun
    <3> QED BY <1>0, <2>1, <3>2, <3>3, Rest DEF Abreast, Behind
  <2> QED BY <1>0, <2>2, <2>3, NodeDone
<1>2. ASSUME pc[0] = "returned", ec = "success", NEW k \in DOMAIN cgraph
      PROVE  written[k] = Elements(cgraph[k])
  <2>1. ASSUME NEW u \in Threads PROVE Here(u) = Len(cgraph) + 1
    <3>1. pc[u] \in {"exit", "returned"}
      BY <1>0, <1>2 DEF TeamType
    <3> QED BY <1>0, <1>2, <3>1, TeamFacts DEF LabelFits, Here, Over
  <2>2. k \in Nat /\ k < Len(cgraph) + 1
    BY <1>0
  <2>3. \A u \in Threads : Owes(u, k) = {}
    BY <1>0, <2>1, <2>2 DEF Owes
  <2>4. ~ InFront(k)
    BY <1>0, <2>1, <2>2 DEF InFront
  <2> QED BY <1>0, <2>3, <2>4, NodeDone
<1> QED BY <1>1, <1>2 DEF ReadsComplete

LEMMA InvReadsConverted == TeamInv => ReadsConverted
<1> SUFFICES ASSUME TeamInv, NEW t \in Threads, pc[t] \in {"chunk", "gemv"}, Node(t).convert,
                    NEW r \in 0 .. Node(t).nr1 - 1
             PROVE  r \in DOMAIN wdata /\ wdata[r] = node_n[t]
  BY DEF ReadsConverted
<1>0. TeamType /\ BInv /\ Formation /\ Converted /\ n_threads \in Nat \ {0}
  BY TeamAssumption DEF TeamInv
<1>1. /\ at[t] = "out" /\ Here(t) = node_n[t] /\ Past(t) /\ Product(node_n[t])
      /\ Node(t).nr1 \in Nat /\ node_n[t] \in Nat
  BY <1>0, TeamFacts DEF LabelFits, Here, Over, Past, Begun, IsNode
<1>2. InFront(node_n[t])
  BY <1>0, <1>1, Rest DEF InFront
<1> DEFINE u == r % n_threads
<1>3. u \in Threads
  <2>1. r \in Int
    BY <1>1
  <2> QED BY <1>0, <2>1, DivMod DEF Threads
<1>4. node_n[u] = node_n[t] /\ pc[u] \in {"counter", "middle"} \cup Begun
  <2> HIDE DEF u
  <2>1. CASE Abreast(t, u)
    BY <1>1, <1>3, <2>1, PastAtNode DEF Abreast
  <2>2. CASE Behind(u, t) /\ pc[u] \in {"middle", "end"}
    BY <1>1, <2>2 DEF Behind, Here, Over, Begun
  <2> QED BY <1>0, <1>1, <1>3, <2>1, <2>2, Rest
<1>5. HasConverted(u) /\ InFront(node_n[u]) /\ r \in RowsOf(u)
  <2>1. Node(u) = Node(t)
    BY <1>4 DEF Node
  <2>2. r % n_threads = u
    OBVIOUS
  <2> HIDE DEF u
  <2> QED BY <1>1, <1>2, <1>4, <2>1, <2>2 DEF HasConverted, RowsOf
<1> HIDE DEF u
<1> QED BY <1>0, <1>3, <1>4, <1>5 DEF Converted

-----------------------------------------------------------------------------
LEMMA InitTeamInv == Init => TeamInv
<1> SUFFICES ASSUME Init PROVE TeamInv
  OBVIOUS
<1>1. BInv
  BY InitBInv DEF Init
<1>2. Converted
  BY DEF Init, Converted, HasConverted, Begun
<1> QED BY <1>1, <1>2, InitType, InitFormation, InitCounter, InitParted DEF TeamInv

LEMMA StepTeamInv == TeamInv /\ [Next]_vars => TeamInv'
<1> SUFFICES ASSUME TeamInv, [Next]_vars PROVE TeamInv'
  OBVIOUS
<1>0. /\ TeamType /\ BInv /\ Formation /\ Counter /\ Converted /\ twice = {}
      /\ \A k \in DOMAIN cgraph : Parted(k)
  BY DEF TeamInv
<1>1. CASE Next
  <2>1. BInv'
    <3>1. [BarrierNext]_barrier
      BY TeamStep
    <3>2. CASE BarrierNext
      BY <1>0, <3>2, StepBInv DEF BarrierNext
    <3>3. CASE UNCHANGED barrier
      BY <1>0, <3>3 DEF barrier, BInv, BarrierTypeOK, InStep, Counts, Waiting, Last
    <3> QED BY <3>1, <3>2, <3>3
  <2>2. TeamType' /\ Formation' /\ Counter' /\ Converted'
    BY <1>0, <1>1, StepType, StepFormation, StepCounter, StepConverted
  <2>3. (\A k \in DOMAIN cgraph : Parted(k))' /\ twice' = {}
    BY <1>0, <1>1, StepParted
  <2> QED BY <2>1, <2>2, <2>3 DEF TeamInv
<1>2. CASE UNCHANGED vars
  <2>1. /\ UNCHANGED <<cgraph, abort_callback, pc, node_n, ec, cur, current_chunk, wdata, written, twice>>
        /\ UNCHANGED <<n_barrier, n_barrier_passed, passed_old, at, crossed>>
    BY <1>2 DEF vars, barrier, work
  <2>2. BInv'
    BY <1>0, <2>1 DEF BInv, BarrierTypeOK, InStep, Counts, Waiting, Last
  <2>3. TeamType'
    BY <1>0, <2>1 DEF TeamType, LabelFits, Product, Node
  <2>4. /\ \A u \in Threads : Here(u)' = Here(u) /\ (Past(u)' <=> Past(u))
        /\ \A k : (InFront(k)' <=> InFront(k))
        /\ \A k : GivenOut(k)' = GivenOut(k)
        /\ \A u : \A k : Owes(u, k)' = Owes(u, k)
    BY <2>1 DEF Here, Past, Product, InFront, GivenOut, Owes
  <2>5. Formation'
    BY <1>0, <2>1, <2>4 DEF Formation, Abreast, Behind, Product
  <2>6. Counter'
    BY <1>0, <2>1 DEF Counter, InFront, Here, Past, Product, Node
  <2>7. Converted'
    BY <1>0, <2>1 DEF Converted, HasConverted, RowsOf, InFront, Here, Product, Node
  <2>8. (\A k \in DOMAIN cgraph : Parted(k))'
    BY <1>0, <2>1, <2>4, PartedStays
  <2> QED BY <1>0, <2>1, <2>2, <2>3, <2>5, <2>6, <2>7, <2>8 DEF TeamInv
<1> QED BY <1>1, <1>2

\* The labels, nodes, chunks and results are what they should be, and a thread
\* inside ggml_barrier has called it from the middle of a product or at the end
\* of a node (ggml.c, ggml_graph_compute_thread).
THEOREM TeamTypeCorrect == Spec => []TeamType
<1>1. TeamInv => TeamType
  BY DEF TeamInv
<1> QED BY <1>1, InitTeamInv, StepTeamInv, PTL DEF Spec

\* Chunks given out by number, chunks given out by the counter, stripes of rows
\* and columns of interleaved kernels: no element of a result is computed twice,
\* by any number of threads, whatever the graph and the size of a chunk, and
\* whether or not the callback aborts the computation.
THEOREM ElementsWrittenOnce == Spec => []WrittenOnce
<1>1. TeamInv => WrittenOnce
  BY DEF TeamInv, WrittenOnce
<1> QED BY <1>1, InitTeamInv, StepTeamInv, PTL DEF Spec

\* A thread that computes a node finds all earlier results complete, and the
\* rows it multiplies converted and not yet overwritten; a computation that
\* reports success has computed every element of every node.
THEOREM InputsReady == Spec => []ReadsReady
<1>1. TeamInv => ReadsReady
  BY InvReadsComplete, InvReadsConverted DEF ReadsReady
<1> QED BY <1>1, InitTeamInv, StepTeamInv, PTL DEF Spec

=============================================================================
