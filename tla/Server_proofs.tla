---------------------------- MODULE Server_proofs ----------------------------
(***************************************************************************)
(* The safety of the server's queues and slots, for any number of          *)
(* requests, prompts and slots: no task is lost or doubled on its way, a   *)
(* response ends once, and the loop sleeps only when there is nothing to   *)
(* do.                                                                     *)
(***************************************************************************)
EXTENDS Server, FiniteSetTheorems, FunctionTheorems, SequenceTheorems,
        WellFoundedInduction, TLAPS

\* What the first three need: decodes succeed, no request sets the system
\* prompt, and none with several prompts is streamed.  The README says what
\* happens otherwise.
Orderly ==
    /\ DecodeFails = FALSE
    /\ \A w \in Wants : \A c \in Clients : ~w[c].sys /\ (w[c].prompts > 1 => ~w[c].stream)

-----------------------------------------------------------------------------
(* The types of the variables.                                             *)

Ids      == Clients \X Nat
Kinds    == {"completion", "status", "action"}
Tasks    == [type : Kinds \cup {"cancel"}, id : Ids] \cup {Task("next", NoTask)}
Waits    == [type : {"completion", "action"}, id : Ids]
Results  == Ends \cup {"partial"}
SlotType == [state : {"idle", "processing"}, command : {"none", "load", "release"},
             task : Ids \cup {NoTask}, steps : Nat, inBatch : BOOLEAN]

Places == {"new", "posted", "post", "split", "stream", "recv", "answered", "gone",
           "complete", "leave", "done"}

HttpType ==
    /\ want \in Wants
    /\ handler \in [Clients -> Places]
    /\ posted \in [Clients -> Nat]

QueueType == queue \in Seq(Tasks) /\ deferred \in Seq(Waits)

ResultType ==
    /\ multis \in [Clients -> [open : BOOLEAN, left : SUBSET Ids, got : Seq(Ids \X Results)]]
    /\ waiting \subseteq Clients \X {0}
    /\ results \in [Clients -> Seq(Results)]

LoopType ==
    /\ slots \in [Slots -> SlotType]
    /\ visit \subseteq Slots /\ fed \subseteq Slots
    /\ main \in {"start", "tasks", "multis", "update", "prompts", "decode", "fail",
                 "wait", "asleep", "ended"}

TypeInv == HttpType /\ QueueType /\ ResultType /\ LoopType

-----------------------------------------------------------------------------
(* The inductive invariants.                                               *)

\* one more round of the loop has been asked for
NextPosted == \E i \in DOMAIN queue : queue[i].type = "next"

\* no slot could take what is deferred
Stuck == \A i \in DOMAIN deferred : Candidates(deferred[i].id) = {}

\* While the loop is in a round that has work it has asked for another, and
\* when it waits it has, or all slots are available.  What is deferred could
\* not run; so nothing deferred is forgotten when the slots become available.
Awake ==
    /\ main \in {"prompts", "decode", "fail"} => NextPosted
    /\ main \in {"wait", "asleep"} => NextPosted \/ \A s \in Slots : Available(s)
    /\ Stuck

\* A slot is released from work only, and loads from idle; the slots whose
\* prompts are still to be loaded load; tokens are in the batch only of a slot
\* at work, and only until the decoding has visited it.
SlotsInStep ==
    /\ main # "fail"
    /\ \A s \in Slots : slots[s].state = "idle" => slots[s].command # "release"
    /\ \A s \in Slots : slots[s].state = "processing" => slots[s].command # "load"
    /\ main = "prompts" =>
          \A s \in visit : slots[s].state = "idle" /\ slots[s].command = "load"
    /\ \A s \in Slots : slots[s].inBatch =>
          /\ slots[s].state = "processing" /\ slots[s].command = "none"
          /\ \/ main = "prompts" /\ s \in fed
             \/ main = "decode" /\ s \in visit

\* Prompts are posted in one place, all of them; a request is posted before it
\* is registered only for a slot action; a handler that goes on to wait is
\* registered.
InStage(c) ==
    /\ handler[c] \in {"new", "post"} => posted[c] = 0
    /\ posted[c] <= want[c].prompts
    /\ handler[c] = "split" => want[c].prompts > 1 /\ posted[c] < want[c].prompts
    /\ handler[c] = "posted" => want[c].kind = "action"
    /\ handler[c] \in {"post", "split", "stream", "recv"} => <<c, 0>> \in waiting

\* only a handler that leaves has asked for its task to be cancelled
Cancels(t) == t.type = "cancel" => handler[t.id[1]] \in {"leave", "done"}

Registered ==
    /\ \A c \in Clients : InStage(c)
    /\ \A i \in DOMAIN queue : Cancels(queue[i])

Total(id) == Holders(id) + Answers(id)

Served(c) == handler[c] \in {"split", "stream", "recv"} /\ want[c].kind # "action"

\* Each task is in no place before it is posted, in at most one place after, and
\* in exactly one while its result is waited for.
Accounted(c) ==
    \A k \in Nat :
       /\ Total(<<c, k>>) <= 1
       /\ <<c, k>> \notin PostedIds(c) =>
             Holders(<<c, k>>) = 0 /\ (k > 0 => Answers(<<c, k>>) = 0)
       /\ <<c, k>> \in PostedIds(c) /\ Served(c) => Total(<<c, k>>) = 1

\* A multitask remembers the subtasks that have not answered, and it is
\* open until all have.
Gathers(c) ==
    want[c].prompts > 1 /\ handler[c] \notin {"new", "post"} =>
       \A k \in 1 .. want[c].prompts :
          /\ multis[c].open => (<<c, k>> \in multis[c].left <=> Answers(<<c, k>>) = 0)
          /\ ~multis[c].open => Answers(<<c, k>>) = 1

\* The results of a request are parts, and then one that ends it.
EndsLast(c) == \A i \in 1 .. Len(results[c]) - 1 : results[c][i] = "partial"

Responds(c) ==
    /\ EndsLast(c)
    /\ handler[c] \in {"new", "post"} => results[c] = <<>> /\ ~multis[c].open
    /\ multis[c].open => want[c].prompts > 1 /\ results[c] = <<>>
    /\ handler[c] = "answered" =>
          /\ results[c] = <<>>
          /\ Holders(<<c, 0>>) = 0
          /\ ~multis[c].open

Sound(c) == Accounted(c) /\ Gathers(c) /\ Responds(c)

OrderlyInv == SlotsInStep /\ Registered /\ \A c \in Clients : Sound(c)

-----------------------------------------------------------------------------
(* What Occurrences counts.                                                *)

Where(seq, S) == {i \in DOMAIN seq : seq[i] \in S}

LEMMA OccWhere == \A seq, S : Occurrences(seq, S) = Cardinality(Where(seq, S))
BY DEF Occurrences, Where

\* Moving a set of integers does not change how many they are.
LEMMA Shifted ==
    ASSUME NEW A \in SUBSET Int, IsFiniteSet(A), NEW k \in Int
    PROVE  LET B == {i + k : i \in A}
           IN  IsFiniteSet(B) /\ Cardinality(B) = Cardinality(A)
<1> DEFINE B == {i + k : i \in A}
           f == [i \in A |-> i + k]
<1>1. f \in Bijection(A, B)
  <2>1. f \in [A -> B]
    OBVIOUS
  <2>2. \A i, j \in A : f[i] = f[j] => i = j
    OBVIOUS
  <2>3. \A m \in B : \E i \in A : f[i] = m
    OBVIOUS
  <2> HIDE DEF f, B
  <2> QED BY <2>1, <2>2, <2>3, Fun_IsBij
<1>2. ExistsBijection(A, B)
  <2> HIDE DEF f, B
  <2> QED BY <1>1, Fun_ExistsBij
<1> QED BY <1>2, FS_Bijection

\* The places counted are finitely many.
LEMMA OccType ==
    ASSUME NEW T, NEW seq \in Seq(T), NEW S
    PROVE  /\ IsFiniteSet(Where(seq, S)) /\ Cardinality(Where(seq, S)) \in Nat
           /\ Occurrences(seq, S) \in Nat
           /\ Occurrences(seq, S) = 0 <=> \A i \in DOMAIN seq : seq[i] \notin S
<1>1. DOMAIN seq = 1 .. Len(seq) /\ Len(seq) \in Nat
  BY LenProperties
<1>2. IsFiniteSet(DOMAIN seq)
  BY <1>1, FS_Interval
<1>3. Where(seq, S) \subseteq DOMAIN seq
  BY DEF Where
<1>4. IsFiniteSet(Where(seq, S))
  BY <1>2, <1>3, FS_Subset
<1>5. /\ Cardinality(Where(seq, S)) \in Nat
      /\ Cardinality(Where(seq, S)) = 0 <=> Where(seq, S) = {}
  BY <1>4, FS_CardinalityType, FS_EmptySet
<1>6. Where(seq, S) = {} <=> \A i \in DOMAIN seq : seq[i] \notin S
  BY DEF Where
<1> QED BY <1>4, <1>5, <1>6, OccWhere

\* There is nothing in an empty queue.
LEMMA OccEmpty == \A S : Occurrences(<<>>, S) = 0
<1> SUFFICES ASSUME NEW S PROVE Occurrences(<<>>, S) = 0
  OBVIOUS
<1>1. Where(<<>>, S) = {}
  BY DEF Where
<1> QED BY <1>1, FS_EmptySet, OccWhere

\* What is appended is counted once more.
LEMMA OccAppend ==
    ASSUME NEW T, NEW seq \in Seq(T), NEW e \in T, NEW S
    PROVE  Occurrences(Append(seq, e), S) = Occurrences(seq, S) + (IF e \in S THEN 1 ELSE 0)
<1> DEFINE n == Len(seq)
           P == Where(seq, S)
           Q == Where(Append(seq, e), S)
<1>1. DOMAIN seq = 1 .. n /\ n \in Nat
  BY LenProperties
<1>2. DOMAIN Append(seq, e) = 1 .. n + 1
  BY AppendProperties, LenProperties
<1>3. /\ \A i \in 1 .. n : Append(seq, e)[i] = seq[i]
      /\ Append(seq, e)[n + 1] = e
  BY AppendProperties
<1>4. Q = IF e \in S THEN P \cup {n + 1} ELSE P
  <2> HIDE DEF n
  <2>1. 1 .. n + 1 = (1 .. n) \cup {n + 1} /\ n + 1 \notin 1 .. n
    BY <1>1
  <2> QED BY <1>1, <1>2, <1>3, <2>1 DEF Where
<1>5. n + 1 \notin P /\ IsFiniteSet(P) /\ Cardinality(P) \in Nat
  <2>1. n + 1 \notin P
    BY <1>1 DEF Where
  <2> QED BY <2>1, OccType
<1>6. Cardinality(P \cup {n + 1}) = Cardinality(P) + 1
  BY <1>5, FS_AddElement
<1>7. Cardinality(Q) = Cardinality(P) + (IF e \in S THEN 1 ELSE 0)
  <2> HIDE DEF P, Q, n
  <2> QED BY <1>4, <1>5, <1>6
<1> QED BY <1>7, OccWhere

\* The head is counted, and then the rest.
LEMMA OccTail ==
    ASSUME NEW T, NEW seq \in Seq(T), seq # <<>>, NEW S
    PROVE  Occurrences(seq, S) = Occurrences(Tail(seq), S) + (IF Head(seq) \in S THEN 1 ELSE 0)
<1> DEFINE n == Len(seq)
           t == Tail(seq)
           P == Where(t, S)
           P1 == {i + 1 : i \in P}
           Q == Where(seq, S)
<1>1. DOMAIN seq = 1 .. n /\ n \in Nat /\ n # 0
  BY LenProperties, EmptySeq
<1>2. t \in Seq(T) /\ DOMAIN t = 1 .. n - 1 /\ \A i \in 1 .. n - 1 : t[i] = seq[i + 1]
  BY HeadTailProperties, LenProperties
<1>3. Head(seq) = seq[1]
  OBVIOUS
<1>4. IsFiniteSet(P) /\ Cardinality(P) \in Nat /\ P \in SUBSET Int
  <2>1. P \in SUBSET Int
    BY <1>2 DEF Where
  <2> HIDE DEF t
  <2> QED BY <1>2, <2>1, OccType
<1>5. IsFiniteSet(P1) /\ Cardinality(P1) = Cardinality(P)
  <2> HIDE DEF P
  <2>1. 1 \in Int
    OBVIOUS
  <2> QED BY <1>4, <2>1, Shifted
<1>6. P1 = {i \in 2 .. n : seq[i] \in S}
  <2> HIDE DEF n, t
  <2>1. ASSUME NEW i \in 2 .. n, seq[i] \in S PROVE i \in P1
    <3>1. i - 1 \in 1 .. n - 1 /\ t[i - 1] = seq[i]
      BY <1>1, <1>2
    <3>2. i - 1 \in P
      BY <2>1, <3>1, <1>2 DEF Where
    <3> QED BY <3>2
  <2>2. ASSUME NEW i \in P PROVE i + 1 \in 2 .. n /\ seq[i + 1] \in S
    BY <1>1, <1>2, <2>2 DEF Where
  <2> QED BY <2>1, <2>2
<1>7. Q = IF Head(seq) \in S THEN P1 \cup {1} ELSE P1
  <2> HIDE DEF n, t, P1
  <2>1. 1 .. n = {1} \cup (2 .. n) /\ 1 \notin 2 .. n
    BY <1>1
  <2> QED BY <1>1, <1>3, <1>6, <2>1 DEF Where
<1>8. Cardinality(P1 \cup {1}) = Cardinality(P1) + 1
  <2>1. 1 \notin P1
    BY <1>6
  <2> HIDE DEF P1
  <2> QED BY <2>1, <1>5, FS_AddElement
<1>9. Cardinality(Q) = Cardinality(P) + (IF Head(seq) \in S THEN 1 ELSE 0)
  <2> HIDE DEF P, P1, Q, n, t
  <2> QED BY <1>4, <1>5, <1>7, <1>8
<1> QED BY <1>9, OccWhere

\* Two queues put together are counted together.
LEMMA OccConcat ==
    ASSUME NEW T, NEW s \in Seq(T), NEW t \in Seq(T), NEW S
    PROVE  Occurrences(s \o t, S) = Occurrences(s, S) + Occurrences(t, S)
<1> DEFINE m == Len(s)
           n == Len(t)
           P == Where(s, S)
           R == Where(t, S)
           R1 == {i + m : i \in R}
           Q == Where(s \o t, S)
<1>1. /\ DOMAIN s = 1 .. m /\ m \in Nat
      /\ DOMAIN t = 1 .. n /\ n \in Nat
  BY LenProperties
<1>2. /\ DOMAIN (s \o t) = 1 .. m + n
      /\ \A i \in 1 .. m + n : (s \o t)[i] = IF i <= m THEN s[i] ELSE t[i - m]
  BY ConcatProperties, LenProperties
<1>3. /\ IsFiniteSet(P) /\ Cardinality(P) \in Nat
      /\ IsFiniteSet(R) /\ Cardinality(R) \in Nat /\ R \in SUBSET Int
  <2>1. R \in SUBSET Int
    BY <1>1 DEF Where
  <2> QED BY <2>1, OccType
<1>4. IsFiniteSet(R1) /\ Cardinality(R1) = Cardinality(R)
  <2>1. m \in Int
    BY <1>1
  <2> HIDE DEF R, m
  <2> QED BY <1>3, <2>1, Shifted
<1>5. Q = P \cup R1
  <2> DEFINE u == s \o t
  <2> USE DEF Where
  <2> HIDE DEF m, n, u
  <2>1. ASSUME NEW i \in Q PROVE i \in P \cup R1
    <3>1. CASE i <= m
      BY <1>1, <1>2, <2>1, <3>1 DEF u
    <3>2. CASE i > m
      <4>1. i - m \in 1 .. n /\ t[i - m] \in S
        BY <1>1, <1>2, <2>1, <3>2 DEF u
      <4>2. i = (i - m) + m
        BY <1>1, <1>2, <2>1
      <4> QED BY <1>1, <4>1, <4>2
    <3> QED BY <1>1, <1>2, <2>1, <3>1, <3>2
  <2>2. ASSUME NEW i \in P PROVE i \in Q
    BY <1>1, <1>2, <2>2 DEF u
  <2>3. ASSUME NEW i \in R PROVE i + m \in Q
    BY <1>1, <1>2, <2>3 DEF u
  <2> QED BY <2>1, <2>2, <2>3
<1>6. P \cap R1 = {}
  <2> HIDE DEF m, n
  <2> QED BY <1>1 DEF Where
<1>7. Cardinality(P \cup R1) = Cardinality(P) + Cardinality(R1) - Cardinality(P \cap R1)
  <2> HIDE DEF P, R1
  <2> QED BY <1>3, <1>4, FS_Union
<1>8. Cardinality(P \cap R1) = 0
  BY <1>6, FS_EmptySet
<1>9. Cardinality(Q) = Cardinality(P) + Cardinality(R)
  <2> HIDE DEF P, Q, R, R1
  <2> QED BY <1>3, <1>4, <1>5, <1>7, <1>8
<1> QED BY <1>9, OccWhere

-----------------------------------------------------------------------------
(* The types.                                                              *)

\* What a request asks for is a request.
LEMMA WantType == ASSUME HttpType, NEW c \in Clients PROVE want[c] \in Request
BY ServerAssumption DEF HttpType

\* The initial state has the types.
LEMMA InitType == Init => TypeInv
<1> SUFFICES ASSUME Init PROVE TypeInv
  OBVIOUS
<1>1. HttpType
  BY DEF Init, HttpType, Places
<1>2. QueueType
  BY EmptySeq DEF Init, QueueType
<1>3. ResultType
  BY EmptySeq DEF Init, ResultType
<1>4. LoopType
  BY DEF Init, LoopType, SlotType
<1> QED BY <1>1, <1>2, <1>3, <1>4 DEF TypeInv

\* A result goes to a request or to its multitask.
LEMMA SendType ==
    ASSUME ResultType, NEW id \in Ids \cup {NoTask}, NEW r \in Results, Send(id, r),
           waiting' = waiting
    PROVE  ResultType'
<1> USE DEF ResultType
<1>1. results' \in [Clients -> Seq(Results)]
  <2>1. CASE Reaches(id)
    <3>1. id[1] \in Clients
      BY <2>1 DEF Reaches
    <3>2. Append(results[id[1]], r) \in Seq(Results)
      BY <3>1, AppendProperties
    <3> QED BY <2>1, <3>1, <3>2 DEF Send
  <2>2. CASE ~Reaches(id)
    BY <2>2 DEF Send
  <2> QED BY <2>1, <2>2
<1>2. multis' \in [Clients -> [open : BOOLEAN, left : SUBSET Ids, got : Seq(Ids \X Results)]]
  <2>1. CASE id[2] # 0 /\ <<id[1], 0>> \in waiting /\ multis[id[1]].open
    <3>1. id[1] \in Clients /\ id \in Ids
      BY <2>1, ServerAssumption DEF NoTask
    <3>2. Append(multis[id[1]].got, <<id, r>>) \in Seq(Ids \X Results)
      BY <3>1, AppendProperties
    <3> QED BY <2>1, <3>1, <3>2, ZenonT(60) DEF Send, Gathered
  <2>2. CASE ~(id[2] # 0 /\ <<id[1], 0>> \in waiting /\ multis[id[1]].open)
    BY <2>2 DEF Send
  <2> QED BY <2>1, <2>2
<1> QED BY <1>1, <1>2

\* One more task of a request in the queue.
LEMMA PostType ==
    ASSUME QueueType, NEW type \in Kinds \cup {"cancel"}, NEW id \in Ids,
           queue' = Append(queue, Task(type, id)), deferred' = deferred
    PROVE  QueueType'
<1>1. Task(type, id) \in Tasks
  BY DEF Task, Tasks
<1> QED BY <1>1, AppendProperties DEF QueueType

\* The handlers keep the types.
LEMMA HandleType == ASSUME TypeInv, NEW c \in Clients, Handle(c) PROVE TypeInv'
<1> USE DEF TypeInv
<1>0. /\ want[c] \in Request /\ posted[c] \in Nat
      /\ \A k \in Nat : <<c, k>> \in Ids
      /\ want[c].kind \in Kinds
  BY WantType DEF HttpType, Ids, Request, Kinds
<1>1. ASSUME NEW from, NEW to \in Places, Step(c, from, to), UNCHANGED <<want, posted>>
      PROVE  HttpType'
  BY <1>1 DEF Step, HttpType
<1>2. UNCHANGED <<slots, visit, fed, main>> => LoopType'
  BY DEF LoopType
<1>3. UNCHANGED <<multis, waiting, results>> => ResultType'
  BY DEF ResultType
<1>4. UNCHANGED <<queue, deferred>> => QueueType'
  BY DEF QueueType
<1> USE DEF queues, loop, stop, Places
<1>5. CASE Register(c)
  BY <1>1, <1>2, <1>4, <1>5 DEF Register, ResultType
<1>6. CASE Post(c)
  <2>1. HttpType'
    BY <1>1, <1>6 DEF Post, Sent
  <2>2. QueueType'
    BY <1>0, <1>6, PostType DEF Post
  <2> QED BY <1>2, <1>3, <1>6, <2>1, <2>2 DEF Post
<1>7. CASE AddMultitask(c)
  <2>1. HttpType' /\ QueueType' /\ LoopType'
    BY <1>1, <1>2, <1>4, <1>7 DEF AddMultitask
  <2>2. Subs(c) \in SUBSET Ids /\ <<>> \in Seq(Ids \X Results)
    BY <1>0, EmptySeq DEF Subs, Request
  <2>3. ResultType'
    BY <1>7, <2>2 DEF AddMultitask, ResultType
  <2> QED BY <2>1, <2>3
<1>8. CASE PostSubtask(c)
  <2>1. HttpType'
    BY <1>0, <1>8 DEF PostSubtask, Step, Sent, HttpType
  <2>2. QueueType'
    BY <1>0, <1>8, PostType DEF PostSubtask, Kinds
  <2> QED BY <1>2, <1>3, <1>8, <2>1, <2>2 DEF PostSubtask
<1>9. CASE OpenStream(c)
  BY <1>1, <1>2, <1>3, <1>4, <1>9 DEF OpenStream
<1>10. CASE Recv(c)
  <2>1. Tail(results[c]) \in Seq(Results)
    BY <1>10, HeadTailProperties DEF Recv, ResultType
  <2>2. ResultType'
    BY <1>10, <2>1 DEF Recv, ResultType
  <2> QED BY <1>1, <1>2, <1>4, <1>10, <2>2 DEF Recv
<1>11. CASE Forget(c)
  BY <1>1, <1>2, <1>4, <1>11 DEF Forget, ResultType
<1>12. CASE RequestCancel(c)
  <2>1. QueueType'
    BY <1>0, <1>12, PostType DEF RequestCancel
  <2> QED BY <1>1, <1>2, <1>3, <1>12, <2>1 DEF RequestCancel
<1>13. CASE Leave(c)
  BY <1>1, <1>2, <1>4, <1>13 DEF Leave, ResultType
<1> QED BY <1>5, <1>6, <1>7, <1>8, <1>9, <1>10, <1>11, <1>12, <1>13 DEF Handle

\* The head of the queue, when the main thread takes it.
LEMMA TakeType ==
    ASSUME QueueType, NEW type, Working(type)
    PROVE  /\ Head(queue) \in Tasks /\ Tail(queue) \in Seq(Tasks)
           /\ type \in Kinds \cup {"cancel"} => Head(queue).id \in Ids
           /\ type = "next" => Head(queue) = Task("next", NoTask)
<1>1. queue # <<>> /\ queue \in Seq(Tasks) /\ Head(queue).type = type
  BY DEF Working, QueueType
<1>2. Head(queue) \in Tasks /\ Tail(queue) \in Seq(Tasks)
  BY <1>1, HeadTailProperties
<1> QED BY <1>1, <1>2 DEF Tasks, Task, Kinds

\* A slot that is released or fails is a slot.
LEMMA SlotTypes ==
    ASSUME NEW sl \in SlotType
    PROVE  Released(sl) \in SlotType /\ FailedSlot(sl) \in SlotType
BY DEF SlotType, Released, FailedSlot

\* The tasks keep the types.
LEMMA ProcessType == ASSUME TypeInv, ProcessTask PROVE TypeInv'
<1> USE DEF TypeInv
<1>1. UNCHANGED http => HttpType'
  BY DEF http, HttpType
<1>2. UNCHANGED <<multis, waiting, results>> => ResultType'
  BY DEF ResultType
<1>3. UNCHANGED <<slots, loop>> => LoopType'
  BY DEF loop, LoopType
<1>4. ASSUME NEW type, Working(type), TakeTask PROVE QueueType'
  BY <1>4, TakeType DEF TakeTask, QueueType
<1>5. ASSUME NEW type \in Kinds, Working(type) PROVE
        /\ Head(queue).id \in Ids
        /\ \A s \in Slots : Prompted(Head(queue).id)[s] \in SlotType
        /\ Prompted(Head(queue).id) \in [Slots -> SlotType]
  BY <1>5, TakeType, SlotTypes DEF Prompted, LoopType
<1> USE DEF Kinds, SendNothing, loop
<1>6. CASE DeferRequest
  <2>1. PICK type \in {"completion", "action"} : Working(type)
    BY <1>6 DEF DeferRequest
  <2>2. Head(queue) \in Waits
    BY <2>1, TakeType DEF Waits, Tasks, Task, Working, QueueType, NoTask
  <2>3. QueueType'
    BY <1>6, <2>1, <2>2, TakeType, AppendProperties DEF DeferRequest, DeferTask, QueueType
  <2> QED BY <1>1, <1>2, <1>3, <1>6, <2>3 DEF DeferRequest
<1>7. CASE Launch
  <2>1. LoopType'
    <3>1. PICK s \in Candidates(Head(queue).id) :
             slots' = [Prompted(Head(queue).id) EXCEPT
                      ![s].task = Head(queue).id, ![s].command = "load", ![s].steps = 0]
      BY <1>7 DEF Launch
    <3> DEFINE P == Prompted(Head(queue).id)
    <3>2. P \in [Slots -> SlotType] /\ Head(queue).id \in Ids /\ s \in Slots
      BY <1>5, <1>7 DEF Launch, Candidates
    <3> HIDE DEF P
    <3>3. [P[s] EXCEPT !.task = Head(queue).id, !.command = "load", !.steps = 0] \in SlotType
      BY <3>2 DEF SlotType
    <3>4. slots' = [P EXCEPT ![s] =
                [P[s] EXCEPT !.task = Head(queue).id, !.command = "load", !.steps = 0]]
      BY <3>1, <3>2 DEF P
    <3>5. slots' \in [Slots -> SlotType]
      BY <3>2, <3>3, <3>4
    <3> QED BY <1>7, <3>5 DEF Launch, LoopType
  <2> QED BY <1>1, <1>2, <1>4, <1>7, <2>1 DEF Launch
<1>8. CASE LaunchRejected
  <2>1. LoopType'
    <3>1. PICK s \in Candidates(Head(queue).id) :
             slots' = [Prompted(Head(queue).id) EXCEPT ![s].task = Head(queue).id]
      BY <1>8 DEF LaunchRejected
    <3> DEFINE P == Prompted(Head(queue).id)
    <3>2. P \in [Slots -> SlotType] /\ Head(queue).id \in Ids /\ s \in Slots
      BY <1>5, <1>8 DEF LaunchRejected, Candidates
    <3> HIDE DEF P
    <3>3. [P[s] EXCEPT !.task = Head(queue).id] \in SlotType
      BY <3>2 DEF SlotType
    <3>4. slots' = [P EXCEPT ![s] = [P[s] EXCEPT !.task = Head(queue).id]]
      BY <3>1, <3>2 DEF P
    <3>5. slots' \in [Slots -> SlotType]
      BY <3>2, <3>3, <3>4
    <3> QED BY <1>8, <3>5 DEF LaunchRejected, LoopType
  <2>2. ResultType'
    BY <1>5, <1>8, SendType DEF LaunchRejected, Results, Ends
  <2> QED BY <1>1, <1>4, <1>8, <2>1, <2>2 DEF LaunchRejected
<1>9. CASE CancelTask
  <2>1. ReleaseCancelled(Head(queue).id) \in [Slots -> SlotType]
    BY SlotTypes DEF ReleaseCancelled, LoopType
  <2>2. LoopType'
    BY <1>9, <2>1 DEF CancelTask, LoopType
  <2> QED BY <1>1, <1>2, <1>4, <1>9, <2>2 DEF CancelTask
<1>10. CASE NextResponse
  BY <1>1, <1>2, <1>3, <1>4, <1>10 DEF NextResponse
<1>11. CASE StatusTask
  <2>1. ResultType'
    BY <1>5, <1>11, SendType DEF StatusTask, Results, Ends
  <2> QED BY <1>1, <1>3, <1>4, <1>11, <2>1 DEF StatusTask
<1>12. CASE SlotAction
  <2>1. ResultType'
    BY <1>5, <1>12, SendType DEF SlotAction, Results, Ends
  <2> QED BY <1>1, <1>3, <1>4, <1>12, <2>1 DEF SlotAction
<1> QED BY <1>6, <1>7, <1>8, <1>9, <1>10, <1>11, <1>12 DEF ProcessTask

\* The rest of the loop keeps the types.
LEMMA LoopKeepsType == ASSUME TypeInv, MainStep, ~ProcessTask PROVE TypeInv'
<1> USE DEF TypeInv, stop, queues
<1>1. UNCHANGED http => HttpType'
  BY DEF http, HttpType
<1>2. UNCHANGED <<multis, waiting, results>> => ResultType'
  BY DEF ResultType
<1>3. UNCHANGED queues => QueueType'
  BY DEF QueueType
<1>4. CASE StartLoop \/ TasksDone \/ MultitasksDone \/ DecodeDone \/ FailDone \/ Decide \/ Wake
  <2>1. LoopType'
    BY <1>4 DEF StartLoop, TasksDone, MultitasksDone, DecodeDone, FailDone, Decide, Wake,
                Goto, LoopType
  <2> QED BY <1>1, <1>2, <1>3, <1>4, <2>1 DEF StartLoop, TasksDone, MultitasksDone,
                DecodeDone, FailDone, Decide, Wake
<1>5. ASSUME NEW c \in Clients, FinishMultitask(c) PROVE TypeInv'
  <2>1. Append(results[c], "final") \in Seq(Results)
    BY AppendProperties DEF ResultType, Results, Ends
  <2>2. ResultType'
    BY <1>5, <2>1 DEF FinishMultitask, ResultType
  <2> QED BY <1>1, <1>3, <1>5, <2>2 DEF FinishMultitask, LoopType, loop
<1>6. CASE UpdateSlots
  <2> DEFINE freed == {s \in Slots : slots[s].command = "release"}
             now   == [s \in Slots |-> IF s \in freed
                    THEN [slots[s] EXCEPT !.state = "idle", !.command = "none"]
                    ELSE slots[s]]
             moved == IF freed = {} THEN queues ELSE Notified
             going == {s \in Slots : now[s].state = "processing"}
             loads == {s \in Slots : now[s].state = "idle" /\ now[s].command = "load"}
  <2>1. now \in [Slots -> SlotType]
    BY DEF LoopType, SlotType
  <2>2. moved[1] \in Seq(Tasks) /\ moved[2] \in Seq(Waits)
    <3>1. queue \in Seq(Tasks) /\ deferred \in Seq(Waits) /\ Waits \subseteq Tasks
      BY DEF QueueType, Waits, Tasks, Kinds
    <3>2. deferred \in Seq(Tasks)
      BY <3>1, SeqMonotonic
    <3>3. queue \o deferred \in Seq(Tasks) /\ <<>> \in Seq(Waits)
      BY <3>1, <3>2, ConcatProperties, EmptySeq
    <3> QED BY <3>1, <3>3 DEF Notified
  <2>3. Task("next", NoTask) \in Tasks
    BY DEF Tasks
  <2>4. PostsNext(moved[1]) \in Seq(Tasks)
    <3> HIDE DEF moved
    <3> QED BY <2>2, <2>3, AppendProperties DEF PostsNext
  <2>5. QueueType'
    <3>1. deferred' = moved[2] /\ queue' \in {moved[1], PostsNext(moved[1])}
      BY <1>6 DEF UpdateSlots
    <3> HIDE DEF moved
    <3> QED BY <3>1, <2>2, <2>4 DEF QueueType
  <2>6. LoopType'
    <3>1. /\ slots' \in {now, [s \in Slots |-> IF s \in going
                               THEN [now[s] EXCEPT !.inBatch = TRUE] ELSE now[s]]}
          /\ visit' \subseteq Slots /\ fed' \subseteq Slots
          /\ main' \in {"wait", "prompts"}
      BY <1>6 DEF UpdateSlots, Goto, LoopType
    <3> HIDE DEF now, going
    <3>2. \A s \in Slots : [now[s] EXCEPT !.inBatch = TRUE] \in SlotType
      BY <2>1 DEF SlotType
    <3>3. slots' \in [Slots -> SlotType]
      BY <2>1, <3>1, <3>2
    <3> QED BY <3>1, <3>3 DEF LoopType
  <2> QED BY <1>1, <1>2, <1>6, <2>5, <2>6 DEF UpdateSlots
<1>7. ASSUME NEW s \in Slots, LoadPrompt(s) PROVE TypeInv'
  <2> DEFINE sizes == IF slots[s].steps = 0 THEN 1 .. MaxSteps ELSE {slots[s].steps}
  <2>1. sizes \subseteq Nat \ {0} /\ MaxSteps \in Nat \ {0} /\ slots[s] \in SlotType
    BY ServerAssumption DEF LoopType, SlotType
  <2>2. visit' \subseteq Slots /\ fed' \subseteq Slots /\ main' = main
    BY <1>7 DEF LoadPrompt, LoopType
  <2>3. slots' \in [Slots -> SlotType]
    <3>1. CASE slots' = [slots EXCEPT ![s].state = "processing", ![s].command = "release",
                                    ![s].steps = 1]
      <4>1. [slots[s] EXCEPT !.state = "processing", !.command = "release",
                             !.steps = 1] \in SlotType
        BY <2>1 DEF SlotType
      <4> QED BY <3>1, <4>1 DEF LoopType
    <3>2. CASE \E n \in sizes \cup {slots[s].steps} : slots' = [slots EXCEPT ![s].steps = n]
      BY <2>1, <3>2 DEF LoopType, SlotType
    <3>3. CASE \E n \in sizes \ {1} : slots' = [slots EXCEPT ![s].steps = n - 1]
      <4>1. PICK n \in sizes \ {1} : slots' = [slots EXCEPT ![s].steps = n - 1]
        BY <3>3
      <4>2. n - 1 \in Nat
        BY <2>1
      <4> QED BY <2>1, <4>1, <4>2 DEF LoopType, SlotType
    <3>4. CASE \E n \in 1 .. MaxSteps :
                slots' = [slots EXCEPT ![s].state = "processing", ![s].command = "none",
                                       ![s].steps = n, ![s].inBatch = TRUE]
      <4>1. PICK n \in 1 .. MaxSteps :
                slots' = [slots EXCEPT ![s].state = "processing", ![s].command = "none",
                                       ![s].steps = n, ![s].inBatch = TRUE]
        BY <3>4
      <4>2. [slots[s] EXCEPT !.state = "processing", !.command = "none", !.steps = n,
                             !.inBatch = TRUE] \in SlotType
        <5>1. n \in Nat /\ TRUE \in BOOLEAN
          BY <2>1
        <5> HIDE DEF sizes
        <5> QED BY <2>1, <5>1 DEF SlotType
      <4> QED BY <4>1, <4>2 DEF LoopType
    <3> QED BY <1>7, <3>1, <3>2, <3>3, <3>4 DEF LoadPrompt
  <2>4. ResultType'
    <3>1. slots[s].task \in Ids \cup {NoTask}
      BY <2>1 DEF SlotType
    <3>2. CASE SendNothing
      BY <1>2, <1>7, <3>2 DEF LoadPrompt, SendNothing
    <3>3. CASE \E r \in {"final", "error"} : Send(slots[s].task, r)
      BY <1>7, <3>1, <3>3, SendType DEF LoadPrompt, Results, Ends
    <3> QED BY <1>7, <3>2, <3>3 DEF LoadPrompt
  <2> QED BY <1>1, <1>3, <1>7, <2>2, <2>3, <2>4 DEF LoadPrompt, LoopType
<1>8. CASE PromptsDone
  <2>1. LoopType'
    BY <1>8 DEF PromptsDone, Goto, LoopType
  <2> QED BY <1>1, <1>2, <1>3, <1>8, <2>1 DEF PromptsDone
<1>9. ASSUME NEW s \in Slots, Prefilled(s) PROVE TypeInv'
  BY <1>1, <1>2, <1>3, <1>9 DEF Prefilled, LoopType
<1>10. ASSUME NEW s \in Slots, Sample(s) PROVE TypeInv'
  <2>1. slots[s] \in SlotType /\ slots[s].steps - 1 \in Nat
    BY <1>10 DEF Sample, LoopType, SlotType
  <2>2. LoopType'
    BY <1>10, <2>1 DEF Sample, LoopType, SlotType
  <2>3. ResultType'
    BY <1>2, <1>10, <2>1, SendType DEF Sample, SendNothing, Results, SlotType
  <2> QED BY <1>1, <1>3, <1>10, <2>2, <2>3 DEF Sample
<1>11. ASSUME NEW s \in Slots, Finish(s) PROVE TypeInv'
  <2>1. slots[s] \in SlotType /\ Released(slots[s]) \in SlotType
    BY SlotTypes DEF LoopType
  <2>2. LoopType'
    BY <1>11, <2>1 DEF Finish, LoopType, SlotType
  <2>3. ResultType'
    BY <1>11, <2>1, SendType DEF Finish, Results, Ends, SlotType
  <2> QED BY <1>1, <1>3, <1>11, <2>2, <2>3 DEF Finish
<1>12. CASE DecodeFailed
  <2>1. LoopType'
    BY <1>12 DEF DecodeFailed, Goto, LoopType
  <2> QED BY <1>1, <1>2, <1>3, <1>12, <2>1 DEF DecodeFailed
<1>13. ASSUME NEW s \in Slots, FailSlot(s) PROVE TypeInv'
  <2>1. slots[s] \in SlotType /\ FailedSlot(slots[s]) \in SlotType
    BY SlotTypes DEF LoopType
  <2>2. LoopType'
    BY <1>13, <2>1 DEF FailSlot, LoopType
  <2>3. ResultType'
    BY <1>13, <2>1, SendType DEF FailSlot, Results, Ends, SlotType
  <2> QED BY <1>1, <1>3, <1>13, <2>2, <2>3 DEF FailSlot
<1> QED BY <1>4, <1>5, <1>6, <1>7, <1>8, <1>9, <1>10, <1>11, <1>12, <1>13 DEF MainStep

\* Every step keeps the types.
LEMMA NextType == TypeInv /\ [Next]_vars => TypeInv'
<1> SUFFICES ASSUME TypeInv, Next \/ UNCHANGED vars PROVE TypeInv'
  OBVIOUS
<1>1. CASE MainStep
  BY <1>1, ProcessType, LoopKeepsType
<1>2. CASE \E c \in Clients : Handle(c)
  BY <1>2, HandleType
<1>3. CASE Terminate \/ UNCHANGED vars
  BY <1>3 DEF Terminate, vars, http, queues, loop, TypeInv, HttpType, QueueType, ResultType,
              LoopType
<1> QED BY <1>1, <1>2, <1>3 DEF Next

\* The types are an invariant.
THEOREM TypeCorrect == Spec => []TypeInv
<1>1. Init => TypeInv
  BY InitType
<1>2. TypeInv /\ [Next]_vars => TypeInv'
  BY NextType
<1> QED BY <1>1, <1>2, PTL DEF Spec

-----------------------------------------------------------------------------
(* The loop sleeps only when there is nothing to do.                       *)

\* A request for another round stays in the queue while others are posted.
LEMMA NextStays ==
    ASSUME QueueType, NextPosted, NEW t \in Tasks, queue' = Append(queue, t)
    PROVE  NextPosted'
<1>1. PICK i \in DOMAIN queue : queue[i].type = "next"
  BY DEF NextPosted
<1>2. i \in DOMAIN Append(queue, t) /\ Append(queue, t)[i] = queue[i]
  BY <1>1, AppendProperties, LenProperties DEF QueueType
<1> QED BY <1>1, <1>2 DEF NextPosted

\* Slots that stay unavailable keep the deferred tasks waiting.
LEMMA StaysDeferred ==
    ASSUME Awake, deferred' = deferred, want' = want,
           \A s \in Slots : Available(s)' => Available(s)
    PROVE  Stuck'
BY DEF Awake, Stuck, Candidates

\* A step of a handler, or a signal, leaves the loop awake.
LEMMA HandleAwake ==
    ASSUME TypeInv, Awake, (\E c \in Clients : Handle(c)) \/ Terminate \/ UNCHANGED vars
    PROVE  Awake'
<1>1. UNCHANGED <<want, slots, deferred, main>>
  BY DEF Handle, Register, Post, AddMultitask, PostSubtask, OpenStream, Recv, Forget,
         RequestCancel, Leave, Terminate, vars, queues, loop, http
<1>2. \/ queue' = queue
      \/ \E t \in Tasks : queue' = Append(queue, t)
  <2>1. ASSUME NEW c \in Clients, Post(c) \/ PostSubtask(c) \/ RequestCancel(c)
        PROVE  \E t \in Tasks : queue' = Append(queue, t)
    <3>1. /\ Task(want[c].kind, <<c, 0>>) \in Tasks
          /\ Task("completion", <<c, posted[c] + 1>>) \in Tasks
          /\ Task("cancel", <<c, 0>>) \in Tasks
      <4>1. want[c] \in Request /\ posted[c] \in Nat
        BY WantType DEF TypeInv, HttpType
      <4> QED BY <4>1 DEF Request, Task, Tasks, Ids, Kinds
    <3> QED BY <2>1, <3>1 DEF Post, PostSubtask, RequestCancel
  <2>2. ASSUME NEW c \in Clients, Handle(c), ~(Post(c) \/ PostSubtask(c) \/ RequestCancel(c))
        PROVE  queue' = queue
    BY <2>2 DEF Handle, Register, AddMultitask, OpenStream, Recv, Forget, Leave, queues
  <2>3. Terminate \/ UNCHANGED vars => queue' = queue
    BY DEF Terminate, vars, queues
  <2> QED BY <2>1, <2>2, <2>3
<1>3. \A s \in Slots : Available(s)' <=> Available(s)
  BY <1>1 DEF Available
<1>4. NextPosted => NextPosted'
  BY <1>2, NextStays DEF NextPosted, TypeInv
<1>5. Stuck'
  BY <1>1, <1>3, StaysDeferred
<1> QED BY <1>1, <1>3, <1>4, <1>5 DEF Awake

\* A task that is worked off makes no slot available.
LEMMA ProcessAwake == ASSUME TypeInv, Awake, ProcessTask PROVE Awake'
<1>1. main = "tasks" /\ main' = main /\ want' = want
  BY DEF ProcessTask, DeferRequest, Launch, LaunchRejected, CancelTask, NextResponse,
         StatusTask, SlotAction, Working, http, loop
<1>2. \A s \in Slots : Available(s)' => Available(s)
  <2>1. \A s \in Slots : slots[s] \in SlotType /\ Released(slots[s]) \in SlotType
    BY SlotTypes DEF TypeInv, LoopType
  <2>2. \A s \in Slots : LET sl == Released(slots[s])
           IN sl.state = "idle" /\ sl.command = "none" => Available(s)
    BY <2>1 DEF Released, SlotType, Available
  <2>3. \A id : \A s \in Slots : LET sl == Prompted(id)[s]
           IN /\ sl \in SlotType
              /\ sl.state = "idle" /\ sl.command = "none" => Available(s)
    BY <2>1, <2>2 DEF Prompted, Available
  <2>4. CASE Launch \/ LaunchRejected
    <3> DEFINE P == Prompted(Head(queue).id)
    <3>1. P \in [Slots -> SlotType]
      BY <2>3 DEF Prompted, TypeInv, LoopType
    <3>2. PICK s \in Slots :
            \/ slots' = [P EXCEPT ![s].task = Head(queue).id, ![s].command = "load",
                                  ![s].steps = 0]
            \/ slots' = [P EXCEPT ![s].task = Head(queue).id]
      BY <2>4 DEF Launch, LaunchRejected, Candidates
    <3>3. \A t \in Slots : P[t].state = "idle" /\ P[t].command = "none" => Available(t)
      BY <2>3
    <3> HIDE DEF P
    <3>4. \A t \in Slots : slots'[t].state = P[t].state
                           /\ slots'[t].command \in {P[t].command, "load"}
      BY <3>1, <3>2 DEF SlotType
    <3> QED BY <3>3, <3>4 DEF Available
  <2>5. CASE CancelTask
    <3> DEFINE id == Head(queue).id
    <3>1. slots' = slots
          \/ \E s : slots' = [slots EXCEPT ![s] = Released(@)]
      BY <2>5 DEF CancelTask, ReleaseCancelled
    <3> QED BY <2>2, <3>1 DEF Available, TypeInv, LoopType
  <2> QED BY <2>4, <2>5 DEF ProcessTask, DeferRequest, NextResponse, StatusTask, SlotAction,
                Available
<1>3. CASE DeferRequest
  <2>1. /\ deferred' = Append(deferred, Head(queue)) /\ slots' = slots
        /\ Candidates(Head(queue).id) = {}
    BY <1>3 DEF DeferRequest, DeferTask
  <2>2. Head(queue) \in Waits
    BY <1>3, TakeType DEF DeferRequest, Waits, Tasks, Task, Working, TypeInv, QueueType, NoTask,
                          Kinds
  <2>3. ASSUME NEW i \in DOMAIN deferred' PROVE Candidates(deferred'[i].id) = {}
    <3> DEFINE n == Len(deferred)
    <3>1. /\ deferred \in Seq(Waits) /\ DOMAIN deferred = 1 .. n /\ n \in Nat
      BY LenProperties DEF TypeInv, QueueType
    <3>2. /\ DOMAIN deferred' = 1 .. n + 1 /\ deferred'[n + 1] = Head(queue)
          /\ \A k \in 1 .. n : deferred'[k] = deferred[k]
      BY <2>1, <2>2, <3>1, AppendProperties, LenProperties
    <3>3. \A k \in 1 .. n : Candidates(deferred[k].id) = {}
      BY <3>1 DEF Awake, Stuck
    <3> HIDE DEF n
    <3>4. i \in 1 .. n \/ i = n + 1
      BY <2>3, <3>1, <3>2
    <3> QED BY <2>1, <3>2, <3>3, <3>4
  <2>4. Stuck'
    BY <1>1, <2>1, <2>3 DEF Stuck, Candidates, Available
  <2> QED BY <1>1, <2>4 DEF Awake
<1>4. CASE ~DeferRequest
  <2>1. deferred' = deferred
    BY <1>4 DEF ProcessTask, Launch, LaunchRejected, CancelTask, NextResponse, StatusTask,
                SlotAction, TakeTask
  <2> QED BY <1>1, <1>2, <2>1, StaysDeferred DEF Awake
<1> QED BY <1>3, <1>4

\* The rounds keep the loop awake: the slots become available only when slots
\* are released, and then nothing stays deferred.
LEMMA LoopAwake == ASSUME TypeInv, Awake, MainStep, ~ProcessTask PROVE Awake'
<1>1. want' = want
  BY DEF MainStep, StartLoop, TasksDone, FinishMultitask, MultitasksDone, UpdateSlots,
         LoadPrompt, PromptsDone, Prefilled, Sample, Finish, DecodeDone, DecodeFailed,
         FailSlot, FailDone, Decide, Wake, http
<1>2. \A s \in Slots : slots[s] \in SlotType
  BY DEF TypeInv, LoopType
<1>3. ASSUME UNCHANGED <<queue, deferred>>, \A s \in Slots : Available(s)' => Available(s),
             main' \in {"prompts", "decode", "fail"} => main \in {"prompts", "decode", "fail"},
             main' \in {"wait", "asleep"} =>
                \/ main \in {"prompts", "decode", "fail"}
                \/ main \in {"wait", "asleep"} /\ slots' = slots
      PROVE  Awake'
  <2>1. Stuck'
    BY <1>1, <1>3, StaysDeferred
  <2>2. NextPosted' <=> NextPosted
    BY <1>3 DEF NextPosted
  <2>3. slots' = slots => \A s \in Slots : Available(s)' <=> Available(s)
    BY DEF Available
  <2> QED BY <1>3, <2>1, <2>2, <2>3 DEF Awake
<1>4. CASE StartLoop \/ TasksDone \/ MultitasksDone \/ PromptsDone \/ DecodeDone
           \/ DecodeFailed \/ FailDone \/ Decide \/ Wake \/ \E c \in Clients : FinishMultitask(c)
  BY <1>3, <1>4 DEF StartLoop, TasksDone, MultitasksDone, PromptsDone, DecodeDone,
     DecodeFailed, FailDone, Decide, Wake, FinishMultitask, Goto, Available, queues, loop
<1>5. ASSUME NEW s \in Slots, Prefilled(s) PROVE Awake'
  BY <1>3, <1>5 DEF Prefilled, Available, queues
<1>6. ASSUME NEW s \in Slots,
             LoadPrompt(s) \/ Sample(s) \/ Finish(s) \/ FailSlot(s)
      PROVE  Awake'
  <2>1. UNCHANGED <<queue, deferred, main>> /\ main \in {"prompts", "decode", "fail"}
    BY <1>6 DEF LoadPrompt, Sample, Finish, FailSlot, queues
  <2>2. slots \in [Slots -> SlotType]
    BY DEF TypeInv, LoopType
  <2>3. \A t \in Slots : Available(t)' => Available(t)
    <3>1. CASE LoadPrompt(s)
      <4>1. PICK n :
               \/ slots' = [slots EXCEPT ![s].steps = n]
               \/ slots' = [slots EXCEPT ![s].state = "processing",
                                         ![s].command = "release", ![s].steps = n]
               \/ slots' = [slots EXCEPT ![s].state = "processing", ![s].command = "none",
                                         ![s].steps = n, ![s].inBatch = TRUE]
        BY <3>1 DEF LoadPrompt
      <4>2. CASE slots' = [slots EXCEPT ![s].steps = n]
        BY <2>2, <4>2 DEF Available, SlotType
      <4>3. CASE slots' = [slots EXCEPT ![s].state = "processing",
                                        ![s].command = "release", ![s].steps = n]
        BY <2>2, <4>3 DEF Available, SlotType
      <4>4. CASE slots' = [slots EXCEPT ![s].state = "processing", ![s].command = "none",
                                        ![s].steps = n, ![s].inBatch = TRUE]
        BY <2>2, <4>4 DEF Available, SlotType
      <4> QED BY <4>1, <4>2, <4>3, <4>4
    <3>2. CASE Sample(s)
      BY <2>2, <3>2 DEF Sample, Available, SlotType
    <3>3. CASE Finish(s) \/ FailSlot(s)
      <4>1. \/ slots' = [slots EXCEPT ![s] = FailedSlot(@)]
            \/ /\ slots' = [slots EXCEPT ![s] = [Released(@) EXCEPT !.inBatch = FALSE]]
               /\ slots[s].state = "processing"
        BY <3>3 DEF Finish, FailSlot, Samples
      <4> QED BY <2>2, <4>1 DEF Available, SlotType, Released, FailedSlot
    <3> QED BY <1>6, <3>1, <3>2, <3>3
  <2> QED BY <1>3, <2>1, <2>3
<1>7. CASE UpdateSlots
  <2> DEFINE freed == {s \in Slots : slots[s].command = "release"}
             now   == [s \in Slots |-> IF s \in freed
                    THEN [slots[s] EXCEPT !.state = "idle", !.command = "none"]
                    ELSE slots[s]]
             moved == IF freed = {} THEN queues ELSE Notified
             going == {s \in Slots : now[s].state = "processing"}
             loads == {s \in Slots : now[s].state = "idle" /\ now[s].command = "load"}
  <2>1. deferred' = moved[2]
    BY <1>7 DEF UpdateSlots
  <2>2. Stuck'
    <3>1. CASE freed = {}
      <4>1. now = slots
        BY <3>1 DEF TypeInv, LoopType
      <4>2. deferred' = deferred
        BY <2>1, <3>1 DEF queues
      <4>3. \A s \in Slots : Available(s)' => Available(s)
        <5>1. \/ slots' = slots
              \/ slots' = [s \in Slots |-> IF s \in going
                               THEN [slots[s] EXCEPT !.inBatch = TRUE] ELSE slots[s]]
          BY <1>7, <4>1 DEF UpdateSlots
        <5> HIDE DEF going, now
        <5> QED BY <1>2, <5>1 DEF Available, SlotType
      <4> QED BY <1>1, <4>2, <4>3, StaysDeferred
    <3>2. CASE freed # {}
      BY <2>1, <3>2 DEF Notified, Stuck
    <3> QED BY <3>1, <3>2
  <2>3. CASE going \cup loads = {}
    <3>1. slots' = now /\ main' = "wait"
      BY <1>7, <2>3 DEF UpdateSlots, Goto
    <3>2. ASSUME NEW s \in Slots PROVE now[s].state = "idle" /\ now[s].command = "none"
      <4>1. s \notin going /\ s \notin loads
        BY <2>3
      <4> QED BY <1>2, <4>1 DEF SlotType
    <3>3. \A s \in Slots : Available(s)'
      BY <3>1, <3>2 DEF Available
    <3> QED BY <2>2, <3>1, <3>3 DEF Awake
  <2>4. CASE going \cup loads # {}
    <3>1. main' = "prompts" /\ queue' = PostsNext(moved[1])
      BY <1>7, <2>4 DEF UpdateSlots, Goto
    <3>2. moved[1] \in Seq(Tasks) /\ Task("next", NoTask) \in Tasks
      <4>1. queue \in Seq(Tasks) /\ deferred \in Seq(Waits) /\ Waits \subseteq Tasks
        BY DEF TypeInv, QueueType, Waits, Tasks, Kinds
      <4>2. queue \o deferred \in Seq(Tasks)
        BY <4>1, SeqMonotonic, ConcatProperties
      <4> QED BY <4>1, <4>2 DEF queues, Notified, Tasks
    <3> HIDE DEF moved
    <3>3. NextPosted'
      <4> DEFINE n == Len(moved[1])
      <4>1. n + 1 \in DOMAIN queue' /\ queue'[n + 1] = Task("next", NoTask)
        BY <3>1, <3>2, AppendProperties, LenProperties DEF PostsNext
      <4> HIDE DEF n
      <4> QED BY <4>1 DEF NextPosted, Task
    <3> QED BY <2>2, <3>1, <3>3 DEF Awake
  <2> QED BY <2>3, <2>4
<1> QED BY <1>4, <1>5, <1>6, <1>7 DEF MainStep

\* The loop sleeps only when no slot is at work and no deferred task could run,
\* whatever requests come, whatever fails and whenever a signal arrives: from
\* Awake, since without a task in the queue no round has been asked for.
THEOREM SleepsIdle == Spec => []SleepsOnlyIdle
<1>1. Init => Awake
  BY DEF Init, Awake, Stuck
<1>2. TypeInv /\ Awake /\ [Next]_vars => Awake'
  <2> SUFFICES ASSUME TypeInv, Awake, Next \/ UNCHANGED vars PROVE Awake'
    OBVIOUS
  <2> QED BY HandleAwake, ProcessAwake, LoopAwake DEF Next
<1>3. TypeInv /\ Awake => SleepsOnlyIdle
  <2> SUFFICES ASSUME TypeInv, Awake, main = "asleep", queue = <<>>
               PROVE  /\ \A s \in Slots : Available(s)
                      /\ \A i \in DOMAIN deferred : want[deferred[i].id[1]].slot = NoSlot
    BY DEF SleepsOnlyIdle
  <2>1. \A s \in Slots : Available(s)
    BY DEF Awake, NextPosted
  <2>2. ASSUME NEW i \in DOMAIN deferred PROVE want[deferred[i].id[1]].slot = NoSlot
    <3> DEFINE c == deferred[i].id[1]
    <3>1. deferred[i] \in Waits
      BY DEF TypeInv, QueueType
    <3>2. c \in Clients /\ want[c] \in Request
      BY <3>1, WantType DEF Waits, Ids, TypeInv
    <3>3. 0 \in Slots
      BY ServerAssumption DEF Slots
    <3>4. Candidates(deferred[i].id) = {}
      BY DEF Awake, Stuck
    <3>5. want[c].slot # AnySlot /\ want[c].slot \notin Slots
      BY <2>1, <3>3, <3>4 DEF Candidates
    <3> QED BY <3>2, <3>5 DEF Request
  <2> QED BY <2>1, <2>2
<1> QED BY <1>1, <1>2, <1>3, TypeCorrect, PTL DEF Spec

\* Of some naturals there is a least one.
LEMMA LeastNat ==
    ASSUME NEW S \in SUBSET Nat, S # {}
    PROVE  \E m \in S : \A k \in S : m <= k
<1> DEFINE T == {0 .. k : k \in S}
<1>1. T \subseteq FiniteSubsetsOf(Nat)
  <2>1. ASSUME NEW k \in S PROVE 0 .. k \in FiniteSubsetsOf(Nat)
    <3>1. IsFiniteSet(0 .. k)
      BY FS_Interval
    <3>2. 0 .. k \in SUBSET Nat
      OBVIOUS
    <3> QED BY <3>1, <3>2 DEF FiniteSubsetsOf
  <2> QED BY <2>1
<1>2. T # {}
  OBVIOUS
<1>3. \E x \in T : \A y \in T : ~ (<<y, x>> \in StrictSubsetOrdering(Nat))
  <2> HIDE DEF T
  <2> QED BY <1>1, <1>2, FS_StrictSubsetOrderingWellFounded, WFMin
<1>4. PICK m \in S : \A k \in S : <<0 .. k, 0 .. m>> \notin StrictSubsetOrdering(Nat)
  BY <1>3
<1>5. ASSUME NEW k \in S, k < m PROVE FALSE
  <2>1. 0 .. k \subseteq 0 .. m /\ 0 .. k # 0 .. m
        /\ 0 .. k \in SUBSET Nat /\ 0 .. m \in SUBSET Nat
    BY <1>5
  <2>2. <<0 .. k, 0 .. m>> \in StrictSubsetOrdering(Nat)
    <3> DEFINE A == 0 .. k
               B == 0 .. m
    <3>1. A \subseteq B /\ A # B /\ A \in SUBSET Nat /\ B \in SUBSET Nat
      BY <2>1
    <3> HIDE DEF A, B
    <3>2. <<A, B>> \in StrictSubsetOrdering(Nat)
      BY <3>1 DEF StrictSubsetOrdering
    <3> QED BY <3>2 DEF A, B
  <2> QED BY <2>2, <1>4
<1> QED BY <1>4, <1>5

\* Of some slots there is a lowest one.
LEMMA LowestSlot == ASSUME NEW S \in SUBSET Slots, S # {} PROVE Lowest(S) \in S
<1>1. Slots = 0 .. NSlots - 1 /\ NSlots \in Nat
  BY ServerAssumption DEF Slots
<1>2. S \subseteq Nat
  BY <1>1
<1>3. \E s \in S : \A t \in S : s <= t
  BY <1>2, LeastNat
<1> QED BY <1>3 DEF Lowest

-----------------------------------------------------------------------------
(* Slots and requests keep in step.                                        *)

\* Without a new system prompt a launched slot is the only one that changes.
LEMMA PromptedNot ==
    ASSUME Orderly, HttpType, NEW id \in Ids
    PROVE  Prompted(id) = slots
BY DEF Orderly, HttpType, Prompted, Ids

\* The slots keep in step while tasks are worked off.
LEMMA ProcessInStep == ASSUME Orderly, TypeInv, SlotsInStep, ProcessTask PROVE SlotsInStep'
<1>1. main = "tasks" /\ main' = main /\ slots \in [Slots -> SlotType]
  BY DEF ProcessTask, DeferRequest, Launch, LaunchRejected, CancelTask, NextResponse,
         StatusTask, SlotAction, Working, loop, TypeInv, LoopType
<1>2. \A s \in Slots : ~slots[s].inBatch
  BY <1>1 DEF SlotsInStep
<1>3. ASSUME NEW s \in Slots, NEW sl \in SlotType, slots' = [slots EXCEPT ![s] = sl],
             ~sl.inBatch, sl.state = "idle" => sl.command # "release",
             sl.state = "processing" => sl.command # "load"
      PROVE  SlotsInStep'
  BY <1>1, <1>2, <1>3 DEF SlotsInStep
<1>4. CASE Launch \/ LaunchRejected
  <2>1. Head(queue).id \in Ids
    BY <1>4, TakeType DEF Launch, LaunchRejected, TypeInv, Kinds
  <2>2. Prompted(Head(queue).id) = slots
    BY <2>1, PromptedNot DEF TypeInv
  <2>3. PICK s \in Slots : /\ Available(s)
           /\ \/ slots' = [slots EXCEPT ![s].task = Head(queue).id, ![s].command = "load",
                                        ![s].steps = 0]
              \/ slots' = [slots EXCEPT ![s].task = Head(queue).id]
    BY <1>4, <2>2 DEF Launch, LaunchRejected, Candidates
  <2> DEFINE id == Head(queue).id
             x == [slots[s] EXCEPT !.task = id, !.command = "load", !.steps = 0]
             y == [slots[s] EXCEPT !.task = id]
  <2>4. slots[s] \in SlotType /\ slots[s].state = "idle"
    BY <1>1, <2>3 DEF Available
  <2>5. /\ x \in SlotType /\ ~x.inBatch /\ x.state = "idle" /\ x.command = "load"
        /\ y \in SlotType /\ ~y.inBatch /\ y.state = "idle" /\ y.command = slots[s].command
    BY <1>2, <2>1, <2>4 DEF SlotType
  <2>6. slots' = [slots EXCEPT ![s] = x] \/ slots' = [slots EXCEPT ![s] = y]
    BY <2>3
  <2>7. slots[s].command # "release"
    BY <2>3 DEF Available
  <2> HIDE DEF x, y
  <2> QED BY <1>3, <2>5, <2>6, <2>7
<1>5. CASE CancelTask
  <2>1. CASE slots' = slots
    BY <1>1, <2>1 DEF SlotsInStep
  <2>2. CASE slots' # slots
    <3>1. PICK s \in Slots : slots' = [slots EXCEPT ![s] = Released(slots[s])]
      <4>1. PICK s : slots' = [slots EXCEPT ![s] = Released(@)]
        BY <1>5, <2>2 DEF CancelTask, ReleaseCancelled
      <4> QED BY <1>1, <2>2, <4>1
    <3>2. /\ Released(slots[s]) \in SlotType /\ ~Released(slots[s]).inBatch
          /\ Released(slots[s]).state = slots[s].state
          /\ Released(slots[s]).state = "idle" => Released(slots[s]) = slots[s]
          /\ Released(slots[s]).command \in {slots[s].command, "release"}
      BY <1>1, <1>2, SlotTypes DEF Released, SlotType
    <3> QED BY <1>3, <3>1, <3>2 DEF SlotsInStep
  <2> QED BY <2>1, <2>2
<1>6. CASE DeferRequest \/ NextResponse \/ StatusTask \/ SlotAction
  BY <1>1, <1>6 DEF DeferRequest, NextResponse, StatusTask, SlotAction, SlotsInStep
<1> QED BY <1>4, <1>5, <1>6 DEF ProcessTask

\* The slots keep in step in the rounds of the loop.
LEMMA LoopInStep ==
    ASSUME Orderly, TypeInv, SlotsInStep, MainStep, ~ProcessTask
    PROVE  SlotsInStep'
<1>0. slots \in [Slots -> SlotType] /\ \A s \in Slots : slots[s] \in SlotType
  BY DEF TypeInv, LoopType
<1>1. \A s \in Slots : slots[s].inBatch =>
          slots[s].state = "processing" /\ slots[s].command = "none"
  BY DEF SlotsInStep
<1>2. CASE StartLoop \/ TasksDone \/ MultitasksDone \/ PromptsDone \/ DecodeDone
           \/ FailDone \/ Decide \/ Wake \/ \E c \in Clients : FinishMultitask(c)
  BY <1>2 DEF StartLoop, TasksDone, MultitasksDone, PromptsDone, DecodeDone,
     FailDone, Decide, Wake, FinishMultitask, Goto, SlotsInStep, loop
<1>3. ASSUME NEW s \in Slots, Prefilled(s) PROVE SlotsInStep'
  BY <1>0, <1>1, <1>3 DEF Prefilled, Samples, SlotsInStep
<1>4. ASSUME NEW s \in Slots, Sample(s) PROVE SlotsInStep'
  <2>1. /\ slots'[s].state = "processing" /\ slots'[s].command = "none"
        /\ slots'[s].inBatch => s \in visit'
        /\ \A t \in Slots \ {s} : slots'[t] = slots[t] /\ (t \in visit => t \in visit')
        /\ main' = main /\ main = "decode"
    BY <1>0, <1>1, <1>4 DEF Sample, Samples, SlotType
  <2> QED BY <2>1 DEF SlotsInStep
<1>5. ASSUME NEW s \in Slots, Finish(s) PROVE SlotsInStep'
  <2>1. /\ slots'[s].state = "processing" /\ slots'[s].command = "release"
        /\ slots'[s].inBatch = FALSE
        /\ \A t \in Slots \ {s} : slots'[t] = slots[t] /\ (t \in visit => t \in visit')
        /\ main' = main /\ main = "decode"
    BY <1>0, <1>5 DEF Finish, Samples, Released, SlotType
  <2> QED BY <2>1 DEF SlotsInStep
<1>6. CASE DecodeFailed \/ \E s \in Slots : FailSlot(s)
  BY <1>6 DEF DecodeFailed, Orderly, FailSlot, SlotsInStep
<1>7. ASSUME NEW s \in Slots, LoadPrompt(s) PROVE SlotsInStep'
  <2>1. /\ main = "prompts" /\ main' = main /\ s \in visit /\ visit' = visit \ {s}
        /\ fed \subseteq fed'
    <3>1. main = "prompts" /\ main' = main /\ visit # {} /\ s = Lowest(visit)
          /\ visit' = visit \ {s}
      BY <1>7 DEF LoadPrompt
    <3>2. visit \subseteq Slots
      BY DEF TypeInv, LoopType
    <3>3. s \in visit
      BY <3>1, <3>2, LowestSlot
    <3>4. fed' \in {fed, fed \cup {s}}
      BY <1>7 DEF LoadPrompt
    <3> QED BY <3>1, <3>3, <3>4
  <2>2. slots[s].state = "idle" /\ slots[s].command = "load" /\ slots[s].inBatch = FALSE
    BY <1>0, <1>1, <2>1 DEF SlotsInStep, SlotType
  <2>3. PICK n :
               \/ slots' = [slots EXCEPT ![s].steps = n]
               \/ slots' = [slots EXCEPT ![s].state = "processing",
                                         ![s].command = "release", ![s].steps = n]
               \/ /\ slots' = [slots EXCEPT ![s].state = "processing", ![s].command = "none",
                                            ![s].steps = n, ![s].inBatch = TRUE]
                  /\ s \in fed'
    BY <1>7 DEF LoadPrompt
  <2>4. \/ /\ slots'[s].state = "idle" /\ slots'[s].command = "load"
           /\ slots'[s].inBatch = FALSE
        \/ /\ slots'[s].state = "processing" /\ slots'[s].command = "release"
           /\ slots'[s].inBatch = FALSE
        \/ slots'[s].state = "processing" /\ slots'[s].command = "none" /\ s \in fed'
    <3>1. CASE slots' = [slots EXCEPT ![s].steps = n]
      BY <1>0, <2>2, <3>1 DEF SlotType
    <3>2. CASE slots' = [slots EXCEPT ![s].state = "processing",
                                        ![s].command = "release", ![s].steps = n]
      BY <1>0, <2>2, <3>2 DEF SlotType
    <3>3. CASE /\ slots' = [slots EXCEPT ![s].state = "processing", ![s].command = "none",
                                        ![s].steps = n, ![s].inBatch = TRUE]
               /\ s \in fed'
      BY <1>0, <3>3 DEF SlotType
    <3> QED BY <2>3, <3>1, <3>2, <3>3
  <2>5. \A t \in Slots \ {s} : slots'[t] = slots[t]
    BY <1>0, <2>3
  <2>6. /\ \A t \in visit' : slots'[t].state = "idle" /\ slots'[t].command = "load"
        /\ visit \subseteq Slots
    BY <2>1, <2>5 DEF SlotsInStep, TypeInv, LoopType
  <2>7. \A t \in Slots \ {s} : slots[t].inBatch => t \in fed
    BY <2>1 DEF SlotsInStep
  <2> QED BY <2>1, <2>4, <2>5, <2>6, <2>7 DEF SlotsInStep
<1>8. CASE UpdateSlots
  <2> DEFINE freed == {s \in Slots : slots[s].command = "release"}
             now   == [s \in Slots |-> IF s \in freed
                    THEN [slots[s] EXCEPT !.state = "idle", !.command = "none"]
                    ELSE slots[s]]
             going == {s \in Slots : now[s].state = "processing"}
             loads == {s \in Slots : now[s].state = "idle" /\ now[s].command = "load"}
  <2>1. \A s \in Slots :
          /\ now[s] \in SlotType /\ ~now[s].inBatch /\ now[s].command # "release"
          /\ now[s].state = "processing" => now[s].command = "none"
    <3>1. main = "update" /\ \A s \in Slots : ~slots[s].inBatch
      BY <1>8 DEF UpdateSlots, Goto, SlotsInStep
    <3> QED BY <1>0, <3>1 DEF SlotsInStep, SlotType
  <2>2. CASE going \cup loads = {}
    BY <1>8, <2>1, <2>2 DEF UpdateSlots, Goto, SlotsInStep
  <2>3. CASE going \cup loads # {}
    <3>1. /\ slots' = [s \in Slots |-> IF s \in going
                               THEN [now[s] EXCEPT !.inBatch = TRUE] ELSE now[s]]
          /\ main' = "prompts" /\ fed' = going /\ visit' \subseteq loads
      BY <1>8, <2>3 DEF UpdateSlots, Goto
    <3>2. \A s \in Slots : [now[s] EXCEPT !.inBatch = TRUE].state = now[s].state
                           /\ [now[s] EXCEPT !.inBatch = TRUE].command = now[s].command
      BY <2>1 DEF SlotType
    <3>3. \A s \in Slots :
            /\ slots'[s].state = now[s].state /\ slots'[s].command = now[s].command
            /\ slots'[s].inBatch => s \in going
      BY <2>1, <3>1, <3>2
    <3>4. /\ \A s \in loads : now[s].state = "idle" /\ now[s].command = "load"
          /\ \A s \in going : now[s].state = "processing"
          /\ loads \subseteq Slots
      OBVIOUS
    <3> HIDE DEF now, going, loads
    <3> QED BY <2>1, <3>1, <3>3, <3>4 DEF SlotsInStep
  <2> QED BY <2>2, <2>3
<1> QED BY <1>2, <1>3, <1>4, <1>5, <1>6, <1>7, <1>8 DEF MainStep

\* The slots keep in step.
LEMMA NextInStep == ASSUME Orderly, TypeInv, SlotsInStep, [Next]_vars PROVE SlotsInStep'
<1>1. ASSUME UNCHANGED <<slots, loop>> PROVE SlotsInStep'
  BY <1>1 DEF loop, SlotsInStep
<1>2. CASE (\E c \in Clients : Handle(c)) \/ Terminate \/ UNCHANGED vars
  BY <1>1, <1>2 DEF Handle, Register, Post, AddMultitask, PostSubtask, OpenStream, Recv, Forget,
                    RequestCancel, Leave, Terminate, vars, loop
<1> QED BY <1>2, ProcessInStep, LoopInStep DEF Next

\* What is true of the elements of two queues is true of those put together, of
\* the tail, and of one that gets another such element.
LEMMA Elements ==
    ASSUME NEW T, NEW s \in Seq(T), NEW t \in Seq(T), NEW e \in T, NEW P \in SUBSET T
    PROVE  /\ (\A i \in DOMAIN s : s[i] \in P) /\ (\A i \in DOMAIN t : t[i] \in P) =>
                 \A i \in DOMAIN (s \o t) : (s \o t)[i] \in P
           /\ (\A i \in DOMAIN s : s[i] \in P) /\ e \in P =>
                 \A i \in DOMAIN Append(s, e) : Append(s, e)[i] \in P
           /\ (\A i \in DOMAIN s : s[i] \in P) /\ s # <<>> =>
                 \A i \in DOMAIN Tail(s) : Tail(s)[i] \in P
<1> DEFINE m == Len(s)
           n == Len(t)
<1>1. DOMAIN s = 1 .. m /\ m \in Nat /\ DOMAIN t = 1 .. n /\ n \in Nat
  BY LenProperties
<1>2. ASSUME \A i \in DOMAIN s : s[i] \in P, \A i \in DOMAIN t : t[i] \in P,
             NEW i \in DOMAIN (s \o t)
      PROVE  (s \o t)[i] \in P
  <2>1. i \in 1 .. m + n /\ (s \o t)[i] = IF i <= m THEN s[i] ELSE t[i - m]
    BY <1>2, ConcatProperties, LenProperties
  <2> HIDE DEF m, n
  <2>2. i <= m => i \in 1 .. m
    BY <1>1, <2>1
  <2>3. ~(i <= m) => i - m \in 1 .. n
    BY <1>1, <2>1
  <2> QED BY <1>1, <1>2, <2>1, <2>2, <2>3
<1>3. ASSUME \A i \in DOMAIN s : s[i] \in P, e \in P, NEW i \in DOMAIN Append(s, e)
      PROVE  Append(s, e)[i] \in P
  <2>1. i \in 1 .. m + 1
    BY <1>3, AppendProperties, LenProperties
  <2>2. Append(s, e)[m + 1] = e /\ \A k \in 1 .. m : Append(s, e)[k] = s[k]
    BY AppendProperties
  <2> HIDE DEF m
  <2>3. i = m + 1 \/ i \in 1 .. m
    BY <1>1, <2>1
  <2> QED BY <1>1, <1>3, <2>2, <2>3
<1>4. ASSUME \A i \in DOMAIN s : s[i] \in P, s # <<>>, NEW i \in DOMAIN Tail(s)
      PROVE  Tail(s)[i] \in P
  <2>1. i \in 1 .. m - 1 /\ Tail(s)[i] = s[i + 1] /\ m # 0
    BY <1>4, HeadTailProperties, LenProperties, EmptySeq
  <2> HIDE DEF m
  <2> QED BY <1>1, <1>4, <2>1
<1> QED BY <1>2, <1>3, <1>4

\* The handlers move forward in their stages, the loop leaves them alone.
LEMMA NextInStage ==
    ASSUME TypeInv, \A c \in Clients : InStage(c), [Next]_vars
    PROVE  \A c \in Clients : InStage(c)'
<1> SUFFICES ASSUME NEW c \in Clients PROVE InStage(c)'
  OBVIOUS
<1> USE DEF InStage
<1>1. CASE UNCHANGED <<want, handler, posted, waiting>>
  BY <1>1
<1>2. CASE MainStep
  BY <1>1, <1>2 DEF MainStep, ProcessTask, DeferRequest, Launch, LaunchRejected, CancelTask,
         NextResponse, StatusTask, SlotAction, StartLoop, TasksDone, FinishMultitask,
         MultitasksDone, UpdateSlots, LoadPrompt, PromptsDone, Prefilled, Sample, Finish,
         DecodeDone, DecodeFailed, FailSlot, FailDone, Decide, Wake, http
<1>3. ASSUME NEW d \in Clients, Handle(d) PROVE InStage(c)'
  <2>1. want' = want /\ want[c] \in Request /\ want[d] \in Request /\ posted \in [Clients -> Nat]
        /\ handler \in [Clients -> Places] /\ waiting \subseteq Clients \X {0}
    BY <1>3, WantType DEF Handle, Register, Post, AddMultitask, PostSubtask, OpenStream, Recv,
           Forget, RequestCancel, Leave, TypeInv, HttpType, ResultType
  <2>2. CASE c # d
    <3>1. handler'[c] = handler[c] /\ posted'[c] = posted[c]
      BY <1>3, <2>1, <2>2 DEF Handle, Register, Post, AddMultitask, PostSubtask, OpenStream,
         Recv, Forget, RequestCancel, Leave, Step
    <3>2. <<c, 0>> \in waiting' <=> <<c, 0>> \in waiting
      BY <1>3, <2>1, <2>2 DEF Handle, Register, Post, AddMultitask, PostSubtask, OpenStream,
         Recv, Forget, RequestCancel, Leave
    <3> QED BY <2>1, <3>1, <3>2
  <2>3. CASE c = d
    <3>1. want[c].prompts \in Nat \ {0} /\ want[c].stream \in BOOLEAN /\ posted[c] \in Nat
      BY <2>1 DEF Request
    <3>2. CASE Register(c)
      BY <2>1, <3>1, <3>2, ServerAssumption DEF Register, Step, TypeInv, HttpType
    <3>3. CASE Post(c)
      BY <2>1, <3>1, <3>3 DEF Post, Step, Sent
    <3>4. CASE AddMultitask(c)
      BY <2>1, <3>1, <3>4 DEF AddMultitask, Step
    <3>5. CASE PostSubtask(c)
      BY <2>1, <3>1, <3>5 DEF PostSubtask, Step, Sent
    <3>6. CASE OpenStream(c) \/ Recv(c)
      BY <2>1, <3>1, <3>6 DEF OpenStream, Recv, Step
    <3>7. CASE Forget(c) \/ RequestCancel(c) \/ Leave(c)
      BY <2>1, <3>1, <3>7 DEF Forget, RequestCancel, Leave, Step
    <3> QED BY <1>3, <2>3, <3>2, <3>3, <3>4, <3>5, <3>6, <3>7 DEF Handle
  <2> QED BY <2>2, <2>3
<1>4. CASE Terminate \/ UNCHANGED vars
  BY <1>1, <1>4 DEF Terminate, vars, http
<1> QED BY <1>2, <1>3, <1>4 DEF Next

\* Only what is cancelled by a handler that leaves is in the queue to be cancelled.
LEMMA NextCancels ==
    ASSUME TypeInv, \A i \in DOMAIN queue : Cancels(queue[i]), [Next]_vars
    PROVE  (\A i \in DOMAIN queue : Cancels(queue[i]))'
<1> DEFINE P == {t \in Tasks : Cancels(t)}
           left(c) == handler[c] \in {"leave", "done"}
<1>1. /\ queue \in Seq(Tasks) /\ deferred \in Seq(Waits) /\ deferred \in Seq(Tasks)
      /\ Waits \subseteq P
  <2>1. Waits \subseteq P
    BY DEF Waits, Tasks, Kinds, Cancels
  <2>2. queue \in Seq(Tasks) /\ deferred \in Seq(Waits) /\ P \subseteq Tasks
    BY DEF TypeInv, QueueType
  <2> HIDE DEF P
  <2> QED BY <2>1, <2>2, SeqMonotonic
<1>2. \A i \in DOMAIN queue : queue[i] \in P
  BY <1>1, ElementOfSeq, LenProperties
<1>3. \A i \in DOMAIN deferred : deferred[i] \in P
  <2> HIDE DEF P
  <2> QED BY <1>1, ElementOfSeq, LenProperties
<1>4. \A c \in Clients : left(c) => handler'[c] \in {"leave", "done"}
  <2>1. CASE handler' = handler
    BY <2>1
  <2>2. ASSUME NEW d \in Clients, Handle(d)
        PROVE  \A c \in Clients : left(c) => handler'[c] \in {"leave", "done"}
    BY <2>2 DEF Handle, Register, Post, AddMultitask, PostSubtask, OpenStream, Recv,
           Forget, RequestCancel, Leave, Step, TypeInv, HttpType
  <2>3. CASE MainStep
    BY <2>1, <2>3 DEF MainStep, ProcessTask, DeferRequest, Launch, LaunchRejected, CancelTask,
         NextResponse, StatusTask, SlotAction, StartLoop, TasksDone, FinishMultitask,
         MultitasksDone, UpdateSlots, LoadPrompt, PromptsDone, Prefilled, Sample, Finish,
         DecodeDone, DecodeFailed, FailSlot, FailDone, Decide, Wake, http
  <2>4. CASE Terminate \/ UNCHANGED vars
    BY <2>1, <2>4 DEF Terminate, vars, http
  <2> QED BY <2>2, <2>3, <2>4 DEF Next
<1>5. \A t \in P : Cancels(t)'
  BY <1>4 DEF Cancels, Tasks, Ids, Task, Kinds
<1>6. ASSUME \A i \in DOMAIN queue' : queue'[i] \in P
      PROVE  (\A i \in DOMAIN queue : Cancels(queue[i]))'
  <2> HIDE DEF P
  <2> QED BY <1>5, <1>6
<1> DEFINE next == Task("next", NoTask)
<1>7. next \in P /\ next \in Tasks /\ P \in SUBSET Tasks
  BY DEF Tasks, Task, Cancels
<1>8. \/ queue' = queue
      \/ queue # <<>> /\ queue' = Tail(queue)
      \/ queue' = queue \o deferred
      \/ \E q \in {queue, queue \o deferred} : queue' = Append(q, next)
      \/ \E t \in Tasks : queue' = Append(queue, t) /\ (t \in P \/ Cancels(t)')
  <2>1. CASE ProcessTask
    BY <2>1 DEF ProcessTask, DeferRequest, Launch, LaunchRejected, CancelTask,
         NextResponse, StatusTask, SlotAction, Working, TakeTask, DeferTask
  <2>2. CASE UpdateSlots
    BY <2>2 DEF UpdateSlots, PostsNext, Notified, queues
  <2>3. CASE MainStep /\ ~ProcessTask /\ ~UpdateSlots
    BY <2>3 DEF MainStep, StartLoop, TasksDone, FinishMultitask,
         MultitasksDone, LoadPrompt, PromptsDone, Prefilled, Sample, Finish,
         DecodeDone, DecodeFailed, FailSlot, FailDone, Decide, Wake, queues
  <2>4. ASSUME NEW c \in Clients, Post(c) \/ PostSubtask(c) \/ RequestCancel(c)
        PROVE  \E t \in Tasks : queue' = Append(queue, t) /\ (t \in P \/ Cancels(t)')
    <3>1. want[c] \in Request /\ posted[c] \in Nat /\ posted[c] + 1 \in Nat
      BY WantType DEF TypeInv, HttpType
    <3>2. /\ Task(want[c].kind, <<c, 0>>) \in P
          /\ Task("completion", <<c, posted[c] + 1>>) \in P
          /\ Task("cancel", <<c, 0>>) \in Tasks
      BY <3>1 DEF Request, Task, Tasks, Ids, Kinds, Cancels
    <3>3. RequestCancel(c) => Cancels(Task("cancel", <<c, 0>>))'
      BY DEF RequestCancel, Step, Cancels, Task, TypeInv, HttpType
    <3> QED BY <2>4, <3>2, <3>3 DEF Post, PostSubtask, RequestCancel
  <2>5. ASSUME NEW c \in Clients, Handle(c), ~(Post(c) \/ PostSubtask(c) \/ RequestCancel(c))
        PROVE  queue' = queue
    BY <2>5 DEF Handle, Register, AddMultitask, OpenStream, Recv, Forget, Leave, queues
  <2>6. Terminate \/ UNCHANGED vars => queue' = queue
    BY DEF Terminate, vars, queues
  <2> HIDE DEF P, next
  <2> QED BY <2>1, <2>2, <2>3, <2>4, <2>5, <2>6 DEF Next
<1> HIDE DEF P, next
<1>9. queue \o deferred \in Seq(Tasks)
  BY <1>1, ConcatProperties
<1>10. \A i \in DOMAIN (queue \o deferred) : (queue \o deferred)[i] \in P
  BY <1>1, <1>2, <1>3, <1>7, Elements
<1>11. CASE \E t \in Tasks : queue' = Append(queue, t) /\ t \notin P /\ Cancels(t)'
  <2>1. PICK t \in Tasks : queue' = Append(queue, t) /\ Cancels(t)'
    BY <1>11
  <2>2. ASSUME NEW i \in DOMAIN queue' PROVE queue'[i] \in P \cup {t}
    <3>1. P \cup {t} \in SUBSET Tasks
      BY <1>7
    <3> QED BY <1>1, <1>2, <2>1, <2>2, <3>1, Elements
  <2> QED BY <1>5, <2>1, <2>2
<1>12. CASE ~\E t \in Tasks : queue' = Append(queue, t) /\ t \notin P /\ Cancels(t)'
  <2>1. \A i \in DOMAIN queue' : queue'[i] \in P
    <3>1. \A t \in P : queue' = Append(queue, t) => \A i \in DOMAIN queue' : queue'[i] \in P
      BY <1>1, <1>2, <1>7, Elements
    <3>2. queue' = Append(queue \o deferred, next) => \A i \in DOMAIN queue' : queue'[i] \in P
      BY <1>1, <1>7, <1>9, <1>10, Elements
    <3>3. queue # <<>> /\ queue' = Tail(queue) => \A i \in DOMAIN queue' : queue'[i] \in P
      BY <1>1, <1>2, <1>7, Elements
    <3> QED BY <1>2, <1>7, <1>8, <1>10, <1>12, <3>1, <3>2, <3>3
  <2> QED BY <1>6, <2>1
<1> QED BY <1>11, <1>12

-----------------------------------------------------------------------------
(* How the steps move a task from place to place.                          *)

Queued(id)  == Occurrences(queue, ToDo(id)) + Occurrences(deferred, ToDo(id))
Holding(id) == {s \in Slots : Holds(s, id)}

LEMMA HoldersAre == \A id : Holders(id) = Queued(id) + Cardinality(Holding(id))
BY DEF Holders, Queued, Holding

\* The places are counted in natural numbers.
LEMMA CountType ==
    ASSUME TypeInv, NEW id
    PROVE  /\ Queued(id) \in Nat
           /\ IsFiniteSet(Holding(id)) /\ Cardinality(Holding(id)) \in Nat
           /\ Cardinality(Holding(id)) = 0 <=> Holding(id) = {}
           /\ Holders(id) \in Nat
<1>1. Queued(id) \in Nat
  <2>1. queue \in Seq(Tasks) /\ deferred \in Seq(Waits)
    BY DEF TypeInv, QueueType
  <2>2. Occurrences(queue, ToDo(id)) \in Nat
    BY <2>1, OccType
  <2>3. Occurrences(deferred, ToDo(id)) \in Nat
    BY <2>1, OccType
  <2> QED BY <2>2, <2>3 DEF Queued
<1>2. IsFiniteSet(Holding(id))
  <2>1. IsFiniteSet(Slots) /\ Holding(id) \subseteq Slots
    BY ServerAssumption, FS_Interval DEF Slots, Holding
  <2> QED BY <2>1, FS_Subset
<1>3. Cardinality(Holding(id)) \in Nat /\ (Cardinality(Holding(id)) = 0 <=> Holding(id) = {})
  BY <1>2, FS_CardinalityType, FS_EmptySet
<1> QED BY <1>1, <1>2, <1>3, HoldersAre

\* They are, before a step and after it.
LEMMA CountNow ==
    TypeInv => \A id : /\ Queued(id) \in Nat /\ Cardinality(Holding(id)) \in Nat
                       /\ Holders(id) \in Nat
BY CountType

LEMMA CountNext ==
    TypeInv' => \A id : /\ Queued(id)' \in Nat /\ Cardinality(Holding(id))' \in Nat
                        /\ Holders(id)' \in Nat
<1>1. (TypeInv => \A id : /\ Queued(id) \in Nat /\ Cardinality(Holding(id)) \in Nat
                          /\ Holders(id) \in Nat)'
  BY CountNow, PTL
<1> QED BY <1>1

\* A task that waits in a queue or is worked on in a slot is held.
LEMMA HeldBySlot ==
    ASSUME TypeInv, NEW s \in Slots, NEW id, Holds(s, id)
    PROVE  Holders(id) >= 1
<1>1. Holding(id) # {}
  BY DEF Holding
<1> QED BY <1>1, CountType, HoldersAre

\* What one slot takes up or gives up.
LEMMA OneSlot ==
    ASSUME TypeInv, TypeInv', NEW s \in Slots, NEW id,
           \A t \in Slots \ {s} : slots'[t] = slots[t]
    PROVE  Cardinality(Holding(id))' + (IF Holds(s, id) THEN 1 ELSE 0)
             = Cardinality(Holding(id)) + (IF Holds(s, id)' THEN 1 ELSE 0)
<1> DEFINE H == Holding(id) \ {s}
<1>1. H = Holding(id)' \ {s}
  BY DEF Holding, Holds
<1>2. IsFiniteSet(Holding(id)) /\ IsFiniteSet(Holding(id)')
  <2>1. IsFiniteSet(Slots) /\ Holding(id) \subseteq Slots /\ Holding(id)' \subseteq Slots
    BY ServerAssumption, FS_Interval DEF Slots, Holding
  <2> QED BY <2>1, FS_Subset
<1>3. IsFiniteSet(H) /\ s \notin H /\ Cardinality(H) \in Nat
  <2>1. H \subseteq Holding(id)
    OBVIOUS
  <2>2. IsFiniteSet(H)
    BY <1>2, <2>1, FS_Subset
  <2> QED BY <2>2, FS_CardinalityType
<1>4. Cardinality(H \cup {s}) = Cardinality(H) + 1
  BY <1>3, FS_AddElement
<1>5. Holding(id) = IF Holds(s, id) THEN H \cup {s} ELSE H
  BY DEF Holding
<1>6. Holding(id)' = IF Holds(s, id)' THEN H \cup {s} ELSE H
  <2> HIDE DEF H
  <2>1. s \in Holding(id)' <=> Holds(s, id)'
    BY DEF Holding
  <2> QED BY <1>1, <2>1
<1>7. Cardinality(Holding(id)') = Cardinality(H) + (IF Holds(s, id)' THEN 1 ELSE 0)
  <2> HIDE DEF H
  <2> QED BY <1>3, <1>4, <1>6
<1>8. Cardinality(Holding(id)) = Cardinality(H) + (IF Holds(s, id) THEN 1 ELSE 0)
  <2> HIDE DEF H
  <2> QED BY <1>3, <1>4, <1>5
<1> HIDE DEF H
<1> QED BY <1>3, <1>7, <1>8

\* The head of the queue leaves it.
LEMMA QueuedTake ==
    ASSUME TypeInv, NEW type, Working(type), TakeTask, NEW id
    PROVE  Queued(id) = Queued(id)' + (IF Head(queue) \in ToDo(id) THEN 1 ELSE 0)
<1>1. queue \in Seq(Tasks) /\ queue # <<>> /\ queue' = Tail(queue) /\ deferred' = deferred
  BY DEF TypeInv, QueueType, Working, TakeTask
<1>2. Occurrences(queue, ToDo(id))
        = Occurrences(Tail(queue), ToDo(id)) + (IF Head(queue) \in ToDo(id) THEN 1 ELSE 0)
  BY <1>1, OccTail
<1>3. Tail(queue) \in Seq(Tasks)
  BY <1>1, HeadTailProperties
<1>4. /\ Occurrences(queue, ToDo(id)) \in Nat
      /\ Occurrences(Tail(queue), ToDo(id)) \in Nat
  BY <1>1, <1>3, OccType
<1>5. deferred \in Seq(Waits)
  BY DEF TypeInv, QueueType
<1>6. Occurrences(deferred, ToDo(id)) \in Nat
  BY <1>5, OccType
<1>7. ToDo(id)' = ToDo(id)
  BY DEF ToDo, Task
<1> QED BY <1>1, <1>2, <1>4, <1>6, <1>7 DEF Queued

\* nothing moves that counts
StaysPut ==
    /\ UNCHANGED <<results, multis>>
    /\ \A id \in Ids : Holders(id)' = Holders(id)

\* a task leaves its place for its answer
Answered(id, r) ==
    /\ id \in Ids /\ r \in Ends /\ Send(id, r)
    /\ Holders(id) = Holders(id)' + 1
    /\ \A j \in Ids \ {id} : Holders(j)' = Holders(j)

\* a part is sent of a task that stays where it is
PartSent(id) ==
    /\ id \in Ids /\ want[id[1]].stream /\ Send(id, "partial")
    /\ Holders(id) >= 1
    /\ \A j \in Ids : Holders(j)' = Holders(j)

\* a task is given up whose handler leaves
GivenUp(id) ==
    /\ UNCHANGED <<results, multis>>
    /\ id \in Ids /\ handler[id[1]] \in {"leave", "done"}
    /\ Holders(id)' <= Holders(id)
    /\ \A j \in Ids \ {id} : Holders(j)' = Holders(j)

\* The head of the queue is the one task it is.
LEMMA HeadToDo ==
    ASSUME TypeInv, NEW type, Working(type), NEW id
    PROVE  Head(queue) \in ToDo(id) <=> type \in Kinds /\ Head(queue).id = id
<1>1. Head(queue) \in Tasks /\ Head(queue).type = type
  BY TakeType DEF TypeInv, Working
<1>2. CASE Head(queue) \in [type : Kinds \cup {"cancel"}, id : Ids]
  BY <1>1, <1>2 DEF ToDo, Task, Kinds
<1>3. CASE Head(queue) = Task("next", NoTask)
  BY <1>1, <1>3 DEF ToDo, Task, Kinds
<1> QED BY <1>1, <1>2, <1>3 DEF Tasks

\* A deferred task changes its queue.
LEMMA QueuedDefer ==
    ASSUME TypeInv, NEW type \in {"completion", "action"}, Working(type), DeferTask, NEW id
    PROVE  Queued(id)' = Queued(id)
<1> DEFINE h == Head(queue)
           S == ToDo(id)
<1>1. queue \in Seq(Tasks) /\ queue # <<>> /\ deferred \in Seq(Waits)
  BY DEF TypeInv, QueueType, Working
<1>2. h \in Waits
  BY TakeType DEF Waits, Tasks, Task, Working, TypeInv, QueueType, NoTask, Kinds
<1>3. queue' = Tail(queue) /\ deferred' = Append(deferred, h)
  BY DEF DeferTask
<1>4. Occurrences(queue, S) = Occurrences(Tail(queue), S) + (IF h \in S THEN 1 ELSE 0)
  BY <1>1, OccTail
<1>5. Occurrences(Append(deferred, h), S)
        = Occurrences(deferred, S) + (IF h \in S THEN 1 ELSE 0)
  BY <1>1, <1>2, OccAppend
<1>6. Occurrences(Tail(queue), S) \in Nat /\ Occurrences(deferred, S) \in Nat
  <2>1. Tail(queue) \in Seq(Tasks)
    BY <1>1, HeadTailProperties
  <2>2. Occurrences(Tail(queue), S) \in Nat
    BY <2>1, OccType
  <2> QED BY <1>1, <2>2, OccType
<1>7. Queued(id)' = Occurrences(queue', S) + Occurrences(deferred', S)
  BY DEF Queued, ToDo, Task
<1>8. Queued(id) = Occurrences(queue, S) + Occurrences(deferred, S)
  BY DEF Queued
<1> HIDE DEF h, S
<1> QED BY <1>3, <1>4, <1>5, <1>6, <1>7, <1>8

\* A task that is worked off goes to a slot or to its answer, or was cancelled.
LEMMA TaskMoves ==
    ASSUME Orderly, TypeInv, TypeInv', SlotsInStep, Registered, ProcessTask
    PROVE  \/ StaysPut
           \/ \E id \in Ids : GivenUp(id) \/ \E r \in Ends : Answered(id, r)
<1> DEFINE h == Head(queue).id
<1>1. slots \in [Slots -> SlotType]
  BY DEF TypeInv, LoopType
<1>2. \A id : /\ Queued(id) \in Nat /\ Queued(id)' \in Nat
              /\ Cardinality(Holding(id)) \in Nat /\ Cardinality(Holding(id))' \in Nat
  BY CountNow, CountNext
<1>3. \A id : /\ Holders(id) = Queued(id) + Cardinality(Holding(id))
              /\ Holders(id)' = Queued(id)' + Cardinality(Holding(id))'
  BY DEF Holders, Queued, Holding
<1>4. ASSUME NEW type, Working(type), type \in Kinds \cup {"cancel"} PROVE h \in Ids
  BY <1>4, TakeType DEF TypeInv
<1>5. ASSUME slots' = slots
      PROVE  \A id : Cardinality(Holding(id))' = Cardinality(Holding(id))
  <2>1. \A id : Holding(id)' = Holding(id)
    BY <1>5 DEF Holding, Holds
  <2> QED BY <2>1
<1>6. ASSUME NEW type, Working(type), TakeTask, NEW id
      PROVE  Queued(id) = Queued(id)' + (IF type \in Kinds /\ h = id THEN 1 ELSE 0)
  BY <1>6, QueuedTake, HeadToDo
<1> HIDE DEF h
<1>7. CASE DeferRequest
  <2>1. PICK type \in {"completion", "action"} : Working(type)
    BY <1>7 DEF DeferRequest
  <2>2. \A id : Queued(id)' = Queued(id)
    BY <1>7, <2>1, QueuedDefer DEF DeferRequest
  <2>3. slots' = slots /\ UNCHANGED <<results, multis>>
    BY <1>7 DEF DeferRequest, SendNothing
  <2> QED BY <1>3, <1>5, <2>2, <2>3 DEF StaysPut
<1>8. CASE Launch
  <2>1. Working("completion") /\ TakeTask /\ UNCHANGED <<results, multis>>
    BY <1>8 DEF Launch, SendNothing
  <2>2. h \in Ids
    BY <1>4, <2>1 DEF Kinds
  <2>3. PICK s \in Slots : /\ Available(s)
           /\ slots' = [slots EXCEPT ![s].task = h, ![s].command = "load", ![s].steps = 0]
    BY <1>8, <2>2, PromptedNot DEF Launch, Candidates, h, TypeInv
  <2>4. /\ slots'[s].task = h /\ slots'[s].command = "load"
        /\ slots'[s].state = slots[s].state
    BY <1>1, <2>3 DEF SlotType
  <2>5. \A t \in Slots \ {s} : slots'[t] = slots[t]
    BY <1>1, <2>3
  <2>6. ASSUME NEW id
        PROVE  Cardinality(Holding(id))' = Cardinality(Holding(id)) + (IF id = h THEN 1 ELSE 0)
    <3>1. ~Holds(s, id) /\ (Holds(s, id)' <=> id = h)
      BY <2>3, <2>4 DEF Holds, Available
    <3> QED BY <1>2, <2>5, <3>1, OneSlot
  <2>7. \A id : Queued(id) = Queued(id)' + (IF h = id THEN 1 ELSE 0)
    BY <1>6, <2>1 DEF Kinds
  <2>8. \A id : Holders(id)' = Holders(id)
    BY <1>2, <1>3, <2>6, <2>7
  <2> QED BY <2>1, <2>8 DEF StaysPut
<1>9. ASSUME NEW type \in Kinds, Working(type), TakeTask,
             NEW r \in Ends, Send(h, r),
             \A id : Cardinality(Holding(id))' = Cardinality(Holding(id))
      PROVE  \E id \in Ids : \E q \in Ends : Answered(id, q)
  <2>1. PICK i \in Ids : i = h
    BY <1>4, <1>9
  <2>2. \A id : Holders(id) = Holders(id)' + (IF i = id THEN 1 ELSE 0)
    BY <1>2, <1>3, <1>6, <1>9, <2>1
  <2>3. Holders(i) = Holders(i)' + 1
    BY <2>2
  <2>4. \A j \in Ids \ {i} : Holders(j)' = Holders(j)
    BY <1>2, <1>3, <2>2
  <2>5. Send(i, r)
    BY <1>9, <2>1
  <2>6. Answered(i, r)
    BY <2>3, <2>4, <2>5 DEF Answered
  <2> QED BY <2>6
<1>10. CASE LaunchRejected
  <2>1. Working("completion") /\ TakeTask /\ Send(h, "error")
    BY <1>10 DEF LaunchRejected, h
  <2>2. h \in Ids
    BY <1>4, <2>1 DEF Kinds
  <2>3. PICK s \in Slots : Available(s) /\ slots' = [slots EXCEPT ![s].task = h]
    BY <1>10, <2>2, PromptedNot DEF LaunchRejected, Candidates, h, TypeInv
  <2>4. \A t \in Slots \ {s} : slots'[t] = slots[t]
    BY <1>1, <2>3
  <2>5. slots'[s].state = slots[s].state /\ slots'[s].command = slots[s].command
    BY <1>1, <2>3 DEF SlotType
  <2>6. ASSUME NEW id PROVE Cardinality(Holding(id))' = Cardinality(Holding(id))
    <3>1. ~Holds(s, id) /\ ~Holds(s, id)'
      BY <2>3, <2>5 DEF Holds, Available
    <3> QED BY <1>2, <2>4, <3>1, OneSlot
  <2> QED BY <1>9, <2>1, <2>6 DEF Kinds, Ends
<1>11. CASE StatusTask
  BY <1>5, <1>9, <1>11 DEF StatusTask, Kinds, Ends, h
<1>12. CASE SlotAction
  <2>1. \E r \in Ends : Send(h, r)
    BY <1>12 DEF SlotAction, Ends, h
  <2> QED BY <1>5, <1>9, <1>12, <2>1 DEF SlotAction, Kinds
<1>13. CASE NextResponse
  <2>1. /\ Working("next") /\ TakeTask /\ slots' = slots
        /\ UNCHANGED <<results, multis>>
    BY <1>13 DEF NextResponse, SendNothing
  <2>2. \A id : Queued(id) = Queued(id)'
    BY <1>2, <1>6, <2>1 DEF Kinds
  <2> QED BY <1>3, <1>5, <2>1, <2>2 DEF StaysPut
<1>14. CASE CancelTask
  <2>1. /\ Working("cancel") /\ TakeTask /\ UNCHANGED <<results, multis>>
        /\ slots' = ReleaseCancelled(h)
    BY <1>14 DEF CancelTask, SendNothing, h
  <2>2. h \in Ids
    BY <1>4, <2>1
  <2>3. handler[h[1]] \in {"leave", "done"}
    <3>1. 1 \in DOMAIN queue /\ Head(queue) = queue[1] /\ Head(queue).type = "cancel"
      BY <2>1, LenProperties, EmptySeq, HeadTailProperties DEF Working, TypeInv, QueueType
    <3> QED BY <3>1 DEF Registered, Cancels, h
  <2>4. \A id : Queued(id) = Queued(id)'
    BY <1>2, <1>6, <2>1 DEF Kinds
  <2>5. CASE slots' = slots
    BY <1>3, <1>5, <2>1, <2>4, <2>5 DEF StaysPut
  <2>6. CASE slots' # slots
    <3> DEFINE linked == {s \in Slots : slots[s].task = h}
    <3>1. linked # {} /\ slots' = [slots EXCEPT ![Lowest(linked)] = Released(@)]
      BY <2>1, <2>6 DEF ReleaseCancelled
    <3>2. Lowest(linked) \in linked
      BY <3>1, LowestSlot
    <3>3. PICK s \in Slots : slots[s].task = h /\ slots' = [slots EXCEPT ![s] = Released(@)]
      BY <3>1, <3>2
    <3>4. \A t \in Slots \ {s} : slots'[t] = slots[t]
      BY <1>1, <3>3
    <3>5. /\ slots'[s].task = h /\ slots'[s].state = slots[s].state
          /\ slots'[s].command \in {slots[s].command, "release"}
      BY <1>1, <3>3 DEF Released, SlotType
    <3>6. ASSUME NEW id \in Ids
          PROVE  /\ Cardinality(Holding(id))' <= Cardinality(Holding(id))
                 /\ id # h => Cardinality(Holding(id))' = Cardinality(Holding(id))
      <4>1. /\ Holds(s, id)' => Holds(s, id)
            /\ id # h => ~Holds(s, id) /\ ~Holds(s, id)'
        BY <3>3, <3>5 DEF Holds
      <4> QED BY <1>2, <3>4, <4>1, OneSlot
    <3>7. PICK i \in Ids : i = h
      BY <2>2
    <3>8. \A id \in Ids : Holders(id)' <= Holders(id) /\ (id # i => Holders(id)' = Holders(id))
      BY <1>2, <1>3, <2>4, <3>6, <3>7
    <3>9. GivenUp(i)
      BY <2>1, <2>3, <3>7, <3>8 DEF GivenUp
    <3> QED BY <3>9
  <2> QED BY <2>5, <2>6
<1> QED BY <1>7, <1>8, <1>10, <1>11, <1>12, <1>13, <1>14 DEF ProcessTask

\* No result of a slot that never had a task goes anywhere.
LEMMA SendsNowhere ==
    ASSUME TypeInv, NEW id, id = NoTask, NEW r, Send(id, r)
    PROVE  UNCHANGED <<results, multis>>
<1>1. id = <<NoClient, 0>> /\ NoClient \notin Clients
  BY ServerAssumption DEF NoTask
<1>2. ~Reaches(id) /\ id[2] = 0
  BY <1>1 DEF Reaches, TypeInv, ResultType
<1> QED BY <1>2 DEF Send

\* A slot that gives its task up for the answer.
LEMMA SlotAnswers ==
    ASSUME TypeInv, TypeInv', NEW s \in Slots, NEW r \in Ends,
           UNCHANGED <<queue, deferred>>, Send(slots[s].task, r),
           Holds(s, slots[s].task),
           \A t \in Slots \ {s} : slots'[t] = slots[t],
           slots'[s].state = "processing" /\ slots'[s].command = "release"
    PROVE  StaysPut \/ \E id \in Ids : Answered(id, r)
<1>1. PICK i : i = slots[s].task
  OBVIOUS
<1>2. i \in Ids \cup {NoTask}
  BY <1>1 DEF TypeInv, LoopType, SlotType
<1>3. ASSUME NEW id
      PROVE  /\ Cardinality(Holding(id)) = Cardinality(Holding(id))' + (IF id = i THEN 1 ELSE 0)
             /\ Queued(id)' = Queued(id)
  <2>1. /\ Holds(s, id) <=> id = i
        /\ ~Holds(s, id)'
    BY <1>1 DEF Holds
  <2>2. Queued(id)' = Queued(id)
    BY DEF Queued, ToDo, Task
  <2>3. Cardinality(Holding(id)) \in Nat /\ Cardinality(Holding(id))' \in Nat
    BY CountNow, CountNext
  <2>4. Cardinality(Holding(id))' + (IF Holds(s, id) THEN 1 ELSE 0)
             = Cardinality(Holding(id)) + (IF Holds(s, id)' THEN 1 ELSE 0)
    BY OneSlot
  <2> QED BY <2>1, <2>2, <2>3, <2>4
<1>4. \A id : Holders(id) = Holders(id)' + (IF id = i THEN 1 ELSE 0)
  <2>1. \A id : /\ Holders(id) = Queued(id) + Cardinality(Holding(id))
                /\ Holders(id)' = Queued(id)' + Cardinality(Holding(id))'
    BY DEF Holders, Queued, Holding
  <2>2. \A id : /\ Queued(id) \in Nat /\ Cardinality(Holding(id)) \in Nat
                /\ Cardinality(Holding(id))' \in Nat
    BY CountNow, CountNext
  <2> QED BY <1>3, <2>1, <2>2
<1>5. \A id : id # i => Holders(id)' = Holders(id)
  BY <1>4, CountNext
<1>6. CASE i = NoTask
  <2>1. UNCHANGED <<results, multis>>
    BY <1>1, <1>6, SendsNowhere
  <2>2. NoTask \notin Ids
    BY ServerAssumption DEF NoTask, Ids
  <2> QED BY <1>5, <1>6, <2>1, <2>2 DEF StaysPut
<1>7. CASE i \in Ids
  <2>1. Holders(i) = Holders(i)' + 1
    BY <1>4
  <2>2. Send(i, r)
    BY <1>1
  <2> QED BY <1>5, <1>7, <2>1, <2>2 DEF Answered
<1> QED BY <1>2, <1>6, <1>7

\* A task stays in its slot when the slot goes on with it.
LEMMA SlotGoesOn ==
    ASSUME TypeInv, TypeInv', NEW s \in Slots, UNCHANGED <<queue, deferred>>,
           \A t \in Slots \ {s} : slots'[t] = slots[t],
           \A id : Holds(s, id)' <=> Holds(s, id)
    PROVE  \A id \in Ids : Holders(id)' = Holders(id)
<1> SUFFICES ASSUME NEW id \in Ids PROVE Holders(id)' = Holders(id)
  OBVIOUS
<1>1. Queued(id)' = Queued(id)
  BY DEF Queued, ToDo, Task
<1>2. Holding(id)' = Holding(id)
  BY DEF Holding, Holds
<1> QED BY <1>1, <1>2 DEF Holders, Queued, Holding

\* The rounds move a task from its slot to its answer, send parts of it, move
\* what is deferred, or finish a multitask.
LEMMA LoopMoves ==
    ASSUME Orderly, TypeInv, TypeInv', SlotsInStep, MainStep, ~ProcessTask
    PROVE  \/ StaysPut
           \/ \E id \in Ids : PartSent(id) \/ \E r \in Ends : Answered(id, r)
           \/ /\ \E c \in Clients : FinishMultitask(c)
              /\ \A id \in Ids : Holders(id)' = Holders(id)
<1>0. slots \in [Slots -> SlotType] /\ \A s \in Slots : slots[s] \in SlotType
  BY DEF TypeInv, LoopType
<1>1. ASSUME UNCHANGED <<queue, deferred, slots>>
      PROVE  \A id \in Ids : Holders(id)' = Holders(id)
  BY <1>1 DEF Holders, Holds, ToDo, Task
<1>2. CASE StartLoop \/ TasksDone \/ MultitasksDone \/ PromptsDone \/ DecodeDone
           \/ FailDone \/ Decide \/ Wake
  BY <1>1, <1>2 DEF StartLoop, TasksDone, MultitasksDone, PromptsDone, DecodeDone,
     FailDone, Decide, Wake, queues, StaysPut
<1>3. ASSUME NEW s \in Slots, Prefilled(s) PROVE StaysPut
  BY <1>1, <1>3 DEF Prefilled, queues, StaysPut
<1>4. ASSUME NEW c \in Clients, FinishMultitask(c)
      PROVE  \A id \in Ids : Holders(id)' = Holders(id)
  BY <1>1, <1>4 DEF FinishMultitask, queues
<1>5. CASE DecodeFailed \/ \E s \in Slots : FailSlot(s)
  BY <1>5 DEF DecodeFailed, Orderly, FailSlot, SlotsInStep
<1>6. ASSUME NEW s \in Slots, Finish(s)
      PROVE  StaysPut \/ \E id \in Ids : \E r \in Ends : Answered(id, r)
  <2>1. slots[s].state = "processing" /\ slots[s].command = "none"
    BY <1>6 DEF Finish, Samples, SlotsInStep
  <2>2. Holds(s, slots[s].task)
    BY <2>1 DEF Holds
  <2>3. /\ slots'[s].state = "processing" /\ slots'[s].command = "release"
        /\ \A t \in Slots \ {s} : slots'[t] = slots[t]
    BY <1>0, <1>6, <2>1 DEF Finish, Released, SlotType
  <2>4. UNCHANGED <<queue, deferred>> /\ Send(slots[s].task, "final") /\ "final" \in Ends
    BY <1>6 DEF Finish, queues, Ends
  <2> QED BY <2>2, <2>3, <2>4, SlotAnswers
<1>7. ASSUME NEW s \in Slots, Sample(s) PROVE StaysPut \/ \E id \in Ids : PartSent(id)
  <2>1. slots[s].state = "processing" /\ slots[s].command = "none"
    BY <1>7 DEF Sample, Samples, SlotsInStep
  <2>2. /\ slots'[s].state = slots[s].state /\ slots'[s].command = slots[s].command
        /\ slots'[s].task = slots[s].task
        /\ \A t \in Slots \ {s} : slots'[t] = slots[t]
    BY <1>0, <1>7 DEF Sample, SlotType
  <2>3. UNCHANGED <<queue, deferred>>
    BY <1>7 DEF Sample, queues
  <2>4. \A id : Holds(s, id)' <=> Holds(s, id)
    BY <2>2 DEF Holds
  <2>5. \A id \in Ids : Holders(id)' = Holders(id)
    BY <2>2, <2>3, <2>4, SlotGoesOn
  <2>6. PICK i : i = slots[s].task
    OBVIOUS
  <2>7. i \in Ids \cup {NoTask} /\ Holders(i) >= 1
    <3>1. Holds(s, i)
      BY <2>1, <2>6 DEF Holds
    <3> QED BY <1>0, <2>6, <3>1, HeldBySlot DEF SlotType
  <2>8. CASE SendNothing
    BY <2>5, <2>8 DEF SendNothing, StaysPut
  <2>9. CASE want[i[1]].stream /\ Send(i, "partial")
    <3>1. CASE i \in Ids
      BY <2>5, <2>7, <2>9, <3>1 DEF PartSent
    <3>2. CASE i = NoTask
      BY <2>5, <2>9, <3>2, SendsNowhere DEF StaysPut
    <3> QED BY <2>7, <3>1, <3>2
  <2> QED BY <1>7, <2>6, <2>8, <2>9 DEF Sample
<1>8. ASSUME NEW s \in Slots, LoadPrompt(s)
      PROVE  StaysPut \/ \E id \in Ids : \E r \in Ends : Answered(id, r)
  <2>1. slots[s].state = "idle" /\ slots[s].command = "load"
    <3>1. main = "prompts" /\ visit # {} /\ s = Lowest(visit)
      BY <1>8 DEF LoadPrompt
    <3>2. s \in visit
      BY <3>1, LowestSlot DEF TypeInv, LoopType
    <3> QED BY <3>1, <3>2 DEF SlotsInStep
  <2>2. UNCHANGED <<queue, deferred>>
    BY <1>8 DEF LoadPrompt, queues
  <2>3. PICK n :
           \/ SendNothing /\ slots' = [slots EXCEPT ![s].steps = n]
           \/ /\ slots' = [slots EXCEPT ![s].state = "processing",
                                        ![s].command = "release", ![s].steps = n]
              /\ \E r \in Ends : Send(slots[s].task, r)
           \/ /\ slots' = [slots EXCEPT ![s].state = "processing", ![s].command = "none",
                                        ![s].steps = n, ![s].inBatch = TRUE]
              /\ SendNothing
    BY <1>8 DEF LoadPrompt, Ends
  <2>4. \A t \in Slots \ {s} : slots'[t] = slots[t]
    BY <1>0, <2>3
  <2>5. CASE SendNothing /\ slots' = [slots EXCEPT ![s].steps = n]
    <3>1. \A id : Holds(s, id)' <=> Holds(s, id)
      BY <1>0, <2>5 DEF Holds, SlotType
    <3> QED BY <2>2, <2>4, <2>5, <3>1, SlotGoesOn DEF SendNothing, StaysPut
  <2>6. CASE /\ slots' = [slots EXCEPT ![s].state = "processing",
                                        ![s].command = "release", ![s].steps = n]
             /\ \E r \in Ends : Send(slots[s].task, r)
    <3>1. Holds(s, slots[s].task)
      BY <2>1 DEF Holds
    <3>2. slots'[s].state = "processing" /\ slots'[s].command = "release"
      BY <1>0, <2>6 DEF SlotType
    <3> QED BY <2>2, <2>4, <2>6, <3>1, <3>2, SlotAnswers
  <2>7. CASE /\ slots' = [slots EXCEPT ![s].state = "processing", ![s].command = "none",
                                        ![s].steps = n, ![s].inBatch = TRUE]
             /\ SendNothing
    <3>1. /\ slots'[s].state = "processing" /\ slots'[s].command = "none"
          /\ slots'[s].task = slots[s].task
      BY <1>0, <2>7 DEF SlotType
    <3>2. \A id : Holds(s, id)' <=> Holds(s, id)
      BY <2>1, <3>1 DEF Holds
    <3> QED BY <2>2, <2>4, <2>7, <3>2, SlotGoesOn DEF SendNothing, StaysPut
  <2> QED BY <2>3, <2>5, <2>6, <2>7
<1>9. CASE UpdateSlots
  <2> DEFINE freed == {s \in Slots : slots[s].command = "release"}
             now   == [s \in Slots |-> IF s \in freed
                    THEN [slots[s] EXCEPT !.state = "idle", !.command = "none"]
                    ELSE slots[s]]
             moved == IF freed = {} THEN queues ELSE Notified
             going == {s \in Slots : now[s].state = "processing"}
  <2>1. /\ slots' \in {now, [s \in Slots |-> IF s \in going
                               THEN [now[s] EXCEPT !.inBatch = TRUE] ELSE now[s]]}
        /\ deferred' = moved[2] /\ queue' \in {moved[1], PostsNext(moved[1])}
        /\ UNCHANGED <<results, multis>>
    BY <1>9 DEF UpdateSlots
  <2>2. \A s \in Slots : /\ now[s].task = slots[s].task
                         /\ \/ now[s].state = slots[s].state /\ now[s].command = slots[s].command
                            \/ /\ slots[s].command = "release"
                               /\ now[s].state = "idle" /\ now[s].command = "none"
    BY <1>0 DEF SlotType
  <2>3. \A s \in Slots : now[s] \in SlotType
    BY <1>0 DEF SlotType
  <2>4. \A s \in Slots : /\ slots'[s].task = now[s].task
                         /\ slots'[s].state = now[s].state /\ slots'[s].command = now[s].command
    <3>1. \A s \in Slots : LET x == [now[s] EXCEPT !.inBatch = TRUE]
             IN x.task = now[s].task /\ x.state = now[s].state /\ x.command = now[s].command
      BY <2>3 DEF SlotType
    <3>2. \A s \in Slots : slots'[s] \in {now[s], [now[s] EXCEPT !.inBatch = TRUE]}
      BY <2>1
    <3> HIDE DEF now
    <3> QED BY <3>1, <3>2
  <2>5. \A id : Holding(id)' = Holding(id)
    <3>1. \A id : \A s \in Slots : Holds(s, id)' <=> Holds(s, id)
      <4> HIDE DEF now
      <4> QED BY <2>2, <2>4 DEF Holds
    <3> QED BY <3>1 DEF Holding
  <2>6. ASSUME NEW id PROVE Queued(id)' = Queued(id)
    <3> DEFINE S == ToDo(id)
               q == queue \o deferred
    <3>1. queue \in Seq(Tasks) /\ deferred \in Seq(Waits) /\ deferred \in Seq(Tasks)
          /\ <<>> \in Seq(Waits) /\ Task("next", NoTask) \in Tasks
      <4>1. queue \in Seq(Tasks) /\ deferred \in Seq(Waits) /\ Waits \subseteq Tasks
        BY DEF TypeInv, QueueType, Waits, Tasks, Kinds
      <4> QED BY <4>1, SeqMonotonic, EmptySeq DEF Tasks
    <3>2. q \in Seq(Tasks)
      BY <3>1, ConcatProperties
    <3>3. Occurrences(q, S) = Occurrences(queue, S) + Occurrences(deferred, S)
      BY <3>1, OccConcat
    <3>4. Task("next", NoTask) \notin S
      BY DEF ToDo, Task
    <3> HIDE DEF S
    <3>5. Occurrences(queue, S) \in Nat
      BY <3>1, OccType
    <3>6. Occurrences(deferred, S) \in Nat
      BY <3>1, OccType
    <3>7. Occurrences(PostsNext(queue), S) = Occurrences(queue, S)
      BY <3>1, <3>4, <3>5, OccAppend DEF PostsNext
    <3>8. Occurrences(PostsNext(q), S) = Occurrences(q, S)
      <4> HIDE DEF q
      <4>1. Occurrences(q, S) \in Nat
        BY <3>2, OccType
      <4> QED BY <3>1, <3>2, <3>4, <4>1, OccAppend DEF PostsNext
    <3>9. Queued(id)' = Occurrences(queue', S) + Occurrences(deferred', S)
      BY DEF Queued, ToDo, Task, S
    <3>10. Queued(id) = Occurrences(queue, S) + Occurrences(deferred, S)
      BY DEF Queued, S
    <3>11. CASE freed = {}
      <4>1. deferred' = deferred /\ queue' \in {queue, PostsNext(queue)}
        BY <2>1, <3>11 DEF queues
      <4> QED BY <3>7, <3>9, <3>10, <4>1
    <3>12. CASE freed # {}
      <4>1. deferred' = <<>> /\ queue' \in {q, PostsNext(q)}
        BY <2>1, <3>12 DEF Notified
      <4>2. Occurrences(queue', S) = Occurrences(queue, S) + Occurrences(deferred, S)
        BY <3>3, <3>8, <4>1
      <4>3. Occurrences(deferred', S) = 0
        BY <4>1, OccEmpty
      <4> QED BY <3>5, <3>6, <3>9, <3>10, <4>2, <4>3
    <3> QED BY <3>11, <3>12
  <2>7. \A id : Holders(id)' = Holders(id)
    BY <2>5, <2>6 DEF Holders, Queued, Holding
  <2> QED BY <2>1, <2>7 DEF StaysPut
<1> QED BY <1>2, <1>3, <1>4, <1>5, <1>6, <1>7, <1>8, <1>9 DEF MainStep

-----------------------------------------------------------------------------
(* Each task is accounted for.                                             *)

\* The ids that have been posted.
LEMMA PostedIdsAre ==
    ASSUME TypeInv, NEW c \in Clients, NEW k \in Nat
    PROVE  <<c, k>> \in PostedIds(c) <=>
              \/ want[c].prompts > 1 /\ k \in 1 .. posted[c]
              \/ want[c].prompts = 1 /\ k = 0 /\ handler[c] \notin {"new", "post"}
<1>1. want[c].prompts \in Nat \ {0} /\ posted[c] \in Nat
  BY WantType DEF TypeInv, HttpType, Request
<1> QED BY <1>1 DEF PostedIds

\* The answers to the ids of a request.
LEMMA AnswersAre ==
    ASSUME TypeInv, NEW c \in Clients, NEW k \in Nat
    PROVE  /\ Answers(<<c, k>>) = IF k = 0 THEN Occurrences(results[c], Ends)
                                  ELSE Occurrences(multis[c].got, {<<c, k>>} \X Ends)
           /\ Answers(<<c, k>>) \in Nat
<1>1. Answers(<<c, k>>) = IF k = 0 THEN Occurrences(results[c], Ends)
                          ELSE Occurrences(multis[c].got, {<<c, k>>} \X Ends)
  BY DEF Answers
<1>2. results[c] \in Seq(Results) /\ multis[c].got \in Seq(Ids \X Results)
  BY DEF TypeInv, ResultType
<1>3. Occurrences(results[c], Ends) \in Nat
  BY <1>2, OccType
<1>4. Occurrences(multis[c].got, {<<c, k>>} \X Ends) \in Nat
  BY <1>2, OccType
<1> QED BY <1>1, <1>3, <1>4

\* The two, after a step.
LEMMA PostedIdsNext ==
    ASSUME TypeInv', NEW c \in Clients, NEW k \in Nat
    PROVE  <<c, k>> \in PostedIds(c)' <=>
              \/ want'[c].prompts > 1 /\ k \in 1 .. posted'[c]
              \/ want'[c].prompts = 1 /\ k = 0 /\ handler'[c] \notin {"new", "post"}
<1>1. want'[c].prompts \in Nat \ {0} /\ posted'[c] \in Nat
  BY ServerAssumption DEF TypeInv, HttpType, Request
<1> QED BY <1>1 DEF PostedIds

LEMMA AnswersNext ==
    ASSUME TypeInv', NEW c \in Clients, NEW k \in Nat
    PROVE  /\ Answers(<<c, k>>)' = IF k = 0 THEN Occurrences(results'[c], Ends)
                                   ELSE Occurrences(multis'[c].got, {<<c, k>>} \X Ends)
           /\ Answers(<<c, k>>)' \in Nat
<1>1. Answers(<<c, k>>)' = IF k = 0 THEN Occurrences(results'[c], Ends)
                           ELSE Occurrences(multis'[c].got, {<<c, k>>} \X Ends)
  BY DEF Answers
<1>2. results'[c] \in Seq(Results) /\ multis'[c].got \in Seq(Ids \X Results)
  BY DEF TypeInv, ResultType
<1>3. Occurrences(results'[c], Ends) \in Nat
  BY <1>2, OccType
<1>4. Occurrences(multis'[c].got, {<<c, k>>} \X Ends) \in Nat
  BY <1>2, OccType
<1> QED BY <1>1, <1>3, <1>4

\* A request is accounted for as before when nothing happens to it but that,
\* while nobody waits for it, it is given up.
LEMMA Unmoved ==
    ASSUME TypeInv, TypeInv', NEW c \in Clients, Sound(c), want' = want,
           handler'[c] = handler[c], posted'[c] = posted[c], results'[c] = results[c],
           multis'[c] = multis[c],
           \A k \in Nat : /\ Holders(<<c, k>>)' <= Holders(<<c, k>>)
                          /\ Served(c) => Holders(<<c, k>>)' = Holders(<<c, k>>)
    PROVE  Sound(c)'
<1>1. \A k \in Nat : /\ Answers(<<c, k>>)' = Answers(<<c, k>>)
                     /\ Answers(<<c, k>>) \in Nat
  <2> SUFFICES ASSUME NEW k \in Nat
               PROVE  /\ Answers(<<c, k>>)' = Answers(<<c, k>>)
                      /\ Answers(<<c, k>>) \in Nat
    OBVIOUS
  <2>1. Answers(<<c, k>>) \in Nat
    BY AnswersAre
  <2>2. Answers(<<c, k>>)' = Answers(<<c, k>>)
    BY DEF Answers
  <2> QED BY <2>1, <2>2
<1>2. \A k \in Nat : Holders(<<c, k>>) \in Nat /\ Holders(<<c, k>>)' \in Nat
  BY CountNow, CountNext
<1>3. PostedIds(c)' = PostedIds(c) /\ (Served(c)' <=> Served(c))
  BY DEF PostedIds, Served
<1>4. Accounted(c)'
  <2> SUFFICES ASSUME NEW k \in Nat
               PROVE /\ Total(<<c, k>>)' <= 1
                     /\ <<c, k>> \notin PostedIds(c)' =>
                           Holders(<<c, k>>)' = 0 /\ (k > 0 => Answers(<<c, k>>)' = 0)
                     /\ <<c, k>> \in PostedIds(c)' /\ Served(c)' => Total(<<c, k>>)' = 1
    BY DEF Accounted
  <2> QED BY <1>1, <1>2, <1>3 DEF Sound, Accounted, Total
<1>5. Gathers(c)'
  <2>1. want[c].prompts \in Nat
    BY WantType DEF TypeInv, Request
  <2>2. \A k \in 1 .. want[c].prompts : Answers(<<c, k>>)' = Answers(<<c, k>>)
    BY <1>1, <2>1
  <2> QED BY <2>2 DEF Sound, Gathers
<1>6. Responds(c)'
  <2>1. Holders(<<c, 0>>)' <= Holders(<<c, 0>>) /\ Holders(<<c, 0>>) \in Nat
        /\ Holders(<<c, 0>>)' \in Nat
    BY <1>2
  <2> QED BY <2>1 DEF Sound, Responds, EndsLast
<1> QED BY <1>4, <1>5, <1>6 DEF Sound

\* A step that moves nothing keeps the account, and so does one that gives up.
LEMMA QuietSound ==
    ASSUME TypeInv, TypeInv', \A c \in Clients : Sound(c), UNCHANGED http,
           StaysPut \/ \E id \in Ids : GivenUp(id)
    PROVE  \A c \in Clients : Sound(c)'
<1> SUFFICES ASSUME NEW c \in Clients PROVE Sound(c)'
  OBVIOUS
<1>1. \A k \in Nat : <<c, k>> \in Ids
  BY DEF Ids
<1>2. \A k \in Nat : Holders(<<c, k>>) \in Nat /\ Holders(<<c, k>>)' \in Nat
  BY CountNow, CountNext
<1>3. UNCHANGED <<want, handler, posted, results, multis>>
  BY DEF http, StaysPut, GivenUp
<1>4. CASE StaysPut
  <2>1. \A k \in Nat : Holders(<<c, k>>)' = Holders(<<c, k>>)
    BY <1>1, <1>4 DEF StaysPut
  <2> QED BY <1>2, <1>3, <2>1, Unmoved
<1>5. ASSUME NEW id \in Ids, GivenUp(id) PROVE Sound(c)'
  <2>1. CASE id[1] = c
    <3>1. ~Served(c)
      BY <1>5, <2>1 DEF GivenUp, Served
    <3>2. \A k \in Nat : Holders(<<c, k>>)' <= Holders(<<c, k>>)
      BY <1>1, <1>2, <1>5 DEF GivenUp
    <3> QED BY <1>3, <3>1, <3>2, Unmoved
  <2>2. CASE id[1] # c
    <3>1. \A k \in Nat : Holders(<<c, k>>)' = Holders(<<c, k>>)
      BY <1>1, <1>5, <2>2 DEF GivenUp
    <3> QED BY <1>2, <1>3, <3>1, Unmoved
  <2> QED BY <2>1, <2>2
<1> QED BY <1>4, <1>5

\* A task whose answer is sent was posted, has had no answer, and its handler
\* has not had its answer: its results are parts and its multitask is open if
\* it has one.
LEMMA HeldTask ==
    ASSUME TypeInv, Registered, NEW c \in Clients, NEW k \in Nat, Sound(c),
           Holders(<<c, k>>) >= 1
    PROVE  /\ Holders(<<c, k>>) = 1 /\ Answers(<<c, k>>) = 0
           /\ <<c, k>> \in PostedIds(c)
           /\ handler[c] \notin {"new", "post"}
           /\ k = 0 => want[c].prompts = 1 /\ ~multis[c].open /\ handler[c] # "answered"
           /\ k > 0 => /\ want[c].prompts > 1 /\ k \in 1 .. want[c].prompts
                       /\ multis[c].open /\ <<c, k>> \in multis[c].left
<1>1. /\ Holders(<<c, k>>) \in Nat /\ Answers(<<c, k>>) \in Nat
      /\ want[c].prompts \in Nat \ {0} /\ posted[c] \in Nat
  BY CountNow, AnswersAre, WantType DEF TypeInv, HttpType, Request
<1>2. Holders(<<c, k>>) = 1 /\ Answers(<<c, k>>) = 0 /\ <<c, k>> \in PostedIds(c)
  BY <1>1 DEF Sound, Accounted, Total
<1>3. \/ want[c].prompts > 1 /\ k \in 1 .. posted[c]
      \/ want[c].prompts = 1 /\ k = 0 /\ handler[c] \notin {"new", "post"}
  BY <1>2, PostedIdsAre
<1>4. handler[c] \in {"new", "post"} => posted[c] = 0
  BY DEF Registered, InStage
<1>5. posted[c] <= want[c].prompts
  BY DEF Registered, InStage
<1>6. k = 0 => want[c].prompts = 1 /\ ~multis[c].open /\ handler[c] # "answered"
  BY <1>1, <1>2, <1>3 DEF Sound, Responds
<1>7. k > 0 => want[c].prompts > 1 /\ k \in 1 .. want[c].prompts
  BY <1>1, <1>3, <1>5
<1>8. handler[c] \notin {"new", "post"}
  BY <1>1, <1>3, <1>4
<1>9. k > 0 => multis[c].open /\ <<c, k>> \in multis[c].left
  BY <1>2, <1>7, <1>8 DEF Sound, Gathers
<1> QED BY <1>2, <1>6, <1>7, <1>8, <1>9

\* Without a result that ends it, all the results of a request are parts.
LEMMA AllParts ==
    ASSUME TypeInv, NEW c \in Clients, Occurrences(results[c], Ends) = 0
    PROVE  \A i \in 1 .. Len(results[c]) : results[c][i] = "partial"
<1>1. results[c] \in Seq(Results) /\ DOMAIN results[c] = 1 .. Len(results[c])
  BY LenProperties DEF TypeInv, ResultType
<1>2. \A i \in 1 .. Len(results[c]) : results[c][i] \notin Ends
  BY <1>1, OccType
<1>3. \A i \in 1 .. Len(results[c]) : results[c][i] \in Results
  BY <1>1, ElementOfSeq
<1> QED BY <1>2, <1>3 DEF Results

\* The others are left alone when a result is sent.
LEMMA OthersUnmoved ==
    ASSUME TypeInv, TypeInv', NEW id \in Ids, NEW r, NEW d \in Clients, d # id[1], Sound(d),
           UNCHANGED http, Send(id, r), \A j \in Ids \ {id} : Holders(j)' = Holders(j)
    PROVE  Sound(d)'
<1>1. results'[d] = results[d] /\ multis'[d] = multis[d]
  BY DEF Send, Reaches, TypeInv, ResultType, Ids
<1>2. \A k \in Nat : Holders(<<d, k>>)' = Holders(<<d, k>>)
  BY DEF Ids
<1>3. \A k \in Nat : Holders(<<d, k>>) \in Nat /\ Holders(<<d, k>>)' \in Nat
  BY CountNow, CountNext
<1> QED BY <1>1, <1>2, <1>3, Unmoved DEF http

\* The result that ends a task takes the place of the task, while somebody waits
\* for it.
LEMMA AnswerSound ==
    ASSUME TypeInv, TypeInv', Registered, \A c \in Clients : Sound(c), UNCHANGED http,
           NEW id \in Ids, NEW r \in Ends, Answered(id, r)
    PROVE  \A c \in Clients : Sound(c)'
<1>1. \A d \in Clients : d # id[1] => Sound(d)'
  BY OthersUnmoved DEF Answered
<1>2. PICK c \in Clients, k \in Nat : id = <<c, k>>
  BY DEF Ids
<1> SUFFICES Sound(c)'
  BY <1>1, <1>2
<1>3. UNCHANGED <<want, handler, posted>>
  BY DEF http
<1>4. \A j \in Nat : /\ Holders(<<c, j>>) \in Nat /\ Holders(<<c, j>>)' \in Nat
                     /\ Answers(<<c, j>>) \in Nat /\ Answers(<<c, j>>)' \in Nat
  BY CountNow, CountNext, AnswersAre, AnswersNext
<1>5. /\ Holders(<<c, k>>) = Holders(<<c, k>>)' + 1
      /\ \A j \in Nat : j # k => Holders(<<c, j>>)' = Holders(<<c, j>>)
  BY <1>2 DEF Answered, Ids
<1>6. Holders(<<c, k>>) >= 1
  BY <1>4, <1>5
<1>7. /\ Holders(<<c, k>>)' = 0 /\ Answers(<<c, k>>) = 0
      /\ <<c, k>> \in PostedIds(c)
      /\ handler[c] \notin {"new", "post"}
      /\ k = 0 => want[c].prompts = 1 /\ ~multis[c].open /\ handler[c] # "answered"
      /\ k > 0 => /\ want[c].prompts > 1 /\ k \in 1 .. want[c].prompts
                  /\ multis[c].open /\ <<c, k>> \in multis[c].left
  BY <1>4, <1>5, <1>6, HeldTask
<1>8. Send(<<c, k>>, r)
  BY <1>2 DEF Answered
<1>9. CASE <<c, 0>> \notin waiting
  <2>1. ~Served(c)
    BY <1>9 DEF Registered, InStage, Served
  <2>2. results' = results /\ multis' = multis
    BY <1>8, <1>9 DEF Send, Reaches
  <2>3. \A j \in Nat : Holders(<<c, j>>)' <= Holders(<<c, j>>)
    BY <1>4, <1>5
  <2> QED BY <1>3, <2>1, <2>2, <2>3, Unmoved
<1>10. PostedIds(c)' = PostedIds(c) /\ (Served(c)' <=> Served(c))
  BY <1>3 DEF PostedIds, Served
<1>11. ASSUME \A j \in Nat : Answers(<<c, j>>)' = IF j = k THEN 1 ELSE Answers(<<c, j>>)
       PROVE  Accounted(c)'
  <2> SUFFICES ASSUME NEW j \in Nat
               PROVE /\ Total(<<c, j>>)' <= 1
                     /\ <<c, j>> \notin PostedIds(c)' =>
                           Holders(<<c, j>>)' = 0 /\ (j > 0 => Answers(<<c, j>>)' = 0)
                     /\ <<c, j>> \in PostedIds(c)' /\ Served(c)' => Total(<<c, j>>)' = 1
    BY DEF Accounted
  <2>1. CASE j = k
    BY <1>7, <1>10, <1>11, <2>1 DEF Total
  <2>2. CASE j # k
    BY <1>4, <1>5, <1>10, <1>11, <2>2 DEF Sound, Accounted, Total
  <2> QED BY <2>1, <2>2
<1>12. CASE <<c, 0>> \in waiting /\ k = 0
  <2>1. multis' = multis /\ results'[c] = Append(results[c], r)
    BY <1>8, <1>12 DEF Send, Reaches, TypeInv, ResultType
  <2>2. results[c] \in Seq(Results) /\ r \in Results
    BY DEF TypeInv, ResultType, Results
  <2>3. Occurrences(results[c], Ends) = 0
    BY <1>7, <1>12, AnswersAre
  <2>4. Occurrences(results'[c], Ends) = 1
    BY <2>1, <2>2, <2>3, OccAppend
  <2>5. \A j \in Nat : Answers(<<c, j>>)' = IF j = k THEN 1 ELSE Answers(<<c, j>>)
    <3> SUFFICES ASSUME NEW j \in Nat
                 PROVE  Answers(<<c, j>>)' = IF j = k THEN 1 ELSE Answers(<<c, j>>)
      OBVIOUS
    <3>1. CASE j = 0
      BY <1>12, <2>4, <3>1 DEF Answers
    <3>2. CASE j # 0
      BY <1>12, <2>1, <3>2 DEF Answers
    <3> QED BY <3>1, <3>2
  <2>6. Gathers(c)'
    BY <1>3, <1>7, <1>12 DEF Gathers
  <2>7. Responds(c)'
    <3>1. \A i \in 1 .. Len(results[c]) : results[c][i] = "partial"
      BY <2>3, AllParts
    <3>2. /\ Len(results'[c]) - 1 = Len(results[c])
          /\ \A i \in 1 .. Len(results[c]) : results'[c][i] = results[c][i]
      BY <2>1, <2>2, AppendProperties, LenProperties
    <3>3. EndsLast(c)'
      BY <3>1, <3>2 DEF EndsLast
    <3> QED BY <1>3, <1>7, <1>12, <2>1, <3>3 DEF Responds
  <2> QED BY <1>11, <2>5, <2>6, <2>7 DEF Sound
<1>13. CASE <<c, 0>> \in waiting /\ k > 0
  <2> DEFINE m == Gathered(multis[c], <<c, k>>, r)
  <2>1. results' = results /\ multis'[c] = m
    BY <1>7, <1>8, <1>13 DEF Send, Reaches, TypeInv, ResultType
  <2>2. /\ m.open = multis[c].open
        /\ m.left = multis[c].left \ {<<c, k>>}
        /\ m.got = Append(multis[c].got, <<<<c, k>>, r>>)
    BY DEF Gathered, TypeInv, ResultType
  <2> HIDE DEF m
  <2>3. multis[c].got \in Seq(Ids \X Results) /\ <<<<c, k>>, r>> \in Ids \X Results
    BY DEF TypeInv, ResultType, Results, Ids
  <2>4. \A j \in Nat : Answers(<<c, j>>)' = IF j = k THEN 1 ELSE Answers(<<c, j>>)
    <3> SUFFICES ASSUME NEW j \in Nat
                 PROVE  Answers(<<c, j>>)' = IF j = k THEN 1 ELSE Answers(<<c, j>>)
      OBVIOUS
    <3>1. CASE j = 0
      BY <1>13, <2>1, <3>1 DEF Answers
    <3>2. CASE j # 0
      <4> DEFINE S == {<<c, j>>} \X Ends
      <4>1. Occurrences(Append(multis[c].got, <<<<c, k>>, r>>), S)
              = Occurrences(multis[c].got, S) + (IF <<<<c, k>>, r>> \in S THEN 1 ELSE 0)
        BY <2>3, OccAppend
      <4>2. <<<<c, k>>, r>> \in S <=> j = k
        OBVIOUS
      <4>3. /\ Answers(<<c, j>>)' = Occurrences(multis'[c].got, S)
            /\ Answers(<<c, j>>) = Occurrences(multis[c].got, S)
        BY <3>2 DEF Answers
      <4> HIDE DEF S
      <4>4. Answers(<<c, j>>)' = Answers(<<c, j>>) + (IF j = k THEN 1 ELSE 0)
        BY <2>1, <2>2, <4>1, <4>2, <4>3
      <4> QED BY <1>4, <1>7, <4>4
    <3> QED BY <3>1, <3>2
  <2>5. Gathers(c)'
    <3>1. want[c].prompts \in Nat
      BY WantType DEF TypeInv, Request
    <3>2. \A j \in 1 .. want[c].prompts :
             /\ <<c, j>> \in m.left <=> <<c, j>> \in multis[c].left /\ j # k
             /\ Answers(<<c, j>>)' = IF j = k THEN 1 ELSE Answers(<<c, j>>)
      BY <2>2, <2>4, <3>1
    <3>3. \A j \in 1 .. want[c].prompts :
             <<c, j>> \in m.left <=> Answers(<<c, j>>)' = 0
      BY <1>7, <1>13, <3>2 DEF Sound, Gathers
    <3> QED BY <1>3, <1>7, <1>13, <2>1, <2>2, <3>3 DEF Gathers
  <2>6. Responds(c)'
    <3>1. (Holders(<<c, 0>>))' = Holders(<<c, 0>>)
      BY <1>5, <1>13
    <3> QED BY <1>3, <2>1, <2>2, <3>1 DEF Sound, Responds, EndsLast
  <2> QED BY <1>11, <2>4, <2>5, <2>6 DEF Sound
<1> QED BY <1>9, <1>12, <1>13

\* A part that is sent comes before the result that ends the response.
LEMMA PartSound ==
    ASSUME Orderly, TypeInv, TypeInv', Registered, \A c \in Clients : Sound(c), UNCHANGED http,
           NEW id \in Ids, PartSent(id)
    PROVE  \A c \in Clients : Sound(c)'
<1>1. \A d \in Clients : d # id[1] => Sound(d)'
  BY OthersUnmoved DEF PartSent
<1>2. PICK c \in Clients, k \in Nat : id = <<c, k>>
  BY DEF Ids
<1> SUFFICES Sound(c)'
  BY <1>1, <1>2
<1>3. UNCHANGED <<want, handler, posted>>
  BY DEF http
<1>4. \A j \in Nat : /\ Holders(<<c, j>>) \in Nat
                     /\ Holders(<<c, j>>)' = Holders(<<c, j>>)
  BY CountNow DEF PartSent, Ids
<1>5. /\ Holders(<<c, k>>) = 1 /\ Answers(<<c, k>>) = 0
      /\ handler[c] \notin {"new", "post"}
      /\ k = 0 => want[c].prompts = 1 /\ ~multis[c].open /\ handler[c] # "answered"
      /\ k > 0 => want[c].prompts > 1
  BY <1>2, HeldTask DEF PartSent
<1>6. k = 0
  BY <1>2, <1>5 DEF Orderly, PartSent, TypeInv, HttpType
<1>7. Send(<<c, k>>, "partial")
  BY <1>2 DEF PartSent
<1>8. multis' = multis
        /\ results'[c] = IF <<c, 0>> \in waiting THEN Append(results[c], "partial")
                         ELSE results[c]
  BY <1>6, <1>7 DEF Send, Reaches, TypeInv, ResultType
<1>9. CASE <<c, 0>> \notin waiting
  BY <1>3, <1>4, <1>8, <1>9, Unmoved
<1>10. CASE <<c, 0>> \in waiting
  <2>1. results[c] \in Seq(Results) /\ "partial" \in Results /\ "partial" \notin Ends
    BY DEF TypeInv, ResultType, Results, Ends
  <2>2. Occurrences(results[c], Ends) = 0
    BY <1>5, <1>6, AnswersAre
  <2>3. Occurrences(results'[c], Ends) = 0
    BY <1>8, <1>10, <2>1, <2>2, OccAppend
  <2>4. \A j \in Nat : Answers(<<c, j>>)' = Answers(<<c, j>>)
    <3> SUFFICES ASSUME NEW j \in Nat
                 PROVE  Answers(<<c, j>>)' = Answers(<<c, j>>)
      OBVIOUS
    <3>1. CASE j = 0
      BY <2>2, <2>3, <3>1 DEF Answers
    <3>2. CASE j # 0
      BY <1>8, <3>2 DEF Answers
    <3> QED BY <3>1, <3>2
  <2>5. Accounted(c)'
    <3>1. PostedIds(c)' = PostedIds(c) /\ (Served(c)' <=> Served(c))
      BY <1>3 DEF PostedIds, Served
    <3>2. \A j \in Nat : Total(<<c, j>>)' = Total(<<c, j>>)
      BY <1>4, <2>4 DEF Total
    <3> QED BY <1>4, <2>4, <3>1, <3>2 DEF Sound, Accounted
  <2>6. Gathers(c)'
    BY <1>3, <1>5, <1>6 DEF Gathers
  <2>7. Responds(c)'
    <3>1. \A i \in 1 .. Len(results[c]) : results[c][i] = "partial"
      BY <2>2, AllParts
    <3>2. /\ Len(results'[c]) - 1 = Len(results[c])
          /\ \A i \in 1 .. Len(results[c]) : results'[c][i] = results[c][i]
      BY <1>8, <1>10, <2>1, AppendProperties, LenProperties
    <3>3. EndsLast(c)'
      BY <3>1, <3>2 DEF EndsLast
    <3> QED BY <1>3, <1>5, <1>6, <1>8, <3>3 DEF Responds
  <2> QED BY <2>5, <2>6, <2>7 DEF Sound
<1> QED BY <1>9, <1>10

\* The finished multitask answers its request, when all its subtasks have
\* answered.
LEMMA FinishSound ==
    ASSUME TypeInv, TypeInv', Registered, \A c \in Clients : Sound(c),
           NEW c \in Clients, FinishMultitask(c),
           \A id \in Ids : Holders(id)' = Holders(id)
    PROVE  \A d \in Clients : Sound(d)'
<1>1. UNCHANGED <<want, handler, posted>>
  BY DEF FinishMultitask, http
<1>2. \A d \in Clients : \A j \in Nat : /\ Holders(<<d, j>>) \in Nat
                     /\ Holders(<<d, j>>)' = Holders(<<d, j>>)
  BY CountNow DEF Ids
<1>3. ASSUME NEW d \in Clients, d # c PROVE Sound(d)'
  <2>1. results'[d] = results[d] /\ multis'[d] = multis[d]
    BY <1>3 DEF FinishMultitask, TypeInv, ResultType
  <2> QED BY <1>1, <1>2, <2>1, Unmoved
<1> SUFFICES Sound(c)'
  BY <1>3
<1>4. multis[c].open /\ multis[c].left = {} /\ want[c].prompts > 1 /\ results[c] = <<>>
  BY DEF FinishMultitask, Finished, Sound, Responds
<1>5. /\ results'[c] \in {<<>>, Append(<<>>, "final")}
      /\ multis'[c].open = FALSE /\ multis'[c].got = multis[c].got
  BY <1>4 DEF FinishMultitask, TypeInv, ResultType
<1>6. /\ Append(<<>>, "final") = <<"final">> /\ Len(<<"final">>) = 1
      /\ Len(<<>>) = 0
  OBVIOUS
<1>7. \A j \in Nat : Answers(<<c, j>>) \in Nat /\ Answers(<<c, j>>)' \in Nat
  BY AnswersAre, AnswersNext
<1>8. Answers(<<c, 0>>)' <= 1
  <2>1. <<>> \in Seq(Results) /\ "final" \in Results
    BY EmptySeq DEF Results, Ends
  <2>2. Occurrences(Append(<<>>, "final"), Ends) <= 1
    <3>1. Occurrences(Append(<<>>, "final"), Ends)
            = Occurrences(<<>>, Ends) + (IF "final" \in Ends THEN 1 ELSE 0)
      BY <2>1, OccAppend
    <3>2. Occurrences(<<>>, Ends) = 0
      BY OccEmpty
    <3> QED BY <3>1, <3>2
  <2>3. Occurrences(results'[c], Ends) <= 1
    BY <1>5, <2>2, OccEmpty
  <2> QED BY <2>3 DEF Answers
<1>9. \A j \in Nat : j > 0 => Answers(<<c, j>>)' = Answers(<<c, j>>)
  BY <1>5 DEF Answers
<1>10. <<c, 0>> \notin PostedIds(c)
  BY <1>4, PostedIdsAre
<1>11. PostedIds(c)' = PostedIds(c) /\ (Served(c)' <=> Served(c))
  BY <1>1 DEF PostedIds, Served
<1>12. Accounted(c)'
  <2> SUFFICES ASSUME NEW j \in Nat
               PROVE /\ Total(<<c, j>>)' <= 1
                     /\ <<c, j>> \notin PostedIds(c)' =>
                           Holders(<<c, j>>)' = 0 /\ (j > 0 => Answers(<<c, j>>)' = 0)
                     /\ <<c, j>> \in PostedIds(c)' /\ Served(c)' => Total(<<c, j>>)' = 1
    BY DEF Accounted
  <2>1. CASE j = 0
    <3>1. Holders(<<c, 0>>) = 0
      BY <1>10 DEF Sound, Accounted
    <3> QED BY <1>2, <1>7, <1>8, <1>10, <1>11, <2>1, <3>1 DEF Total
  <2>2. CASE j > 0
    BY <1>2, <1>9, <1>11, <2>2 DEF Sound, Accounted, Total
  <2> QED BY <2>1, <2>2
<1>13. Gathers(c)'
  <2> SUFFICES ASSUME handler[c] \notin {"new", "post"}, NEW j \in 1 .. want[c].prompts
               PROVE  Answers(<<c, j>>)' = 1
    BY <1>1, <1>5 DEF Gathers
  <2>1. j \in Nat /\ j > 0
    BY WantType DEF TypeInv, Request
  <2>2. Answers(<<c, j>>) # 0
    BY <1>4 DEF Sound, Gathers
  <2>3. Answers(<<c, j>>) <= 1
    BY <1>2, <1>7, <2>1 DEF Sound, Accounted, Total
  <2> QED BY <1>7, <1>9, <2>1, <2>2, <2>3
<1>14. Responds(c)'
  <2>1. handler[c] \notin {"new", "post", "answered"}
    BY <1>4 DEF Sound, Responds
  <2>2. EndsLast(c)'
    <3>1. Len(results'[c]) \in {0, 1}
      BY <1>5, <1>6
    <3>2. \A n \in {0, 1} : 1 .. n - 1 = {}
      OBVIOUS
    <3>3. 1 .. Len(results'[c]) - 1 = {}
      BY <3>1, <3>2
    <3> QED BY <3>3 DEF EndsLast
  <2> QED BY <1>1, <1>5, <2>1, <2>2 DEF Responds
<1> QED BY <1>12, <1>13, <1>14 DEF Sound

\* A handler that posts a task holds it in the queue.
LEMMA PostHolds ==
    ASSUME TypeInv, NEW type \in Kinds \cup {"cancel"}, NEW i \in Ids,
           queue' = Append(queue, Task(type, i)), UNCHANGED <<deferred, slots>>,
           NEW id \in Ids
    PROVE  Holders(id)' = Holders(id) + (IF type \in Kinds /\ id = i THEN 1 ELSE 0)
<1> DEFINE S == ToDo(id)
           t == Task(type, i)
<1>1. queue \in Seq(Tasks) /\ t \in Tasks
  BY DEF TypeInv, QueueType, Tasks, Task
<1>2. t \in S <=> type \in Kinds /\ id = i
  BY DEF ToDo, Task, Kinds
<1>3. Occurrences(Append(queue, t), S) = Occurrences(queue, S) + (IF t \in S THEN 1 ELSE 0)
  BY <1>1, OccAppend
<1>4. Queued(id)' = Occurrences(queue', S) + Occurrences(deferred, S)
  BY DEF Queued, ToDo, Task
<1>5. Queued(id) = Occurrences(queue, S) + Occurrences(deferred, S)
  BY DEF Queued
<1>6. Holding(id)' = Holding(id)
  BY DEF Holding, Holds
<1>7. /\ Occurrences(queue, S) \in Nat /\ Cardinality(Holding(id)) \in Nat
  BY <1>1, OccType, CountNow
<1>8. deferred \in Seq(Waits)
  BY DEF TypeInv, QueueType
<1>9. Occurrences(deferred, S) \in Nat
  BY <1>8, OccType
<1> HIDE DEF S, t
<1>10. /\ Holders(id) = Queued(id) + Cardinality(Holding(id))
       /\ Holders(id)' = Queued(id)' + Cardinality(Holding(id))'
  BY DEF Holders, Queued, Holding
<1> QED BY <1>2, <1>3, <1>4, <1>5, <1>6, <1>7, <1>9, <1>10 DEF t

\* The other requests do not notice what a handler does.
LEMMA HandleOthers ==
    ASSUME TypeInv, TypeInv', NEW c \in Clients, Handle(c), NEW d \in Clients, d # c, Sound(d)
    PROVE  Sound(d)'
<1>1. want' = want /\ handler'[d] = handler[d] /\ posted'[d] = posted[d]
      /\ results'[d] = results[d] /\ multis'[d] = multis[d] /\ UNCHANGED <<deferred, slots>>
  BY DEF Handle, Register, Post, AddMultitask, PostSubtask, OpenStream, Recv, Forget,
         RequestCancel, Leave, Step, TypeInv, HttpType, ResultType, queues
<1>2. \A k \in Nat : Holders(<<d, k>>) \in Nat
  BY CountNow
<1>3. \A k \in Nat : Holders(<<d, k>>)' = Holders(<<d, k>>)
  <2> SUFFICES ASSUME NEW k \in Nat PROVE Holders(<<d, k>>)' = Holders(<<d, k>>)
    OBVIOUS
  <2>1. CASE queue' = queue
    BY <1>1, <2>1 DEF Holders, Holds, ToDo, Task
  <2>2. CASE queue' # queue
    <3>1. PICK type \in Kinds \cup {"cancel"}, j \in Nat :
             queue' = Append(queue, Task(type, <<c, j>>))
      <4>1. want[c].kind \in Kinds /\ posted[c] + 1 \in Nat
        BY WantType DEF TypeInv, HttpType, Request, Kinds
      <4>2. CASE Post(c)
        BY <4>1, <4>2 DEF Post
      <4>3. CASE PostSubtask(c)
        BY <4>1, <4>3 DEF PostSubtask, Kinds
      <4>4. CASE RequestCancel(c)
        BY <4>4 DEF RequestCancel
      <4>5. CASE ~(Post(c) \/ PostSubtask(c) \/ RequestCancel(c))
        BY <2>2, <4>5 DEF Handle, Register, AddMultitask, OpenStream, Recv, Forget, Leave,
                          queues
      <4> QED BY <4>2, <4>3, <4>4, <4>5
    <3>2. <<c, j>> \in Ids /\ <<d, k>> \in Ids /\ <<c, j>> # <<d, k>>
      BY DEF Ids
    <3>3. Holders(<<d, k>>)' = Holders(<<d, k>>) + 0
      BY <1>1, <3>1, <3>2, PostHolds
    <3> QED BY <1>2, <3>3
  <2> QED BY <2>1, <2>2
<1> QED BY <1>1, <1>2, <1>3, Unmoved

\* A handler that goes on, past the posting of its tasks, changes no account.
LEMMA GoesOnSound ==
    ASSUME TypeInv, TypeInv', NEW c \in Clients, Sound(c),
           UNCHANGED <<want, posted, results, multis>>,
           \A k \in Nat : Holders(<<c, k>>)' = Holders(<<c, k>>),
           handler[c] \in {"new", "post"} <=> handler'[c] \in {"new", "post"},
           handler'[c] # "answered", Served(c)' => Served(c)
    PROVE  Sound(c)'
<1>1. \A k \in Nat : Answers(<<c, k>>)' = Answers(<<c, k>>) /\ Answers(<<c, k>>) \in Nat
  <2> SUFFICES ASSUME NEW k \in Nat
               PROVE  Answers(<<c, k>>)' = Answers(<<c, k>>) /\ Answers(<<c, k>>) \in Nat
    OBVIOUS
  <2> QED BY AnswersAre DEF Answers
<1>2. PostedIds(c)' = PostedIds(c)
  BY DEF PostedIds
<1>3. Accounted(c)'
  BY <1>1, <1>2 DEF Sound, Accounted, Total
<1>4. Gathers(c)'
  <2>1. want[c].prompts \in Nat
    BY WantType DEF TypeInv, Request
  <2>2. \A k \in 1 .. want[c].prompts : Answers(<<c, k>>)' = Answers(<<c, k>>)
    BY <1>1, <2>1
  <2> QED BY <2>2 DEF Sound, Gathers
<1>5. Responds(c)'
  BY DEF Sound, Responds, EndsLast
<1> QED BY <1>3, <1>4, <1>5 DEF Sound

\* A handler reads its results in order, and stops at the one that ends them.
LEMMA RecvSound ==
    ASSUME TypeInv, TypeInv', NEW c \in Clients, Registered, Sound(c), Recv(c)
    PROVE  Sound(c)'
<1> DEFINE n == Len(results[c])
<1>1. /\ UNCHANGED <<want, posted, multis, queue, deferred, slots>>
      /\ handler[c] = "recv" /\ results[c] # <<>> /\ results'[c] = Tail(results[c])
      /\ \/ Head(results[c]) = "partial" /\ handler'[c] = "recv"
         \/ Head(results[c]) # "partial" /\ handler'[c] = "answered"
         \/ handler'[c] = "gone"
  BY DEF Recv, Step, TypeInv, HttpType, ResultType, queues
<1>2. \A k \in Nat : /\ Holders(<<c, k>>)' = Holders(<<c, k>>)
                     /\ Holders(<<c, k>>) \in Nat
  BY <1>1, CountNow DEF Holders, Holds, ToDo, Task
<1>3. /\ results[c] \in Seq(Results) /\ Head(results[c]) = results[c][1]
      /\ Head(results[c]) \in Results /\ n \in Nat /\ n # 0
      /\ Len(Tail(results[c])) = n - 1
      /\ \A i \in 1 .. n - 1 : Tail(results[c])[i] = results[c][i + 1]
  <2>1. results[c] \in Seq(Results)
    BY DEF TypeInv, ResultType
  <2> QED BY <1>1, <2>1, HeadTailProperties, LenProperties, EmptySeq
<1>4. \A i \in 1 .. n - 1 : results[c][i] = "partial"
  BY DEF Sound, Responds, EndsLast
<1>5. EndsLast(c)'
  <2> HIDE DEF n
  <2>1. \A i \in 1 .. (n - 1) - 1 : results'[c][i] = "partial"
    <3> SUFFICES ASSUME NEW i \in 1 .. (n - 1) - 1 PROVE results'[c][i] = "partial"
      OBVIOUS
    <3>1. i \in 1 .. n - 1 /\ i + 1 \in 1 .. n - 1
      BY <1>3
    <3> QED BY <1>1, <1>3, <1>4, <3>1
  <2> QED BY <1>1, <1>3, <2>1 DEF EndsLast
<1>6. Head(results[c]) # "partial" => results'[c] = <<>>
  <2> SUFFICES ASSUME Head(results[c]) # "partial" PROVE results'[c] = <<>>
    OBVIOUS
  <2> HIDE DEF n
  <2>1. n = 1
    <3>1. 1 \notin 1 .. n - 1
      BY <1>3, <1>4
    <3> QED BY <1>3, <3>1
  <2>2. Len(Tail(results[c])) = 0 /\ Tail(results[c]) \in Seq(Results)
    BY <1>1, <1>3, <2>1, HeadTailProperties
  <2> QED BY <1>1, <2>2, EmptySeq
<1>7. /\ Occurrences(results[c], Ends) = Occurrences(results'[c], Ends)
            + (IF Head(results[c]) \in Ends THEN 1 ELSE 0)
      /\ Occurrences(results[c], Ends) \in Nat /\ Occurrences(results'[c], Ends) \in Nat
  <2>1. Occurrences(results[c], Ends) = Occurrences(Tail(results[c]), Ends)
            + (IF Head(results[c]) \in Ends THEN 1 ELSE 0)
    BY <1>1, <1>3, OccTail
  <2>2. Occurrences(results[c], Ends) \in Nat
    BY <1>3, OccType
  <2>3. Tail(results[c]) \in Seq(Results)
    BY <1>1, <1>3, HeadTailProperties
  <2>4. Occurrences(Tail(results[c]), Ends) \in Nat
    BY <2>3, OccType
  <2> QED BY <1>1, <2>1, <2>2, <2>4
<1>8. /\ Answers(<<c, 0>>)' <= Answers(<<c, 0>>)
      /\ Head(results[c]) = "partial" => Answers(<<c, 0>>)' = Answers(<<c, 0>>)
      /\ Head(results[c]) # "partial" => Answers(<<c, 0>>) >= 1
      /\ \A k \in Nat : k > 0 => Answers(<<c, k>>)' = Answers(<<c, k>>)
  <2>1. Head(results[c]) \in Ends <=> Head(results[c]) # "partial"
    BY <1>3 DEF Results, Ends
  <2>2. /\ Answers(<<c, 0>>)' = Occurrences(results'[c], Ends)
        /\ Answers(<<c, 0>>) = Occurrences(results[c], Ends)
    BY DEF Answers
  <2>3. \A k \in Nat : k > 0 => Answers(<<c, k>>)' = Answers(<<c, k>>)
    BY <1>1 DEF Answers
  <2> QED BY <1>7, <2>1, <2>2, <2>3
<1>9. \A k \in Nat : Answers(<<c, k>>) \in Nat /\ Answers(<<c, k>>)' \in Nat
  BY AnswersAre, AnswersNext
<1>10. PostedIds(c)' = PostedIds(c)
  BY <1>1 DEF PostedIds
<1>11. Accounted(c)'
  <2> SUFFICES ASSUME NEW k \in Nat
               PROVE /\ Total(<<c, k>>)' <= 1
                     /\ <<c, k>> \notin PostedIds(c)' =>
                           Holders(<<c, k>>)' = 0 /\ (k > 0 => Answers(<<c, k>>)' = 0)
                     /\ <<c, k>> \in PostedIds(c)' /\ Served(c)' => Total(<<c, k>>)' = 1
    BY DEF Accounted
  <2>1. Served(c)' => Served(c) /\ Head(results[c]) = "partial"
    BY <1>1 DEF Served
  <2>2. CASE k = 0
    BY <1>2, <1>8, <1>9, <1>10, <2>1, <2>2 DEF Sound, Accounted, Total
  <2>3. CASE k > 0
    BY <1>2, <1>8, <1>9, <1>10, <2>1, <2>3 DEF Sound, Accounted, Total
  <2> QED BY <2>2, <2>3
<1>12. Gathers(c)'
  <2>1. want[c].prompts \in Nat
    BY WantType DEF TypeInv, Request
  <2>2. \A k \in 1 .. want[c].prompts : Answers(<<c, k>>)' = Answers(<<c, k>>)
    BY <1>8, <2>1
  <2> QED BY <1>1, <2>2 DEF Sound, Gathers
<1>13. Responds(c)'
  <2>1. ~multis[c].open
    BY <1>1 DEF Sound, Responds
  <2>2. Head(results[c]) # "partial" => Holders(<<c, 0>>) = 0
    BY <1>2, <1>8, <1>9 DEF Sound, Accounted, Total
  <2> QED BY <1>1, <1>2, <1>5, <1>6, <2>1, <2>2 DEF Responds
<1> QED BY <1>11, <1>12, <1>13 DEF Sound

\* A handler that posts its one task has it in the queue.
LEMMA PostSound ==
    ASSUME TypeInv, TypeInv', NEW c \in Clients, Registered, Sound(c), Post(c)
    PROVE  Sound(c)'
<1>1. /\ UNCHANGED <<want, posted, multis, results, deferred, slots>>
      /\ queue' = Append(queue, Task(want[c].kind, <<c, 0>>))
      /\ handler[c] \in {"new", "post"} /\ handler'[c] \notin {"new", "post", "answered"}
  BY DEF Post, Step, Sent, TypeInv, HttpType
<1>2. want[c].prompts = 1 /\ want[c].kind \in Kinds
  <2>1. want[c] \in Request /\ (want[c].prompts > 1 => want[c].kind = "completion")
    BY WantType, ServerAssumption DEF TypeInv, HttpType
  <2> QED BY <2>1 DEF Post, Request, Kinds
<1>3. ASSUME NEW k \in Nat
      PROVE  /\ Holders(<<c, k>>)' = Holders(<<c, k>>) + (IF k = 0 THEN 1 ELSE 0)
             /\ Holders(<<c, k>>) = 0
             /\ Answers(<<c, k>>)' = 0
  <2>1. <<c, k>> \in Ids /\ <<c, 0>> \in Ids /\ (<<c, k>> = <<c, 0>> <=> k = 0)
    BY DEF Ids
  <2>2. Holders(<<c, k>>)' = Holders(<<c, k>>) + (IF k = 0 THEN 1 ELSE 0)
    BY <1>1, <1>2, <2>1, PostHolds, SMTT(60)
  <2>3. <<c, k>> \notin PostedIds(c)
    BY <1>1, <1>2, PostedIdsAre
  <2>4. Holders(<<c, k>>) = 0 /\ (k > 0 => Answers(<<c, k>>) = 0)
    BY <2>3 DEF Sound, Accounted
  <2>5. Answers(<<c, k>>)' = Answers(<<c, k>>)
    BY <1>1 DEF Answers
  <2>6. k = 0 => Answers(<<c, k>>) = 0
    BY <1>1, OccEmpty DEF Answers, Sound, Responds
  <2> QED BY <2>2, <2>4, <2>5, <2>6
<1>4. Accounted(c)'
  <2> SUFFICES ASSUME NEW k \in Nat
               PROVE /\ Total(<<c, k>>)' <= 1
                     /\ <<c, k>> \notin PostedIds(c)' =>
                           Holders(<<c, k>>)' = 0 /\ (k > 0 => Answers(<<c, k>>)' = 0)
                     /\ <<c, k>> \in PostedIds(c)' /\ Served(c)' => Total(<<c, k>>)' = 1
    BY DEF Accounted
  <2>1. <<c, k>> \in PostedIds(c)' <=> k = 0
    BY <1>1, <1>2, PostedIdsNext
  <2> QED BY <1>3, <2>1 DEF Total
<1>5. Gathers(c)'
  BY <1>1, <1>2 DEF Gathers
<1>6. Responds(c)'
  BY <1>1 DEF Sound, Responds, EndsLast
<1> QED BY <1>4, <1>5, <1>6 DEF Sound

\* A multitask starts with all its subtasks, of which none is posted.
LEMMA AddMultitaskSound ==
    ASSUME TypeInv, TypeInv', NEW c \in Clients, Registered, Sound(c), AddMultitask(c)
    PROVE  Sound(c)'
<1>1. /\ UNCHANGED <<want, posted, results, queue, deferred, slots>>
      /\ handler[c] = "post" /\ handler'[c] = "split" /\ want[c].prompts > 1
      /\ multis'[c] = [open |-> TRUE, left |-> Subs(c), got |-> <<>>]
  BY DEF AddMultitask, Step, TypeInv, HttpType, ResultType, queues
<1>2. \A k \in Nat : <<c, k>> \notin PostedIds(c) /\ <<c, k>> \notin PostedIds(c)'
  <2>1. posted[c] = 0 /\ posted'[c] = 0
    BY <1>1 DEF Registered, InStage
  <2>2. \A k \in Nat : k \notin 1 .. 0
    OBVIOUS
  <2> SUFFICES ASSUME NEW k \in Nat
               PROVE  <<c, k>> \notin PostedIds(c) /\ <<c, k>> \notin PostedIds(c)'
    OBVIOUS
  <2>3. <<c, k>> \notin PostedIds(c)
    BY <1>1, <2>1, <2>2, PostedIdsAre
  <2>4. <<c, k>> \notin PostedIds(c)'
    BY <1>1, <2>1, <2>2, PostedIdsNext
  <2> QED BY <2>3, <2>4
<1>3. \A k \in Nat : Holders(<<c, k>>)' = 0
  <2>1. \A k \in Nat : Holders(<<c, k>>)' = Holders(<<c, k>>)
    BY <1>1 DEF Holders, Holds, ToDo, Task
  <2> QED BY <1>2, <2>1 DEF Sound, Accounted
<1>4. results[c] = <<>>
  BY <1>1 DEF Sound, Responds
<1>5. \A k \in Nat : Answers(<<c, k>>)' = 0
  BY <1>1, <1>4, OccEmpty DEF Answers
<1>6. Accounted(c)'
  BY <1>2, <1>3, <1>5 DEF Accounted, Total
<1>7. Gathers(c)'
  <2>1. want[c].prompts \in Nat
    BY WantType DEF TypeInv, Request
  <2>2. \A k \in 1 .. want[c].prompts : <<c, k>> \in Subs(c) /\ Answers(<<c, k>>)' = 0
    BY <1>5, <2>1 DEF Subs
  <2> QED BY <1>1, <2>2 DEF Gathers
<1>8. Responds(c)'
  BY <1>1, <1>4 DEF Sound, Responds, EndsLast
<1> QED BY <1>6, <1>7, <1>8 DEF Sound

\* A subtask that is posted is in the queue.
LEMMA PostSubtaskSound ==
    ASSUME TypeInv, TypeInv', NEW c \in Clients, Registered, Sound(c), PostSubtask(c)
    PROVE  Sound(c)'
<1> DEFINE p == posted[c] + 1
<1>1. /\ UNCHANGED <<want, multis, results, deferred, slots>>
      /\ queue' = Append(queue, Task("completion", <<c, p>>))
      /\ posted'[c] = p
      /\ handler[c] = "split" /\ handler'[c] \in {"split", "stream", "recv"}
  BY DEF PostSubtask, Step, Sent, TypeInv, HttpType
<1>2. posted[c] \in Nat /\ want[c].prompts > 1
  BY <1>1 DEF TypeInv, HttpType, Registered, InStage
<1>3. PICK q \in Nat : q = p /\ q > 0
  BY <1>2
<1> HIDE DEF p
<1>4. ASSUME NEW k \in Nat
      PROVE  Holders(<<c, k>>)' = Holders(<<c, k>>) + (IF k = q THEN 1 ELSE 0)
  <2>1. <<c, k>> \in Ids /\ <<c, q>> \in Ids /\ (<<c, k>> = <<c, q>> <=> k = q)
    BY DEF Ids
  <2>2. queue' = Append(queue, Task("completion", <<c, q>>))
    BY <1>1, <1>3
  <2> QED BY <1>1, <2>1, <2>2, PostHolds DEF Kinds
<1>5. \A k \in Nat : Answers(<<c, k>>)' = Answers(<<c, k>>) /\ Answers(<<c, k>>) \in Nat
  <2> SUFFICES ASSUME NEW k \in Nat
               PROVE  Answers(<<c, k>>)' = Answers(<<c, k>>) /\ Answers(<<c, k>>) \in Nat
    OBVIOUS
  <2> QED BY <1>1, AnswersAre DEF Answers
<1>6. \A k \in Nat : Holders(<<c, k>>) \in Nat
  BY CountNow
<1>7. ASSUME NEW k \in Nat
      PROVE  /\ <<c, k>> \in PostedIds(c)' <=> <<c, k>> \in PostedIds(c) \/ k = q
             /\ <<c, q>> \notin PostedIds(c)
  <2>1. \A j \in Nat : <<c, j>> \in PostedIds(c) <=> j \in 1 .. posted[c]
    BY <1>2, PostedIdsAre
  <2>2. <<c, k>> \in PostedIds(c)' <=> k \in 1 .. q
    BY <1>1, <1>2, <1>3, PostedIdsNext
  <2>3. q = posted[c] + 1
    BY <1>3 DEF p
  <2>4. (k \in 1 .. q <=> k \in 1 .. posted[c] \/ k = q) /\ q \notin 1 .. posted[c]
    BY <1>2, <2>3
  <2> QED BY <2>1, <2>2, <2>4
<1>8. Accounted(c)'
  <2> SUFFICES ASSUME NEW k \in Nat
               PROVE /\ Total(<<c, k>>)' <= 1
                     /\ <<c, k>> \notin PostedIds(c)' =>
                           Holders(<<c, k>>)' = 0 /\ (k > 0 => Answers(<<c, k>>)' = 0)
                     /\ <<c, k>> \in PostedIds(c)' /\ Served(c)' => Total(<<c, k>>)' = 1
    BY DEF Accounted
  <2>1. Served(c)' => Served(c)
    BY <1>1 DEF Served
  <2>2. CASE k = q
    <3>1. Holders(<<c, q>>) = 0 /\ Answers(<<c, q>>) = 0
      BY <1>3, <1>7 DEF Sound, Accounted
    <3> QED BY <1>4, <1>5, <1>7, <2>2, <3>1 DEF Total
  <2>3. CASE k # q
    <3>1. /\ Holders(<<c, k>>)' = Holders(<<c, k>>)
          /\ Answers(<<c, k>>)' = Answers(<<c, k>>)
          /\ <<c, k>> \in PostedIds(c)' <=> <<c, k>> \in PostedIds(c)
      BY <1>4, <1>5, <1>6, <1>7, <2>3
    <3> QED BY <2>1, <3>1 DEF Sound, Accounted, Total
  <2> QED BY <2>2, <2>3
<1>9. Gathers(c)'
  <2>1. want[c].prompts \in Nat
    BY WantType DEF TypeInv, Request
  <2>2. \A k \in 1 .. want[c].prompts : Answers(<<c, k>>)' = Answers(<<c, k>>)
    BY <1>5, <2>1
  <2> QED BY <1>1, <2>2 DEF Sound, Gathers
<1>10. Responds(c)'
  BY <1>1 DEF Sound, Responds, EndsLast
<1> QED BY <1>8, <1>9, <1>10 DEF Sound

\* The handlers keep the account.
LEMMA HandleSound ==
    ASSUME TypeInv, TypeInv', Registered, \A c \in Clients : Sound(c),
           NEW d \in Clients, Handle(d)
    PROVE  \A c \in Clients : Sound(c)'
<1>1. \A c \in Clients : c # d => Sound(c)'
  BY HandleOthers
<1> SUFFICES Sound(d)'
  BY <1>1
<1>2. CASE Post(d) \/ AddMultitask(d) \/ PostSubtask(d) \/ Recv(d)
  BY <1>2, PostSound, AddMultitaskSound, PostSubtaskSound, RecvSound
<1>3. CASE Register(d) \/ OpenStream(d) \/ Forget(d) \/ Leave(d)
  <2>1. \A k \in Nat : Holders(<<d, k>>)' = Holders(<<d, k>>)
    BY <1>3 DEF Register, OpenStream, Forget, Leave, queues, Holders, Holds, ToDo, Task
  <2>2. UNCHANGED <<want, posted, results, multis>>
    BY <1>3 DEF Register, OpenStream, Forget, Leave
  <2>3. /\ handler[d] \in {"new", "post"} <=> handler'[d] \in {"new", "post"}
        /\ handler'[d] # "answered"
    BY <1>3 DEF Register, OpenStream, Forget, Leave, Step, TypeInv, HttpType
  <2>4. Served(d)' => Served(d)
    BY <1>3, <2>2 DEF Register, OpenStream, Forget, Leave, Step, TypeInv, HttpType, Served,
                      Registered, InStage
  <2> QED BY <2>1, <2>2, <2>3, <2>4, GoesOnSound
<1>4. CASE RequestCancel(d)
  <2>1. /\ queue' = Append(queue, Task("cancel", <<d, 0>>)) /\ UNCHANGED <<deferred, slots>>
        /\ UNCHANGED <<want, posted, results, multis>>
        /\ handler[d] = "complete" /\ handler'[d] = "leave"
    BY <1>4 DEF RequestCancel, Step, TypeInv, HttpType
  <2>2. \A k \in Nat : Holders(<<d, k>>)' = Holders(<<d, k>>)
    <3> SUFFICES ASSUME NEW k \in Nat PROVE Holders(<<d, k>>)' = Holders(<<d, k>>)
      OBVIOUS
    <3>1. <<d, k>> \in Ids /\ <<d, 0>> \in Ids /\ "cancel" \notin Kinds
      BY DEF Ids, Kinds
    <3>2. Holders(<<d, k>>)' = Holders(<<d, k>>) + 0
      BY <2>1, <3>1, PostHolds
    <3>3. Holders(<<d, k>>) \in Nat
      BY CountNow
    <3> QED BY <3>2, <3>3
  <2> QED BY <2>1, <2>2, GoesOnSound DEF Served
<1> QED BY <1>2, <1>3, <1>4 DEF Handle

-----------------------------------------------------------------------------
(* The properties.                                                         *)

\* The initial state is in step and accounts for everything: there is nothing.
LEMMA InitOrderly == ASSUME Init PROVE OrderlyInv
<1>1. TypeInv
  BY InitType
<1>2. SlotsInStep
  BY DEF Init, SlotsInStep
<1>3. Registered
  BY WantType, <1>1 DEF Init, Registered, InStage, TypeInv, HttpType, Request
<1>4. ASSUME NEW c \in Clients PROVE Sound(c)
  <2>1. ASSUME NEW k \in Nat PROVE Holders(<<c, k>>) = 0 /\ Answers(<<c, k>>) = 0
    <3>1. Holding(<<c, k>>) = {}
      <4>1. <<c, k>> # NoTask
        BY ServerAssumption DEF NoTask
      <4> QED BY <4>1 DEF Init, Holding, Holds
    <3>2. Queued(<<c, k>>) = 0
      BY OccEmpty DEF Init, Queued
    <3>3. Answers(<<c, k>>) = 0
      BY OccEmpty DEF Init, Answers
    <3> QED BY <3>1, <3>2, <3>3, FS_EmptySet, HoldersAre
  <2>2. \A k \in Nat : <<c, k>> \notin PostedIds(c)
    <3>1. posted[c] = 0 /\ handler[c] = "new" /\ \A k \in Nat : k \notin 1 .. 0
      BY DEF Init
    <3> QED BY <1>1, <3>1, PostedIdsAre
  <2>3. Accounted(c)
    BY <2>1, <2>2 DEF Accounted, Total
  <2>4. Gathers(c) /\ Responds(c)
    BY DEF Init, Gathers, Responds, EndsLast
  <2> QED BY <2>3, <2>4 DEF Sound
<1> QED BY <1>2, <1>3, <1>4 DEF OrderlyInv

\* Every step keeps the slots in step and every task accounted for.
LEMMA NextOrderly == ASSUME Orderly, TypeInv, OrderlyInv, [Next]_vars PROVE OrderlyInv'
<1> USE DEF OrderlyInv
<1>1. TypeInv' /\ SlotsInStep'
  BY NextType, NextInStep
<1>2. Registered'
  BY NextInStage, NextCancels DEF Registered
<1>3. \A c \in Clients : Sound(c)'
  <2>1. CASE ProcessTask
    <3>1. UNCHANGED http
      BY <2>1 DEF ProcessTask, DeferRequest, Launch, LaunchRejected, CancelTask, NextResponse,
                  StatusTask, SlotAction
    <3>2. CASE StaysPut \/ \E id \in Ids : GivenUp(id)
      BY <1>1, <3>1, <3>2, QuietSound
    <3>3. ASSUME NEW id \in Ids, NEW r \in Ends, Answered(id, r)
          PROVE  \A c \in Clients : Sound(c)'
      BY <1>1, <3>1, <3>3, AnswerSound
    <3> QED BY <1>1, <2>1, <3>2, <3>3, TaskMoves
  <2>2. CASE MainStep /\ ~ProcessTask
    <3>1. UNCHANGED http
      BY <2>2 DEF MainStep, StartLoop, TasksDone, FinishMultitask, MultitasksDone, UpdateSlots,
         LoadPrompt, PromptsDone, Prefilled, Sample, Finish, DecodeDone, DecodeFailed,
         FailSlot, FailDone, Decide, Wake
    <3>2. CASE StaysPut
      BY <1>1, <3>1, <3>2, QuietSound
    <3>3. ASSUME NEW id \in Ids, NEW r \in Ends, Answered(id, r)
          PROVE  \A c \in Clients : Sound(c)'
      BY <1>1, <3>1, <3>3, AnswerSound
    <3>4. ASSUME NEW id \in Ids, PartSent(id) PROVE \A c \in Clients : Sound(c)'
      BY <1>1, <3>1, <3>4, PartSound
    <3>5. ASSUME NEW c \in Clients, FinishMultitask(c),
                 \A id \in Ids : Holders(id)' = Holders(id)
          PROVE  \A d \in Clients : Sound(d)'
      BY <1>1, <3>5, FinishSound
    <3> QED BY <1>1, <2>2, <3>2, <3>3, <3>4, <3>5, LoopMoves
  <2>3. CASE \E c \in Clients : Handle(c)
    BY <1>1, <2>3, HandleSound
  <2>4. CASE Terminate \/ UNCHANGED vars
    <3>1. UNCHANGED http /\ StaysPut
      BY <2>4 DEF Terminate, vars, http, StaysPut, Holders, Holds, ToDo, Task, queues
    <3> QED BY <1>1, <3>1, QuietSound
  <2> QED BY <2>1, <2>2, <2>3, <2>4 DEF Next
<1> QED BY <1>1, <1>2, <1>3

\* So the account is an invariant of an orderly server.
THEOREM OrderlyCorrect == ASSUME Orderly PROVE Spec => [](TypeInv /\ OrderlyInv)
<1>1. Init => TypeInv /\ OrderlyInv
  BY InitType, InitOrderly
<1>2. TypeInv /\ OrderlyInv /\ [Next]_vars => (TypeInv /\ OrderlyInv)'
  BY NextType, NextOrderly
<1> QED BY <1>1, <1>2, PTL DEF Spec

\* Of an orderly server, each task of a request that is waited for is in exactly
\* one place, however its steps interleave: a queue, a slot, or its answer.
THEOREM TasksHeldOnce == ASSUME Orderly PROVE Spec => []HeldOnce
<1>1. TypeInv /\ OrderlyInv => HeldOnce
  <2> SUFFICES ASSUME TypeInv, OrderlyInv, NEW c \in Clients,
                      handler[c] \in {"split", "stream", "recv"}, want[c].kind # "action",
                      NEW id \in PostedIds(c)
               PROVE  Holders(id) + Answers(id) = 1
    BY DEF HeldOnce
  <2>1. PICK k \in Nat : id = <<c, k>>
    BY DEF PostedIds, TypeInv, HttpType
  <2> QED BY <2>1 DEF OrderlyInv, Sound, Accounted, Served, Total
<1> QED BY <1>1, OrderlyCorrect, PTL

\* Of an orderly server, a response ends once.
THEOREM ResponsesEndOnce == ASSUME Orderly PROVE Spec => []EndsOnce
<1>1. TypeInv /\ OrderlyInv => EndsOnce
  BY DEF EndsOnce, OrderlyInv, Sound, Responds, EndsLast
<1> QED BY <1>1, OrderlyCorrect, PTL

\* Of an orderly server, a multitask finishes when each of its subtasks has
\* answered exactly once.
THEOREM MultitasksFinish == ASSUME Orderly PROVE Spec => []DoneWhenAllDone
<1>1. TypeInv /\ OrderlyInv => DoneWhenAllDone
  <2> SUFFICES ASSUME TypeInv, OrderlyInv, NEW c \in Clients, Finished(c), NEW id \in Subs(c)
               PROVE  Occurrences(multis[c].got, {id} \X Ends) = 1
    BY DEF DoneWhenAllDone
  <2>1. want[c].prompts \in Nat
    BY WantType DEF TypeInv, Request
  <2>2. PICK k \in 1 .. want[c].prompts : id = <<c, k>>
    BY DEF Subs
  <2>3. k \in Nat /\ k > 0
    BY <2>1
  <2>4. multis[c].open /\ multis[c].left = {} /\ Sound(c)
    BY DEF Finished, OrderlyInv
  <2>5. want[c].prompts > 1 /\ handler[c] \notin {"new", "post"}
    BY <2>4 DEF Sound, Responds
  <2>6. Answers(<<c, k>>) # 0
    BY <2>4, <2>5 DEF Sound, Gathers
  <2>7. Total(<<c, k>>) <= 1
    BY <2>3, <2>4 DEF Sound, Accounted
  <2>8. Holders(<<c, k>>) \in Nat /\ Answers(<<c, k>>) \in Nat
    BY <2>3, CountNow, AnswersAre
  <2>9. Answers(<<c, k>>) = 1
    BY <2>6, <2>7, <2>8 DEF Total
  <2> QED BY <2>2, <2>3, <2>9 DEF Answers
<1> QED BY <1>1, OrderlyCorrect, PTL

=============================================================================
