--------------------------- MODULE Devices_proofs ---------------------------
(***************************************************************************)
(* The streams of devices, and the server of a remote one.                 *)
(***************************************************************************)
EXTENDS Pipeline, Rpc, FiniteSetTheorems, SequenceTheorems, TLAPS

-----------------------------------------------------------------------------
(***************************************************************************)
(* A device computes on the inputs of its own batch: for any splits on any *)
(* devices, any number of copies and batches, with and without events and  *)
(* copies between peers, however far the streams fall behind the host.     *)
(*                                                                         *)
(* What is pending in the streams is described by four predicates; the     *)
(* invariant says where each pending operation stands to the others, to    *)
(* the host, and to the copies of the inputs.                              *)
(***************************************************************************)

\* Devices that write to each other take the wait for the event in the wrong
\* stream.  What keeps them from writing an input that is still in use is that
\* the user asks for results often enough, and that no computation on the CPU
\* is aborted while devices are ahead of it.
Unhurried ==
    \A u \in Setups : u.events /\ u.peers /\ u.n_copies > 1 =>
        /\ u.ahead <= u.n_copies
        /\ \A s \in DOMAIN u.splits : u.splits[s].backend = 0 => s = 1

-----------------------------------------------------------------------------
(* What is pending.                                                        *)

Pending(b) == 1 .. Len(stream[b])

ComputeOp(s, c, k) == [op |-> "compute", s |-> s, c |-> c, k |-> k]
CopyOp(s, m, c, k) == [op |-> "copy", s |-> s, j |-> m, c |-> c, k |-> k]
CopiedOp(s, m, k)  == [op |-> "copied", id |-> <<s, m, k>>]
RecordOp(b, c)     == [op |-> "record", event |-> <<b, c>>]

\* Each operation says what it is, and an operation is of one kind.
LEMMA Kinds ==
    /\ \A s, c, k, t, d, l : ComputeOp(s, c, k) = ComputeOp(t, d, l) <=> s = t /\ c = d /\ k = l
    /\ \A s, m, c, k, t, n, d, l :
          CopyOp(s, m, c, k) = CopyOp(t, n, d, l) <=> s = t /\ m = n /\ c = d /\ k = l
    /\ \A s, m, k, t, n, l : CopiedOp(s, m, k) = CopiedOp(t, n, l) <=> s = t /\ m = n /\ k = l
    /\ \A b, c, e, d : RecordOp(b, c) = RecordOp(e, d) <=> b = e /\ c = d
    /\ \A s, c, k : ComputeOp(s, c, k).op = "compute"
    /\ \A s, m, c, k : CopyOp(s, m, c, k).op = "copy"
    /\ \A s, m, k : CopiedOp(s, m, k).op = "copied"
    /\ \A b, c : RecordOp(b, c).op = "record"
BY DEF ComputeOp, CopyOp, CopiedOp, RecordOp

Computing(b, p, s, c, k) ==
    b \in Devices /\ p \in Pending(b) /\ stream[b][p] = ComputeOp(s, c, k)

Copying(b, p, s, m, c, k) ==
    b \in Devices /\ p \in Pending(b)
      /\ stream[b][p] = CopyOp(s, m, c, k)

Awaiting(b, p, s, m, k) ==
    b \in Devices /\ p \in Pending(b) /\ stream[b][p] = CopiedOp(s, m, k)

Recording(b, p, c) ==
    b \in Devices /\ p \in Pending(b) /\ stream[b][p] = RecordOp(b, c)

-----------------------------------------------------------------------------
(* The invariant.                                                          *)

Splits == 1 .. NSplits
Inputs(s) == Split(s).inputs

Op(b) ==
    [op : {"wait"}, event : {b} \X Copies, n : Nat]
      \cup [op : {"copy"}, s : Splits, j : Nat, c : Copies, k : Nat]
      \cup [op : {"copied"}, id : Splits \X Nat \X Nat]
      \cup [op : {"compute"}, s : Splits, c : Copies, k : Nat]
      \cup [op : {"record"}, event : {b} \X Copies]

Streams == [Devices -> UNION {Seq(Op(b)) : b \in Devices}]

StreamType == \A b \in Devices : stream[b] \in Seq(Op(b))

PipeType ==
    /\ setup \in Setups
    /\ cur_copy \in Copies /\ i \in Splits /\ j \in Nat \ {0} /\ batch \in Nat
    /\ next \in {"next", "input", "copy", "look", "record", "results"}
    /\ batch = 0 => next = "next"
    /\ next = "input" => j <= Len(Inputs(i)) + 1
    /\ next = "copy" => j <= Len(Inputs(i)) /\ Inputs(i)[j] = "hidden"
    /\ next \in {"look", "record"} => j = Len(Inputs(i)) + 1
    /\ stream \in Streams /\ StreamType
    /\ busy \in [Devices -> BOOLEAN]
    /\ recorded \in [Backends \X Copies -> Nat] /\ reached \in [Backends \X Copies -> Nat]
    /\ slot \in [UNION {Slots(s) : s \in Splits} -> Int] /\ hidden \in [Splits -> Int]

\* the host has not come to the computation of the split
AtInputs == next \in {"input", "copy"}

\* the host has queued split s of batch k, or input m of it
Early(s, k) == k < batch \/ (k = batch /\ (s < i \/ (s = i /\ ~AtInputs)))
Before(s, m, k) == k < batch \/ (k = batch /\ (s < i \/ (s = i /\ (m < j \/ ~AtInputs))))

\* an input that is copied from stream to stream
Async(s, m) ==
    /\ setup.peers /\ s \in Splits /\ s > 1 /\ m \in DOMAIN Inputs(s) /\ Inputs(s)[m] = "hidden"
    /\ Split(s).backend \in Devices /\ Split(s - 1).backend \in Devices

\* Each operation is in the stream of its device, and the host has been there.
InPlace ==
    /\ \A b, p, s, c, k : Computing(b, p, s, c, k) =>
          /\ s \in Splits /\ Split(s).backend = b /\ c \in Copies /\ k \in 1 .. batch
          /\ Early(s, k)
    /\ \A b, p, s, m, c, k : Copying(b, p, s, m, c, k) =>
          /\ Async(s, m) /\ Split(s - 1).backend = b /\ c \in Copies /\ k \in 1 .. batch
          /\ Before(s, m, k) /\ <<s, m, k>> \notin copied
    /\ \A s, m, k : <<s, m, k>> \in copied =>
          s \in Splits /\ m \in Nat /\ k \in Nat /\ Before(s, m, k)
    /\ \A b \in Devices : busy[b] => \E s, c, k : Computing(b, 1, s, c, k)

\* No two copies to one place are pending, nor two of one input for one batch.
Single ==
    \A b, d, p, q, s, m, c, e, k, l :
        Copying(b, p, s, m, c, k) /\ Copying(d, q, s, m, e, l) /\ (c = e \/ k = l)
          => b = d /\ p = q

\* Input m is there for the p-th operation of a stream, or will be by then.
Ready(b, p, s, m, c, k) ==
    \/ slot[<<s, m, c>>] = k /\ \A d, q, l : ~Copying(d, q, s, m, c, l)
    \/ \E d, q : /\ Copying(d, q, s, m, c, k)
                 /\ \/ d = b /\ q < p
                    \/ d # b /\ \E r : r < p /\ Awaiting(b, r, s, m, k)

\* Input m is there, or a copy is pending.
Given(s, m, c, k) ==
    \/ slot[<<s, m, c>>] = k /\ \A d, q, l : ~Copying(d, q, s, m, c, l)
    \/ \E d, q : Copying(d, q, s, m, c, k)

AllReady ==
    /\ \A b, p, s, c, k, m : Computing(b, p, s, c, k) /\ m \in DOMAIN Inputs(s) =>
          Ready(b, p, s, m, c, k)
    /\ AtInputs => \A m \in 1 .. j - 1 : Given(i, m, cur_copy, batch)

\* The reader of a copy from another stream waits for it.
Awaited ==
    \A d, q, s, m, c, k : Copying(d, q, s, m, c, k) /\ Split(s).backend # d =>
        \E r : Awaiting(Split(s).backend, r, s, m, k)

\* Before the p-th operation split s was last computed for batch k.
Latest(b, p, s, k) ==
    \/ \E q, c : /\ q < p /\ Computing(b, q, s, c, k)
                 /\ \A r, e, l : q < r /\ r < p => ~Computing(b, r, s, e, l)
    \/ hidden[s] = k /\ \A r, e, l : r < p => ~Computing(b, r, s, e, l)

\* The last computation of split s, pending or done, is of batch k.
Fresh(s, k) ==
    \/ \E b, q, c : /\ Computing(b, q, s, c, k)
                    /\ \A r, e, l : q < r => ~Computing(b, r, s, e, l)
    \/ hidden[s] = k /\ \A b, r, e, l : ~Computing(b, r, s, e, l)

Current ==
    /\ \A b, p, s, m, c, k : Copying(b, p, s, m, c, k) => Latest(b, p, s - 1, k)
    /\ AtInputs /\ i > 1 => Fresh(i - 1, batch)
    /\ next \in {"look", "record"} => Fresh(i, batch)

\* A computation with inputs is followed by the record of its event.
Recorded ==
    HasEvents => \A b, p, s, c, k : Computing(b, p, s, c, k) /\ Inputs(s) # <<>> =>
        \/ \E r : p < r /\ Recording(b, r, c)
        \/ next \in {"look", "record"} /\ s = i /\ k = batch /\ c = cur_copy

Records(b, c) == {p \in Pending(b) : Recording(b, p, c)}

Counted ==
    \A b \in Devices, c \in Copies :
        recorded[<<b, c>>] = reached[<<b, c>>] + Cardinality(Records(b, c))

\* Without events the host waits until the reader is idle.
Quiet == next = "copy" /\ Peers /\ ~HasEvents => stream[Here.backend] = <<>>

\* Copies that have been rotated away since batch k used copy c.
Rotated(c, n) ==
    IF n = 0 THEN cur_copy = c
    ELSE \E d \in 1 .. n : cur_copy = c + d \/ cur_copy = c + d - setup.n_copies

Since(k) == IF next \in {"next", "results"} THEN batch - k + 1 ELSE batch - k

Recent(c, k) == Rotated(c, Since(k)) /\ batch - k <= (batch - 1) % setup.ahead

\* Of the batches since the user last asked for results, each has its own copy.
Ahead ==
    HasEvents /\ setup.peers =>
        /\ \A b, p, s, c, k : Computing(b, p, s, c, k) => Recent(c, k)
        /\ \A b, p, s, m, c, k : Copying(b, p, s, m, c, k) => Recent(c, k)
        /\ next = "next" /\ batch % setup.ahead = 0 => AllIdle

PipeInv ==
    PipeType /\ InPlace /\ Single /\ AllReady /\ Awaited /\ Current /\ Recorded /\ Counted
      /\ Quiet /\ Ahead

-----------------------------------------------------------------------------
(* The streams.                                                            *)

\* The fields of an operation.
LEMMA OpIs ==
    ASSUME NEW b, NEW x \in Op(b)
    PROVE  /\ x.op \in {"wait", "copy", "copied", "compute", "record"}
           /\ x.op = "copy" =>
                /\ x.s \in Splits /\ x.j \in Nat /\ x.c \in Copies /\ x.k \in Nat
                /\ x = CopyOp(x.s, x.j, x.c, x.k)
           /\ x.op = "compute" =>
                /\ x.s \in Splits /\ x.c \in Copies /\ x.k \in Nat
                /\ x = ComputeOp(x.s, x.c, x.k)
           /\ x.op = "record" =>
                \E c \in Copies : x.event = <<b, c>> /\ x = RecordOp(b, c)
           /\ x.op = "copied" =>
                \E s, m, k : x.id = <<s, m, k>> /\ x = CopiedOp(s, m, k)
BY DEF Op, ComputeOp, CopyOp, CopiedOp, RecordOp

\* Which streams grow, by which operation.
Grow(G, new) ==
    /\ G \subseteq Devices /\ \A b \in G : new[b] \in Op(b)
    /\ stream' = [b \in Devices |-> IF b \in G THEN Append(stream[b], new[b]) ELSE stream[b]]

Grown(G, new) ==
    /\ \A b, p, s, c, k : Computing(b, p, s, c, k)' <=>
          \/ Computing(b, p, s, c, k)
          \/ /\ b \in G /\ p = Len(stream[b]) + 1
             /\ new[b] = ComputeOp(s, c, k)
    /\ \A b, p, s, m, c, k : Copying(b, p, s, m, c, k)' <=>
          \/ Copying(b, p, s, m, c, k)
          \/ /\ b \in G /\ p = Len(stream[b]) + 1
             /\ new[b] = CopyOp(s, m, c, k)
    /\ \A b, p, s, m, k : Awaiting(b, p, s, m, k)' <=>
          \/ Awaiting(b, p, s, m, k)
          \/ /\ b \in G /\ p = Len(stream[b]) + 1
             /\ new[b] = CopiedOp(s, m, k)
    /\ \A b, p, c : Recording(b, p, c)' <=>
          \/ Recording(b, p, c)
          \/ /\ b \in G /\ p = Len(stream[b]) + 1
             /\ new[b] = RecordOp(b, c)

LEMMA Grows ==
    ASSUME StreamType, UNCHANGED setup, NEW G, NEW new, Grow(G, new)
    PROVE  /\ Grown(G, new) /\ StreamType'
           /\ stream' \in Streams
           /\ \A b \in Devices : Len(stream[b]) \in Nat
                /\ Len(stream'[b]) = IF b \in G THEN Len(stream[b]) + 1 ELSE Len(stream[b])
<1>1. Devices' = Devices /\ \A b : Op(b)' = Op(b)
  BY DEF Devices, Backends, Split, NSplits, Op, Splits, Copies
<1>2. ASSUME NEW b \in Devices
      PROVE  /\ stream'[b] \in Seq(Op(b)) /\ Len(stream[b]) \in Nat
             /\ Len(stream'[b]) = IF b \in G THEN Len(stream[b]) + 1 ELSE Len(stream[b])
             /\ \A p : /\ p \in Pending(b) => p \in Pending(b)' /\ stream'[b][p] = stream[b][p]
                       /\ p \in Pending(b)' /\ p \notin Pending(b) =>
                            b \in G /\ p = Len(stream[b]) + 1 /\ stream'[b][p] = new[b]
                       /\ b \in G /\ p = Len(stream[b]) + 1 =>
                            p \in Pending(b)' /\ p \notin Pending(b) /\ stream'[b][p] = new[b]
  <2>1. stream[b] \in Seq(Op(b))
    BY DEF StreamType
  <2>2. CASE b \in G
    <3>1. stream'[b] = Append(stream[b], new[b]) /\ new[b] \in Op(b)
      BY <2>2 DEF Grow
    <3> QED BY <2>1, <2>2, <3>1, AppendProperties DEF Pending
  <2>3. CASE b \notin G
    <3>1. stream'[b] = stream[b]
      BY <2>3 DEF Grow
    <3> QED BY <2>1, <2>3, <3>1, LenProperties DEF Pending
  <2> QED BY <2>2, <2>3
<1>3. G \subseteq Devices
  BY DEF Grow
<1>4. Grown(G, new)
  <2>1. ASSUME NEW b, NEW p, NEW x
        PROVE  b \in Devices' /\ p \in Pending(b)' /\ stream'[b][p] = x <=>
                  \/ b \in Devices /\ p \in Pending(b) /\ stream[b][p] = x
                  \/ b \in G /\ p = Len(stream[b]) + 1 /\ new[b] = x
    BY <1>1, <1>2, <1>3
  <2>2. \A b, p, s, c, k : Computing(b, p, s, c, k)' <=>
          \/ Computing(b, p, s, c, k)
          \/ /\ b \in G /\ p = Len(stream[b]) + 1
             /\ new[b] = ComputeOp(s, c, k)
    BY ONLY <2>1 DEF Computing
  <2>3. \A b, p, s, m, c, k : Copying(b, p, s, m, c, k)' <=>
          \/ Copying(b, p, s, m, c, k)
          \/ /\ b \in G /\ p = Len(stream[b]) + 1
             /\ new[b] = CopyOp(s, m, c, k)
    BY ONLY <2>1, SMTT(30) DEF Copying
  <2>4. \A b, p, s, m, k : Awaiting(b, p, s, m, k)' <=>
          \/ Awaiting(b, p, s, m, k)
          \/ /\ b \in G /\ p = Len(stream[b]) + 1
             /\ new[b] = CopiedOp(s, m, k)
    BY ONLY <2>1 DEF Awaiting
  <2>5. \A b, p, c : Recording(b, p, c)' <=>
          \/ Recording(b, p, c)
          \/ /\ b \in G /\ p = Len(stream[b]) + 1
             /\ new[b] = RecordOp(b, c)
    BY ONLY <2>1, ZenonT(60) DEF Recording
  <2> QED BY ONLY <2>2, <2>3, <2>4, <2>5 DEF Grown
<1>5. stream' \in Streams
  BY <1>2 DEF Grow, Streams
<1>6. StreamType'
  BY <1>1, <1>2 DEF StreamType
<1> QED BY <1>2, <1>4, <1>5, <1>6

\* The first operation of stream b is done.
Popped(b) ==
    /\ \A d, p, s, c, k :
          /\ Computing(d, p, s, c, k)' => /\ p \in Nat \ {0}
                                          /\ Computing(d, IF d = b THEN p + 1 ELSE p, s, c, k)
          /\ Computing(d, p, s, c, k) /\ (d = b => p # 1) =>
                Computing(d, IF d = b THEN p - 1 ELSE p, s, c, k)'
    /\ \A d, p, s, m, c, k :
          /\ Copying(d, p, s, m, c, k)' => /\ p \in Nat \ {0}
                                           /\ Copying(d, IF d = b THEN p + 1 ELSE p, s, m, c, k)
          /\ Copying(d, p, s, m, c, k) /\ (d = b => p # 1) =>
                Copying(d, IF d = b THEN p - 1 ELSE p, s, m, c, k)'
    /\ \A d, p, s, m, k :
          /\ Awaiting(d, p, s, m, k)' => /\ p \in Nat \ {0}
                                         /\ Awaiting(d, IF d = b THEN p + 1 ELSE p, s, m, k)
          /\ Awaiting(d, p, s, m, k) /\ (d = b => p # 1) =>
                Awaiting(d, IF d = b THEN p - 1 ELSE p, s, m, k)'
    /\ \A d, p, c :
          /\ Recording(d, p, c)' => /\ p \in Nat \ {0}
                                    /\ Recording(d, IF d = b THEN p + 1 ELSE p, c)
          /\ Recording(d, p, c) /\ (d = b => p # 1) =>
                Recording(d, IF d = b THEN p - 1 ELSE p, c)'

LEMMA Pops ==
    ASSUME StreamType, stream \in Streams,
           UNCHANGED setup, NEW b \in Devices, stream[b] # <<>>, Done(b)
    PROVE  /\ Popped(b) /\ StreamType'
           /\ stream' \in Streams
           /\ \A d \in Devices : Len(stream[d]) \in Nat
                /\ Len(stream'[d]) = IF d = b THEN Len(stream[d]) - 1 ELSE Len(stream[d])
<1>1. Devices' = Devices /\ \A d : Op(d)' = Op(d)
  BY DEF Devices, Backends, Split, NSplits, Op, Splits, Copies
<1>2. ASSUME NEW d \in Devices
      PROVE  /\ stream'[d] \in Seq(Op(d)) /\ Len(stream[d]) \in Nat
             /\ Len(stream'[d]) = IF d = b THEN Len(stream[d]) - 1 ELSE Len(stream[d])
             /\ \A p : /\ p \in Pending(d)' =>
                            /\ p \in Nat \ {0}
                            /\ (IF d = b THEN p + 1 ELSE p) \in Pending(d)
                            /\ stream'[d][p] = stream[d][IF d = b THEN p + 1 ELSE p]
                       /\ p \in Pending(d) /\ (d = b => p # 1) =>
                            /\ (IF d = b THEN p - 1 ELSE p) \in Pending(d)'
                            /\ stream'[d][IF d = b THEN p - 1 ELSE p] = stream[d][p]
  <2>1. stream[d] \in Seq(Op(d))
    BY DEF StreamType
  <2>2. CASE d = b
    <3>1. stream'[d] = Tail(stream[d])
      BY <2>2 DEF Done, Streams
    <3>2. /\ stream'[d] \in Seq(Op(d)) /\ Len(stream[d]) \in Nat
          /\ Len(stream'[d]) = Len(stream[d]) - 1
          /\ \A q \in 1 .. Len(stream'[d]) : stream'[d][q] = stream[d][q + 1]
      BY <2>1, <2>2, <3>1, HeadTailProperties, LenProperties
    <3>3. ASSUME NEW p, p \in Pending(d)'
          PROVE  p \in Nat \ {0} /\ p + 1 \in Pending(d) /\ stream'[d][p] = stream[d][p + 1]
      BY <3>2, <3>3 DEF Pending
    <3>4. ASSUME NEW p, p \in Pending(d), p # 1
          PROVE  p - 1 \in Pending(d)' /\ stream'[d][p - 1] = stream[d][p]
      <4>1. p - 1 \in 1 .. Len(stream'[d]) /\ (p - 1) + 1 = p
        BY <3>2, <3>4 DEF Pending
      <4>2. stream'[d][p - 1] = stream[d][(p - 1) + 1]
        BY <3>2, <4>1
      <4> QED BY <4>1, <4>2 DEF Pending
    <3> QED BY ONLY <2>2, <3>2, <3>3, <3>4
  <2>3. CASE d # b
    <3>1. stream'[d] = stream[d]
      BY <2>3 DEF Done
    <3> QED BY <2>1, <2>3, <3>1, LenProperties DEF Pending
  <2> QED BY <2>2, <2>3
<1>3. Popped(b)
  <2>1. ASSUME NEW d, NEW p, NEW x
        PROVE  /\ d \in Devices' /\ p \in Pending(d)' /\ stream'[d][p] = x =>
                    /\ p \in Nat \ {0}
                    /\ d \in Devices /\ (IF d = b THEN p + 1 ELSE p) \in Pending(d)
                    /\ stream[d][IF d = b THEN p + 1 ELSE p] = x
               /\ d \in Devices /\ p \in Pending(d) /\ stream[d][p] = x /\ (d = b => p # 1) =>
                    /\ d \in Devices' /\ (IF d = b THEN p - 1 ELSE p) \in Pending(d)'
                    /\ stream'[d][IF d = b THEN p - 1 ELSE p] = x
    BY <1>1, <1>2
  <2>2. \A d, p, s, c, k :
          /\ Computing(d, p, s, c, k)' => /\ p \in Nat \ {0}
                                          /\ Computing(d, IF d = b THEN p + 1 ELSE p, s, c, k)
          /\ Computing(d, p, s, c, k) /\ (d = b => p # 1) =>
                Computing(d, IF d = b THEN p - 1 ELSE p, s, c, k)'
    BY ONLY <2>1 DEF Computing
  <2>3. \A d, p, s, m, c, k :
          /\ Copying(d, p, s, m, c, k)' => /\ p \in Nat \ {0}
                                           /\ Copying(d, IF d = b THEN p + 1 ELSE p, s, m, c, k)
          /\ Copying(d, p, s, m, c, k) /\ (d = b => p # 1) =>
                Copying(d, IF d = b THEN p - 1 ELSE p, s, m, c, k)'
    BY ONLY <2>1 DEF Copying
  <2>4. \A d, p, s, m, k :
          /\ Awaiting(d, p, s, m, k)' => /\ p \in Nat \ {0}
                                         /\ Awaiting(d, IF d = b THEN p + 1 ELSE p, s, m, k)
          /\ Awaiting(d, p, s, m, k) /\ (d = b => p # 1) =>
                Awaiting(d, IF d = b THEN p - 1 ELSE p, s, m, k)'
    BY ONLY <2>1 DEF Awaiting
  <2>5. \A d, p, c :
          /\ Recording(d, p, c)' => /\ p \in Nat \ {0}
                                    /\ Recording(d, IF d = b THEN p + 1 ELSE p, c)
          /\ Recording(d, p, c) /\ (d = b => p # 1) =>
                Recording(d, IF d = b THEN p - 1 ELSE p, c)'
    BY ONLY <2>1 DEF Recording
  <2> QED BY ONLY <2>2, <2>3, <2>4, <2>5 DEF Popped
<1>4. stream' \in Streams
  BY <1>2 DEF Done, Streams
<1>5. StreamType'
  BY <1>1, <1>2 DEF StreamType
<1> QED BY <1>2, <1>3, <1>4, <1>5

\* What is at the head of a stream.
LEMMA HeadOp ==
    ASSUME StreamType, NEW b \in Devices, stream[b] # <<>>
    PROVE  /\ 1 \in Pending(b) /\ Head(stream[b]) = stream[b][1]
           /\ Head(stream[b]) \in Op(b)
<1>1. stream[b] \in Seq(Op(b))
  BY DEF StreamType
<1> QED BY <1>1, HeadTailProperties, LenProperties, ElementOfSeq DEF Pending

-----------------------------------------------------------------------------
(* The types.                                                              *)

LEMMA SetupIs ==
    ASSUME setup \in Setups
    PROVE  /\ NSplits \in Nat \ {0} /\ setup.n_copies \in Nat \ {0} /\ setup.ahead \in Nat \ {0}
           /\ setup.events \in BOOLEAN /\ setup.peers \in BOOLEAN /\ setup.eval \in BOOLEAN
           /\ \A s \in Splits :
                 /\ Split(s).backend \in Backends /\ Split(s).backend \in Nat
                 /\ Inputs(s) \in Seq({"user", "hidden"}) /\ Len(Inputs(s)) \in Nat
                 /\ DOMAIN Inputs(s) = 1 .. Len(Inputs(s))
                 /\ \A m \in DOMAIN Inputs(s) : Inputs(s)[m] \in {"user", "hidden"}
           /\ \A m \in DOMAIN Inputs(1) : Inputs(1)[m] = "user"
           /\ 0 \in Copies
<1>1. setup \in SetupType /\ \A m \in DOMAIN setup.splits[1].inputs : setup.splits[1].inputs[m] = "user"
  BY PipelineAssumption
<1>2. /\ setup.splits \in Seq([backend : Nat, inputs : Seq({"user", "hidden"})]) /\ setup.splits # <<>>
      /\ setup.n_copies \in Nat \ {0} /\ setup.ahead \in Nat \ {0}
      /\ setup.events \in BOOLEAN /\ setup.peers \in BOOLEAN /\ setup.eval \in BOOLEAN
  BY <1>1 DEF SetupType
<1>3. NSplits \in Nat \ {0}
  BY <1>2, EmptySeq, LenProperties DEF NSplits
<1>4. ASSUME NEW s \in Splits
      PROVE  /\ Split(s).backend \in Backends /\ Split(s).backend \in Nat
             /\ Inputs(s) \in Seq({"user", "hidden"}) /\ Len(Inputs(s)) \in Nat
             /\ DOMAIN Inputs(s) = 1 .. Len(Inputs(s))
             /\ \A m \in DOMAIN Inputs(s) : Inputs(s)[m] \in {"user", "hidden"}
  <2>1. Split(s) \in [backend : Nat, inputs : Seq({"user", "hidden"})]
    BY <1>2, ElementOfSeq DEF Splits, NSplits, Split
  <2>2. Inputs(s) \in Seq({"user", "hidden"}) /\ Split(s).backend \in Nat
    BY <2>1 DEF Inputs
  <2>3. Split(s).backend \in Backends
    BY DEF Backends, Splits
  <2> QED BY <2>2, <2>3, LenProperties, ElementOfSeq
<1> QED BY <1>1, <1>2, <1>3, <1>4 DEF Inputs, Split, Copies

\* The setup never changes, nor does what depends on it alone.
LEMMA Static ==
    ASSUME UNCHANGED setup
    PROVE  /\ NSplits' = NSplits /\ Splits' = Splits /\ Devices' = Devices /\ Backends' = Backends
           /\ Copies' = Copies /\ HasEvents' = HasEvents
           /\ \A s : Split(s)' = Split(s) /\ Inputs(s)' = Inputs(s) /\ Slots(s)' = Slots(s)
           /\ \A b : Op(b)' = Op(b)
           /\ \A s, m : Async(s, m)' = Async(s, m)
BY DEF NSplits, Splits, Devices, Backends, Copies, HasEvents, Split, Inputs, Slots, Op, Async

\* Devices have a stream, the CPU has none.
LEMMA WhereIs ==
    ASSUME PipeType
    PROVE  /\ Here = Split(i) /\ Here.inputs = Inputs(i)
           /\ Here.backend \in Backends /\ (Here.backend \in Devices <=> Here.backend # 0)
           /\ Source \in Devices \cup {0} /\ (i = 1 => Source = 0)
           /\ i > 1 => i - 1 \in Splits /\ Source = Split(i - 1).backend
           /\ Event = <<Here.backend, cur_copy>> /\ Event \in Backends \X Copies
           /\ 0 \notin Devices
<1>1. /\ i \in Splits /\ cur_copy \in Copies /\ NSplits \in Nat
      /\ \A s \in Splits : Split(s).backend \in Backends
  BY SetupIs DEF PipeType
<1>2. i > 1 => i - 1 \in Splits
  BY <1>1 DEF Splits
<1>3. i \in 1 .. NSplits
  BY <1>1 DEF Splits
<1> QED BY <1>1, <1>2, <1>3 DEF Here, Inputs, Source, Event, Devices

LEMMA InitType == PipeInit => PipeType
<1> SUFFICES ASSUME PipeInit PROVE PipeType
  OBVIOUS
<1>1. setup \in Setups
  BY DEF PipeInit
<1>2. NSplits \in Nat \ {0} /\ 0 \in Copies
  BY <1>1, SetupIs
<1>3. \A b \in Devices : stream[b] \in Seq(Op(b))
  BY EmptySeq DEF PipeInit
<1>4. stream \in Streams
  BY <1>3 DEF PipeInit, Streams
<1>5. recorded \in [Backends \X Copies -> Nat] /\ reached \in [Backends \X Copies -> Nat]
  BY DEF PipeInit
<1>6. slot \in [UNION {Slots(s) : s \in Splits} -> Int] /\ hidden \in [Splits -> Int]
  BY DEF PipeInit, Splits
<1>7. busy \in [Devices -> BOOLEAN]
  BY DEF PipeInit
<1>8. /\ cur_copy = 0 /\ i = 1 /\ j = 1 /\ next = "next" /\ batch = 0
  BY DEF PipeInit
<1> QED BY <1>1, <1>2, <1>3, <1>4, <1>5, <1>6, <1>7, <1>8 DEF PipeType, Splits, StreamType

-----------------------------------------------------------------------------
(* What the host queues.                                                   *)

\* Nothing is queued but waits.
SameOps ==
    /\ \A b, p, s, c, k : Computing(b, p, s, c, k)' <=> Computing(b, p, s, c, k)
    /\ \A b, p, s, m, c, k : Copying(b, p, s, m, c, k)' <=> Copying(b, p, s, m, c, k)
    /\ \A b, p, s, m, k : Awaiting(b, p, s, m, k)' <=> Awaiting(b, p, s, m, k)
    /\ \A b, p, c : Recording(b, p, c)' <=> Recording(b, p, c)

LEMMA NothingQueued == ASSUME UNCHANGED <<setup, stream>> PROVE SameOps
<1>1. Devices' = Devices /\ \A b : Pending(b)' = Pending(b)
  BY Static DEF Pending
<1> QED BY <1>1 DEF SameOps, Computing, Copying, Awaiting, Recording

LEMMA Queued ==
    ASSUME PipeType, NEW b \in Devices, NEW x \in Op(b), Queue(b, <<x>>)
    PROVE  Grow({b}, [d \in {b} |-> x])
<1>1. stream[b] \in Seq(Op(b)) /\ stream \in Streams
  BY DEF PipeType, StreamType, Streams
<1>2. stream[b] \o <<x>> = Append(stream[b], x)
  BY <1>1, AppendIsConcat
<1> QED BY <1>1, <1>2 DEF Queue, Grow, Streams

LEMMA BeginHiddenOps ==
    ASSUME PipeType, BeginHidden
    PROVE  SameOps /\ StreamType' /\ stream' \in Streams
<1>1. StreamType /\ stream \in Streams /\ UNCHANGED setup
  BY DEF PipeType, StreamType, Streams, BeginHidden, Stay
<1>2. CASE UNCHANGED stream
  BY <1>1, <1>2, NothingQueued, Static DEF StreamType, Streams
<1>3. CASE ~UNCHANGED stream
  <2> DEFINE b == Here.backend
             x == [op |-> "wait", event |-> Event, n |-> recorded[Event]]
  <2>1. b \in Devices /\ Queue(b, <<x>>)
    BY <1>3 DEF BeginHidden
  <2>2. x \in Op(b)
    <3>1. Event = <<b, cur_copy>> /\ recorded[Event] \in Nat /\ cur_copy \in Copies
      BY WhereIs DEF PipeType
    <3> QED BY <3>1 DEF Op
  <2> HIDE DEF b
  <2>3. Grow({b}, [d \in {b} |-> x])
    BY <2>1, <2>2, Queued
  <2>4. \A d : d \in {b} => [e \in {b} |-> x][d].op = "wait"
    OBVIOUS
  <2> HIDE DEF x
  <2> DEFINE new == [d \in {b} |-> x]
  <2> HIDE DEF new
  <2>5. Grown({b}, new) /\ StreamType' /\ stream' \in Streams
    BY <1>1, <2>3, Grows DEF new, Streams
  <2>6. \A d \in {b} : new[d].op = "wait"
    BY <2>4 DEF new
  <2>7. \A d \in {b} : /\ \A s, c, k : new[d] # ComputeOp(s, c, k)
                       /\ \A s, m, c, k : new[d] # CopyOp(s, m, c, k)
                       /\ \A s, m, k : new[d] # CopiedOp(s, m, k)
                       /\ \A c : new[d] # RecordOp(d, c)
    BY <2>6, Kinds
  <2>8. SameOps
    BY ONLY <2>5, <2>7 DEF Grown, SameOps
  <2> QED BY <2>5, <2>8
<1> QED BY <1>2, <1>3

\* the computation of the split the host is at
LEMMA ComputeAsyncOps ==
    ASSUME PipeType, ComputeAsync, NEW b, b = Here.backend
    PROVE  /\ b \in Devices /\ StreamType' /\ stream' \in Streams
           /\ \A d, p, s, c, k : Computing(d, p, s, c, k)' <=>
                 \/ Computing(d, p, s, c, k)
                 \/ d = b /\ p = Len(stream[b]) + 1 /\ s = i /\ c = cur_copy /\ k = batch
           /\ \A d, p, s, m, c, k : Copying(d, p, s, m, c, k)' <=> Copying(d, p, s, m, c, k)
           /\ \A d, p, s, m, k : Awaiting(d, p, s, m, k)' <=> Awaiting(d, p, s, m, k)
           /\ \A d, p, c : Recording(d, p, c)' <=> Recording(d, p, c)
<1> DEFINE x == ComputeOp(i, cur_copy, batch)
           new == [d \in {b} |-> x]
<1>1. StreamType /\ stream \in Streams /\ UNCHANGED setup
  BY DEF PipeType, StreamType, Streams, ComputeAsync, Stay
<1>2. b \in Devices /\ Queue(b, <<x>>)
  BY DEF ComputeAsync, ComputeOp
<1>3. x \in Op(b)
  BY DEF PipeType, Op, ComputeOp
<1>4. Grow({b}, new)
  BY <1>2, <1>3, Queued
<1>5. new[b] = x
  OBVIOUS
<1> HIDE DEF new
<1>6. Grown({b}, new) /\ StreamType' /\ stream' \in Streams
  BY <1>1, <1>4, Grows DEF Streams
<1>7. \A d \in {b} : /\ \A s, m, c, k : new[d] # CopyOp(s, m, c, k)
                     /\ \A s, m, k : new[d] # CopiedOp(s, m, k)
                     /\ \A c : new[d] # RecordOp(d, c)
                     /\ \A s, c, k : new[d] = ComputeOp(s, c, k) <=>
                          s = i /\ c = cur_copy /\ k = batch
  BY <1>5, Kinds
<1> QED BY ONLY <1>2, <1>6, <1>7 DEF Grown

LEMMA RecordOps ==
    ASSUME PipeType, Record, HasEvents, Here.inputs # <<>>, Here.backend \in Devices,
           NEW b, b = Here.backend
    PROVE  /\ StreamType' /\ stream' \in Streams
           /\ recorded' = [recorded EXCEPT ![<<b, cur_copy>>] = @ + 1]
           /\ \A d, p, s, c, k : Computing(d, p, s, c, k)' <=> Computing(d, p, s, c, k)
           /\ \A d, p, s, m, c, k : Copying(d, p, s, m, c, k)' <=> Copying(d, p, s, m, c, k)
           /\ \A d, p, s, m, k : Awaiting(d, p, s, m, k)' <=> Awaiting(d, p, s, m, k)
           /\ \A d, p, c : Recording(d, p, c)' <=>
                 Recording(d, p, c) \/ (d = b /\ p = Len(stream[b]) + 1 /\ c = cur_copy)
<1> DEFINE x == RecordOp(b, cur_copy)
           new == [d \in {b} |-> x]
<1>1. StreamType /\ stream \in Streams /\ UNCHANGED setup
  BY DEF PipeType, StreamType, Streams, Record
<1>3. Event = <<b, cur_copy>> /\ cur_copy \in Copies
  BY WhereIs DEF PipeType
<1>2. b \in Devices /\ Queue(b, <<x>>) /\ recorded' = [recorded EXCEPT ![Event] = @ + 1]
  BY <1>3 DEF Record, RecordOp
<1>4. x \in Op(b)
  BY <1>3 DEF Op, RecordOp
<1>5. Grow({b}, new)
  BY <1>2, <1>4, Queued
<1>6. new[b] = x
  OBVIOUS
<1> HIDE DEF new
<1>7. Grown({b}, new) /\ StreamType' /\ stream' \in Streams
  BY <1>1, <1>5, Grows DEF Streams
<1>8. \A d \in {b} : /\ \A s, c, k : new[d] # ComputeOp(s, c, k)
                     /\ \A s, m, c, k : new[d] # CopyOp(s, m, c, k)
                     /\ \A s, m, k : new[d] # CopiedOp(s, m, k)
                     /\ \A c : new[d] = RecordOp(d, c) <=> c = cur_copy
  BY <1>3, <1>6, Kinds
<1>9. recorded' = [recorded EXCEPT ![<<b, cur_copy>>] = @ + 1]
  BY <1>2, <1>3
<1> QED BY ONLY <1>7, <1>8, <1>9 DEF Grown

\* the copy on the stream of the source, and the wait on that of the split
LEMMA CopyAsyncOps ==
    ASSUME PipeType, CopyAsync, NEW a, a = Source, NEW b, b = Here.backend
    PROVE  /\ a \in Devices /\ b \in Devices /\ StreamType' /\ stream' \in Streams
           /\ \A d, p, s, c, k : Computing(d, p, s, c, k)' <=> Computing(d, p, s, c, k)
           /\ \A d, p, s, m, c, k : Copying(d, p, s, m, c, k)' <=>
                 \/ Copying(d, p, s, m, c, k)
                 \/ /\ d = a /\ p = Len(stream[a]) + 1
                    /\ s = i /\ m = j /\ c = cur_copy /\ k = batch
           /\ \A d, p, s, m, k : Awaiting(d, p, s, m, k) => Awaiting(d, p, s, m, k)'
           /\ a # b => \A s, m, k : s = i /\ m = j /\ k = batch =>
                \E r : Awaiting(b, r, s, m, k)'
           /\ \A d, p, c : Recording(d, p, c)' <=> Recording(d, p, c)
<1> DEFINE x == CopyOp(i, j, cur_copy, batch)
           y == CopiedOp(i, j, batch)
           G == {a, b}
           new == [d \in G |-> IF d = a THEN x ELSE y]
<1>1. StreamType /\ stream \in Streams /\ UNCHANGED setup
  BY DEF PipeType, StreamType, Streams, CopyAsync, Stay
<1>2. a \in Devices /\ b \in Devices
  BY DEF CopyAsync, Peers
<1>3. x \in Op(a) /\ y \in Op(b)
  BY DEF PipeType, Op, CopyOp, CopiedOp
<1>4. stream' = [d \in Devices |-> IF d \in G THEN Append(stream[d], new[d]) ELSE stream[d]]
  <2>1. CASE a = b
    <3>1. stream' = [stream EXCEPT ![a] = Append(@, x)]
      BY <2>1 DEF CopyAsync, CopyOp
    <3> QED BY <1>1, <1>2, <2>1, <3>1 DEF Streams
  <2>2. CASE a # b
    <3>1. stream' = [stream EXCEPT ![a] = Append(@, x), ![b] = Append(@, y)]
      BY <2>2 DEF CopyAsync, CopyOp, CopiedOp
    <3> QED BY <1>1, <1>2, <2>2, <3>1 DEF Streams
  <2> QED BY <2>1, <2>2
<1>5. /\ \A d \in G : new[d] \in Op(d)
      /\ new[a] = x /\ (a # b => new[b] = y)
  BY <1>3
<1> HIDE DEF new
<1>6. Grow(G, new)
  BY <1>2, <1>4, <1>5 DEF Grow
<1>7. Grown(G, new) /\ StreamType' /\ stream' \in Streams
  BY <1>1, <1>6, Grows DEF Streams
<1>8. \A d \in G : /\ \A s, c, k : new[d] # ComputeOp(s, c, k)
                   /\ \A c : new[d] # RecordOp(d, c)
                   /\ \A s, m, c, k : new[d] = CopyOp(s, m, c, k) <=>
                        d = a /\ s = i /\ m = j /\ c = cur_copy /\ k = batch
  <2> TAKE d \in G
  <2>1. CASE d = a
    BY <1>5, <2>1, Kinds
  <2>2. CASE d = b /\ a # b
    BY <1>5, <2>2, Kinds
  <2> QED BY <2>1, <2>2
<1> HIDE DEF G, x
<1>9. a \in G /\ b \in G
  BY DEF G
<1>10. ASSUME a # b, NEW s, NEW m, NEW k, s = i, m = j, k = batch
       PROVE  \E r : Awaiting(b, r, s, m, k)'
  <2>1. new[b] = CopiedOp(s, m, k)
    BY <1>5, <1>10
  <2> QED BY ONLY <1>7, <1>9, <2>1 DEF Grown
<1> QED BY ONLY <1>2, <1>7, <1>8, <1>9, <1>10 DEF Grown

-----------------------------------------------------------------------------
(* The types are kept.                                                     *)

\* What the host changes besides the streams.
LEMMA HostType ==
    ASSUME PipeType, Host
    PROVE  PipeType' /\ UNCHANGED <<setup, busy, reached, copied>>
<1>1. UNCHANGED <<setup, busy, reached, copied>>
  BY DEF Host, Begin, Realloc, CopyUser, BeginHidden, CopyAsync, CopySync, ComputeHere, Fail,
         ComputeAsync, Look, Record, Results, Stay, queues
<1>2. /\ NSplits' = NSplits /\ Splits' = Splits /\ Devices' = Devices /\ Backends' = Backends
      /\ Copies' = Copies
      /\ \A s : Split(s)' = Split(s) /\ Inputs(s)' = Inputs(s) /\ Slots(s)' = Slots(s)
      /\ \A b : Op(b)' = Op(b)
  BY <1>1, Static
<1>3. stream' \in Streams /\ StreamType'
  <2>1. CASE UNCHANGED stream
    BY <1>2, <2>1 DEF PipeType, StreamType
  <2>2. CASE BeginHidden
    BY <2>2, BeginHiddenOps
  <2>3. CASE CopyAsync
    BY <2>3, CopyAsyncOps
  <2>4. CASE ComputeAsync
    BY <2>4, ComputeAsyncOps
  <2>5. CASE Record
    <3>1. CASE HasEvents /\ Here.inputs # <<>> /\ Here.backend \in Devices
      BY <2>5, <3>1, RecordOps
    <3>2. CASE ~(HasEvents /\ Here.inputs # <<>> /\ Here.backend \in Devices)
      BY <2>1, <2>5, <3>2 DEF Record
    <3> QED BY <3>1, <3>2
  <2> QED
    BY <2>1, <2>2, <2>3, <2>4, <2>5 DEF Host, Begin, Realloc, CopyUser, CopySync, ComputeHere,
       Fail, Look, Results, queues
<1>4. stream' \in Streams' /\ StreamType'
  BY <1>2, <1>3 DEF Streams
<1>5. recorded' \in [Backends \X Copies -> Nat]
  <2>1. CASE UNCHANGED recorded
    BY <2>1 DEF PipeType
  <2>2. CASE recorded' = [recorded EXCEPT ![Event] = @ + 1]
    BY <2>2, WhereIs DEF PipeType
  <2> QED
    BY <2>1, <2>2 DEF Host, Begin, Realloc, CopyUser, BeginHidden, CopyAsync, CopySync, ComputeHere,
       Fail, ComputeAsync, Look, Record, Results, queues
<1>6. hidden' \in [Splits -> Int]
  <2>1. CASE UNCHANGED hidden
    BY <2>1 DEF PipeType
  <2>2. CASE Realloc
    BY <2>2 DEF Realloc, PipeType
  <2>3. CASE ComputeHere \/ Fail
    <3>1. \E v \in Int : hidden' = [hidden EXCEPT ![i] = v]
      BY <2>3 DEF ComputeHere, Fail, PipeType
    <3> QED BY <3>1 DEF PipeType
  <2> QED
    BY <2>1, <2>2, <2>3 DEF Host, Begin, CopyUser, BeginHidden, CopyAsync, CopySync,
       ComputeAsync, Look, Record, Results
<1>7. slot' \in [UNION {Slots(s) : s \in Splits} -> Int]
  <2>1. CASE UNCHANGED slot
    BY <2>1 DEF PipeType
  <2>2. CASE Realloc
    BY <2>2 DEF Realloc, PipeType
  <2>3. CASE CopyUser
    <3>1. slot' = [slot EXCEPT ![<<i, j, cur_copy>>] = batch] /\ batch \in Int
      BY <2>3 DEF CopyUser, PipeType
    <3> QED BY ONLY PipeType, <3>1 DEF PipeType
  <2>4. CASE CopySync
    <3>1. hidden[i - 1] \in Int
      <4>1. i > 1
        <5>1. Inputs(i)[j] = "hidden" /\ j \in 1 .. Len(Inputs(i)) /\ setup \in Setups /\ i \in Splits
          BY <2>4 DEF CopySync, PipeType
        <5>2. Inputs(1)[j] = "user" \/ i # 1
          BY <5>1, SetupIs
        <5> QED BY <5>1, <5>2, SetupIs DEF Splits
      <4> QED BY <4>1, WhereIs DEF PipeType
    <3> QED BY <2>4, <3>1 DEF CopySync, PipeType
  <2> QED
    BY <2>1, <2>2, <2>3, <2>4 DEF Host, Begin, BeginHidden, CopyAsync, ComputeHere, Fail,
       ComputeAsync, Look, Record, Results
<1>8. slot' \in [(UNION {Slots(s) : s \in Splits})' -> Int] /\ hidden' \in [Splits' -> Int]
      /\ recorded' \in [(Backends \X Copies)' -> Nat] /\ reached' \in [(Backends \X Copies)' -> Nat]
      /\ busy' \in [Devices' -> BOOLEAN] /\ setup' \in Setups
  BY <1>1, <1>2, <1>5, <1>6, <1>7 DEF PipeType
<1>9. /\ cur_copy' \in Copies /\ i' \in Splits /\ j' \in Nat \ {0} /\ batch' \in Nat
      /\ next' \in {"next", "input", "copy", "look", "record", "results"}
      /\ batch' = 0 => next' = "next"
      /\ next' = "input" => j' <= Len(Inputs(i')) + 1
      /\ next' = "copy" => j' <= Len(Inputs(i')) /\ Inputs(i')[j'] = "hidden"
      /\ next' \in {"look", "record"} => j' = Len(Inputs(i')) + 1
  <2>0. /\ NSplits \in Nat \ {0} /\ setup.n_copies \in Nat \ {0}
        /\ \A s \in Splits : Len(Inputs(s)) \in Nat
        /\ cur_copy \in Copies /\ i \in Splits /\ j \in Nat \ {0} /\ batch \in Nat
        /\ Here.inputs = Inputs(i) /\ 1 \in Splits /\ (batch = 0 => next = "next")
        /\ next = "input" => j <= Len(Inputs(i)) + 1
        /\ next = "copy" => j <= Len(Inputs(i)) /\ Inputs(i)[j] = "hidden"
        /\ next \in {"look", "record"} => j = Len(Inputs(i)) + 1
    BY SetupIs, WhereIs DEF PipeType, Splits
  <2>1. CASE Begin \/ Realloc
    BY <2>0, <2>1 DEF Begin, Realloc, Then
  <2>2. CASE CopyUser \/ CopyAsync \/ CopySync
    BY <2>0, <2>2 DEF CopyUser, CopyAsync, CopySync, NextInput, At, Stay, Then
  <2>3. CASE BeginHidden
    BY <2>0, <2>3 DEF BeginHidden, At, Stay, Then
  <2>4. CASE ComputeHere \/ ComputeAsync
    BY <2>0, <2>4 DEF ComputeHere, ComputeAsync, Stay, Then
  <2>5. CASE Fail \/ Results
    BY <2>0, <2>5 DEF Fail, Results, Stay, Then, AfterBatch
  <2>6. CASE Look
    BY <2>0, <2>6 DEF Look, Stay, Then
  <2>7. CASE Record
    <3>1. (cur_copy + 1) % setup.n_copies \in Copies
      BY <2>0 DEF Copies
    <3>2. i < NSplits => i + 1 \in Splits
      BY <2>0 DEF Splits
    <3> QED BY <2>0, <2>7, <3>1, <3>2 DEF Record, Then, AfterBatch
  <2> QED BY <2>1, <2>2, <2>3, <2>4, <2>5, <2>6, <2>7 DEF Host
<1>10. Inputs(i)' = Inputs(i')
  BY <1>2 DEF Inputs, Split
<1> QED BY <1>1, <1>2, <1>4, <1>8, <1>9, <1>10 DEF PipeType


\* What a device does with the operation at the head of its stream.
LEMMA Heads ==
    ASSUME PipeType, InPlace, NEW b \in Devices, Device(b)
    PROVE  /\ stream[b] # <<>>
           /\ \A s, m, c, k : Copying(b, 1, s, m, c, k) => Copy(b)
           /\ \A s, m, k : Awaiting(b, 1, s, m, k) => AwaitCopy(b)
           /\ \A s, c, k : Computing(b, 1, s, c, k) => Start(b) \/ Finish(b)
           /\ \A c : Recording(b, 1, c) => Reach(b)
           /\ Copy(b) => \E s, m, c, k :
                /\ Copying(b, 1, s, m, c, k)
                /\ slot' = [slot EXCEPT ![<<s, m, c>>] = hidden[s - 1]]
                /\ copied' = copied \cup {<<s, m, k>>}
           /\ AwaitCopy(b) => \E s, m, k : Awaiting(b, 1, s, m, k) /\ <<s, m, k>> \in copied
           /\ Start(b) => \E s, c, k : Computing(b, 1, s, c, k)
           /\ Finish(b) => \E s, c, k :
                Computing(b, 1, s, c, k) /\ hidden' = [hidden EXCEPT ![s] = k]
           /\ Reach(b) => \E c \in Copies :
                Recording(b, 1, c) /\ reached' = [reached EXCEPT ![<<b, c>>] = @ + 1]
<1>1. StreamType
  BY DEF PipeType
<1>2. busy[b] => \E s, c, k : Computing(b, 1, s, c, k)
  BY DEF InPlace
<1>3. stream[b] # <<>>
  <2>1. CASE busy[b]
    BY <1>1, <1>2, <2>1, LenProperties, EmptySeq DEF Computing, Pending, StreamType
  <2>2. CASE ~busy[b]
    BY <2>2 DEF Device, Wait, AwaitCopy, Copy, Start, Finish, Reach, Doing
  <2> QED BY <2>1, <2>2
<1> DEFINE x == Head(stream[b])
<1>4. 1 \in Pending(b) /\ x = stream[b][1] /\ x \in Op(b)
  BY <1>1, <1>3, HeadOp
<1>5. /\ Wait(b) => x.op = "wait"
      /\ AwaitCopy(b) => x.op = "copied" /\ x.id \in copied
      /\ Copy(b) => /\ x.op = "copy"
                    /\ slot' = [slot EXCEPT ![<<x.s, x.j, x.c>>] = hidden[x.s - 1]]
                    /\ copied' = copied \cup {<<x.s, x.j, x.k>>}
      /\ Start(b) => x.op = "compute"
      /\ Finish(b) => busy[b] /\ hidden' = [hidden EXCEPT ![x.s] = x.k]
      /\ Reach(b) => x.op = "record" /\ reached' = [reached EXCEPT ![x.event] = @ + 1]
  BY DEF Wait, AwaitCopy, Copy, Start, Finish, Reach, Doing
<1>6. Wait(b) \/ AwaitCopy(b) \/ Copy(b) \/ Start(b) \/ Finish(b) \/ Reach(b)
  BY DEF Device
<1> HIDE DEF x
<1>7. /\ \A s, m, c, k : Copying(b, 1, s, m, c, k) <=> x = CopyOp(s, m, c, k)
      /\ \A s, m, k : Awaiting(b, 1, s, m, k) <=> x = CopiedOp(s, m, k)
      /\ \A s, c, k : Computing(b, 1, s, c, k) <=> x = ComputeOp(s, c, k)
      /\ \A c : Recording(b, 1, c) <=> x = RecordOp(b, c)
  BY <1>4 DEF Copying, Awaiting, Computing, Recording
<1>8. /\ \A s, m, c, k : Copying(b, 1, s, m, c, k) => x.op = "copy"
      /\ \A s, m, k : Awaiting(b, 1, s, m, k) => x.op = "copied"
      /\ \A s, c, k : Computing(b, 1, s, c, k) => x.op = "compute"
      /\ \A c : Recording(b, 1, c) => x.op = "record"
  BY <1>7, Kinds
<1>9. Finish(b) => x.op = "compute"
  BY <1>2, <1>5, <1>8
<1>10. /\ \A s, m, c, k : Copying(b, 1, s, m, c, k) => Copy(b)
       /\ \A s, m, k : Awaiting(b, 1, s, m, k) => AwaitCopy(b)
       /\ \A s, c, k : Computing(b, 1, s, c, k) => Start(b) \/ Finish(b)
       /\ \A c : Recording(b, 1, c) => Reach(b)
  BY <1>5, <1>6, <1>8, <1>9
<1>11. Copy(b) => \E s, m, c, k :
                /\ Copying(b, 1, s, m, c, k)
                /\ slot' = [slot EXCEPT ![<<s, m, c>>] = hidden[s - 1]]
                /\ copied' = copied \cup {<<s, m, k>>}
  <2> HAVE Copy(b)
  <2>1. Copying(b, 1, x.s, x.j, x.c, x.k)
    BY <1>4, <1>5, <1>7, OpIs
  <2> QED BY <1>5, <2>1
<1>12. AwaitCopy(b) => \E s, m, k : Awaiting(b, 1, s, m, k) /\ <<s, m, k>> \in copied
  <2> HAVE AwaitCopy(b)
  <2>1. \E s, m, k : x.id = <<s, m, k>> /\ x = CopiedOp(s, m, k)
    BY <1>4, <1>5, OpIs
  <2> QED BY <1>5, <1>7, <2>1
<1>13. /\ Start(b) => \E s, c, k : Computing(b, 1, s, c, k)
       /\ Finish(b) => \E s, c, k :
             Computing(b, 1, s, c, k) /\ hidden' = [hidden EXCEPT ![s] = k]
  <2> SUFFICES ASSUME Start(b) \/ Finish(b) PROVE Computing(b, 1, x.s, x.c, x.k)
    BY <1>5
  <2> QED BY <1>4, <1>5, <1>7, <1>9, OpIs
<1>14. Reach(b) => \E c \in Copies :
             Recording(b, 1, c) /\ reached' = [reached EXCEPT ![<<b, c>>] = @ + 1]
  <2> HAVE Reach(b)
  <2>1. PICK c \in Copies : x.event = <<b, c>> /\ x = RecordOp(b, c)
    BY <1>4, <1>5, OpIs
  <2> QED BY <1>5, <1>7, <2>1
<1> QED BY ONLY <1>3, <1>10, <1>11, <1>12, <1>13, <1>14

\* What a device leaves alone, and what it takes from its stream.
LEMMA DeviceOps ==
    ASSUME PipeType, InPlace, NEW b \in Devices, Device(b)
    PROVE  /\ UNCHANGED <<setup, cur_copy, i, j, next, batch, recorded>>
           /\ Start(b) => SameOps /\ UNCHANGED <<stream, reached, copied, slot, hidden>>
           /\ Start(b) \/ Popped(b)
           /\ StreamType' /\ stream' \in Streams
           /\ ~Start(b) => \A d \in Devices :
                Len(stream'[d]) = IF d = b THEN Len(stream[d]) - 1 ELSE Len(stream[d])
           /\ \A d \in Devices : stream[d] = <<>> => stream'[d] = <<>>
<1>1. UNCHANGED <<setup, cur_copy, i, j, next, batch, recorded>>
  BY DEF Device, Wait, AwaitCopy, Copy, Start, Finish, Reach, HostStays
<1>2. Start(b) => SameOps /\ UNCHANGED <<stream, reached, copied, slot, hidden>>
  BY <1>1, NothingQueued DEF Start
<1>3. ~Start(b) => Done(b)
  BY DEF Device, Wait, AwaitCopy, Copy, Finish, Reach
<1>4. stream[b] # <<>> /\ StreamType /\ stream \in Streams
  BY Heads DEF PipeType
<1>5. CASE Start(b)
  BY <1>1, <1>2, <1>4, <1>5, Static DEF StreamType, Streams
<1>6. CASE ~Start(b)
  BY <1>1, <1>3, <1>4, <1>6, Pops DEF Done
<1> QED BY <1>1, <1>2, <1>5, <1>6

LEMMA DeviceType ==
    ASSUME PipeType, InPlace, NEW b \in Devices, Device(b)
    PROVE  PipeType'
<1>1. /\ UNCHANGED <<setup, cur_copy, i, j, next, batch, recorded>>
      /\ StreamType' /\ stream' \in Streams
  BY DeviceOps
<1>2. /\ NSplits' = NSplits /\ Splits' = Splits /\ Devices' = Devices /\ Backends' = Backends
      /\ Copies' = Copies /\ stream' \in Streams'
      /\ \A s : Split(s)' = Split(s) /\ Inputs(s)' = Inputs(s) /\ Slots(s)' = Slots(s)
      /\ \A d : Op(d)' = Op(d)
  BY <1>1, Static DEF Streams
<1>3. busy' \in [Devices -> BOOLEAN]
  BY DEF PipeType, Device, Wait, AwaitCopy, Copy, Start, Finish, Reach
<1>4. reached' \in [Backends \X Copies -> Nat]
  <2>1. CASE Reach(b)
    <3>1. PICK c \in Copies : reached' = [reached EXCEPT ![<<b, c>>] = @ + 1]
      BY <2>1, Heads
    <3> QED BY <3>1 DEF PipeType, Devices
  <2>2. CASE UNCHANGED reached
    BY <2>2 DEF PipeType
  <2> QED BY <2>1, <2>2 DEF Device, Wait, AwaitCopy, Copy, Start, Finish
<1>5. hidden' \in [Splits -> Int]
  <2>1. CASE Finish(b)
    <3>1. PICK s, c, k : Computing(b, 1, s, c, k) /\ hidden' = [hidden EXCEPT ![s] = k]
      BY <2>1, Heads
    <3>2. k \in 1 .. batch
      BY <3>1 DEF InPlace
    <3>3. k \in Int /\ hidden \in [Splits -> Int]
      BY <3>2 DEF PipeType
    <3> QED BY ONLY <3>1, <3>3
  <2>2. CASE UNCHANGED hidden
    BY <2>2 DEF PipeType
  <2> QED BY <2>1, <2>2 DEF Device, Wait, AwaitCopy, Copy, Start, Reach
<1>6. slot' \in [UNION {Slots(s) : s \in Splits} -> Int]
  <2>1. CASE Copy(b)
    <3>1. PICK s, m, c, k : /\ Copying(b, 1, s, m, c, k)
                            /\ slot' = [slot EXCEPT ![<<s, m, c>>] = hidden[s - 1]]
                            /\ copied' = copied \cup {<<s, m, k>>}
      BY <2>1, Heads
    <3>2. s \in Splits /\ s > 1
      BY <3>1 DEF InPlace, Async
    <3>3. hidden[s - 1] \in Int
      <4>1. NSplits \in Nat /\ hidden \in [Splits -> Int]
        BY SetupIs DEF PipeType
      <4> QED BY ONLY <3>2, <4>1 DEF Splits
    <3> QED BY ONLY <3>1, <3>3, PipeType DEF PipeType
  <2>2. CASE UNCHANGED slot
    BY <2>2 DEF PipeType
  <2> QED BY <2>1, <2>2 DEF Device, Wait, AwaitCopy, Start, Finish, Reach
<1>7. slot' \in [(UNION {Slots(s) : s \in Splits})' -> Int] /\ hidden' \in [Splits' -> Int]
      /\ recorded' \in [(Backends \X Copies)' -> Nat] /\ reached' \in [(Backends \X Copies)' -> Nat]
      /\ busy' \in [Devices' -> BOOLEAN]
  BY <1>1, <1>2, <1>3, <1>4, <1>5, <1>6 DEF PipeType
<1> QED BY <1>1, <1>2, <1>7 DEF PipeType

-----------------------------------------------------------------------------
(* A step of a device keeps the invariant.                                 *)

\* What is pending after a step of a device was pending before.
LEMMA PendingBefore ==
    ASSUME PipeType, InPlace, NEW b \in Devices, Device(b)
    PROVE  /\ \A d, p, s, c, k : Computing(d, p, s, c, k)' => \E q : Computing(d, q, s, c, k)
           /\ \A d, p, s, m, c, k : Copying(d, p, s, m, c, k)' => \E q : Copying(d, q, s, m, c, k)
<1>1. CASE Start(b)
  BY <1>1, DeviceOps DEF SameOps
<1>2. CASE Popped(b)
  BY <1>2 DEF Popped
<1> QED BY <1>1, <1>2, DeviceOps

\* The host, and what it has queued, is the same.
LEMMA HostSame ==
    ASSUME UNCHANGED <<setup, cur_copy, i, j, next, batch>>
    PROVE  /\ \A s, k : Early(s, k)' <=> Early(s, k)
           /\ \A s, m, k : Before(s, m, k)' <=> Before(s, m, k)
           /\ \A c, k : Recent(c, k)' <=> Recent(c, k)
           /\ AtInputs' <=> AtInputs
           /\ Here' = Here /\ (Peers' <=> Peers) /\ HasEvents' = HasEvents
BY Static DEF Early, Before, AtInputs, Recent, Rotated, Since, Here, Peers, Source

LEMMA DeviceInPlace ==
    ASSUME PipeType, InPlace, Single, NEW b \in Devices, Device(b)
    PROVE  InPlace'
<1>1. UNCHANGED <<setup, cur_copy, i, j, next, batch>>
  BY DeviceOps
<1>2. \A d, p, s, c, k : Computing(d, p, s, c, k)' =>
          /\ s \in Splits' /\ Split(s)'.backend = d /\ c \in Copies' /\ k \in 1 .. batch'
          /\ Early(s, k)'
  <2>1. \A d, p, s, c, k : Computing(d, p, s, c, k) =>
          /\ s \in Splits /\ Split(s).backend = d /\ c \in Copies /\ k \in 1 .. batch
          /\ Early(s, k)
    BY DEF InPlace
  <2>2. /\ Splits' = Splits /\ Copies' = Copies /\ batch' = batch
        /\ \A s : Split(s)' = Split(s)
        /\ \A s, k : Early(s, k)' <=> Early(s, k)
    BY <1>1, Static, HostSame
  <2>3. \A d, p, s, c, k : Computing(d, p, s, c, k)' => \E q : Computing(d, q, s, c, k)
    BY PendingBefore
  <2> QED BY ONLY <2>1, <2>2, <2>3
<1>3. copied' = copied \/ \E s, m, c, k : Copying(b, 1, s, m, c, k) /\ copied' = copied \cup {<<s, m, k>>}
  <2>1. CASE Copy(b)
    BY <2>1, Heads
  <2>2. CASE ~Copy(b)
    BY <2>2 DEF Device, Wait, AwaitCopy, Start, Finish, Reach
  <2> QED BY <2>1, <2>2
<1>4. ASSUME NEW d, NEW p, NEW s, NEW m, NEW c, NEW k, Copying(d, p, s, m, c, k)'
      PROVE  /\ Async(s, m)' /\ Split(s - 1)'.backend = d /\ c \in Copies' /\ k \in 1 .. batch'
             /\ Before(s, m, k)' /\ <<s, m, k>> \notin copied'
  <2>1. PICK q : Copying(d, q, s, m, c, k)
    BY <1>4, PendingBefore
  <2>2. /\ Async(s, m) /\ Split(s - 1).backend = d /\ c \in Copies /\ k \in 1 .. batch
        /\ Before(s, m, k) /\ <<s, m, k>> \notin copied
    BY <2>1 DEF InPlace
  <2>3. <<s, m, k>> \notin copied'
    <3> SUFFICES ASSUME <<s, m, k>> \in copied' PROVE FALSE
      OBVIOUS
    <3>1. PICK e, t, n, l : Copying(b, 1, t, n, e, l) /\ copied' = copied \cup {<<t, n, l>>}
      BY <1>3, <2>2
    <3>2. t = s /\ n = m /\ l = k
      BY <2>2, <3>1
    <3>3. ~Start(b)
      BY <2>2, <3>1 DEF Start
    <3>4. Popped(b)
      BY <3>3, DeviceOps
    <3>5. p \in Nat \ {0} /\ Copying(d, IF d = b THEN p + 1 ELSE p, s, m, c, k)
      BY <1>4, <3>4 DEF Popped
    <3>6. Copying(b, 1, s, m, e, k)
      BY <3>1, <3>2
    <3>7. d = b /\ (IF d = b THEN p + 1 ELSE p) = 1
      BY ONLY <3>5, <3>6, Single DEF Single
    <3> QED BY ONLY <3>5, <3>7
  <2> QED BY <1>1, <2>2, <2>3, Static, HostSame
<1>5. ASSUME NEW s, NEW m, NEW k, <<s, m, k>> \in copied'
      PROVE  s \in Splits' /\ m \in Nat /\ k \in Nat /\ Before(s, m, k)'
  <2>1. CASE <<s, m, k>> \in copied
    BY <1>1, <2>1, Static, HostSame DEF InPlace
  <2>2. CASE <<s, m, k>> \notin copied
    <3>1. PICK e, t, n, l : Copying(b, 1, t, n, e, l) /\ copied' = copied \cup {<<t, n, l>>}
      BY <1>3, <1>5, <2>2
    <3>2. t = s /\ n = m /\ l = k
      BY <1>5, <2>2, <3>1
    <3>3. Copying(b, 1, s, m, e, k)
      BY <3>1, <3>2
    <3>4. Async(s, m) /\ k \in 1 .. batch /\ Before(s, m, k)
      BY <3>3 DEF InPlace
    <3>5. s \in Splits /\ m \in DOMAIN Inputs(s)
      BY <3>4 DEF Async
    <3>6. m \in Nat
      BY <3>5, SetupIs DEF PipeType
    <3>7. k \in Nat
      BY <3>4 DEF PipeType
    <3> QED BY <1>1, <3>4, <3>5, <3>6, <3>7, Static, HostSame
  <2> QED BY <2>1, <2>2
<1>6. ASSUME NEW d \in Devices', busy'[d]
      PROVE  \E s, c, k : Computing(d, 1, s, c, k)'
  <2>1. d \in Devices
    BY <1>1, Static
  <2>2. CASE Start(b)
    <3>1. d = b \/ busy[d]
      BY <1>6, <2>1, <2>2 DEF Start, PipeType
    <3>2. \E s, c, k : Computing(d, 1, s, c, k)
      BY <2>1, <2>2, <3>1, Heads DEF InPlace
    <3> QED BY <2>2, <3>2, DeviceOps DEF SameOps
  <2>3. CASE ~Start(b)
    <3>1. busy[d]
      BY <1>6, <2>1, <2>3 DEF Device, Wait, AwaitCopy, Copy, Finish, Reach, PipeType
    <3>2. PICK s, c, k : Computing(d, 1, s, c, k)
      BY <2>1, <3>1 DEF InPlace
    <3>3. d # b
      <4> SUFFICES ASSUME d = b PROVE FALSE
        OBVIOUS
      <4>1. Finish(b)
        BY <2>3, <3>2, Heads
      <4> QED BY <1>6, <4>1 DEF Finish, PipeType
    <3>4. Popped(b)
      BY <2>3, DeviceOps
    <3> QED BY <3>2, <3>3, <3>4 DEF Popped
  <2> QED BY <2>2, <2>3
<1> QED BY <1>2, <1>4, <1>5, <1>6 DEF InPlace

LEMMA DeviceSingle ==
    ASSUME PipeType, InPlace, Single, NEW b \in Devices, Device(b)
    PROVE  Single'
<1>1. CASE Start(b)
  <2>1. SameOps
    BY <1>1, DeviceOps
  <2> QED BY ONLY <2>1, Single DEF Single, SameOps
<1>2. CASE Popped(b)
  <2> SUFFICES ASSUME NEW a, NEW d, NEW p, NEW q, NEW s, NEW m, NEW c, NEW e, NEW k, NEW l,
                      Copying(a, p, s, m, c, k)', Copying(d, q, s, m, e, l)', c = e \/ k = l
               PROVE  a = d /\ p = q
    BY DEF Single
  <2>1. /\ p \in Nat /\ Copying(a, IF a = b THEN p + 1 ELSE p, s, m, c, k)
        /\ q \in Nat /\ Copying(d, IF d = b THEN q + 1 ELSE q, s, m, e, l)
    BY <1>2 DEF Popped
  <2>2. a = d /\ (IF a = b THEN p + 1 ELSE p) = (IF d = b THEN q + 1 ELSE q)
    BY ONLY <2>1, Single, c = e \/ k = l DEF Single
  <2> QED BY ONLY <2>1, <2>2
<1> QED BY <1>1, <1>2, DeviceOps

\* The copy at the head of a stream brings the data of its batch, and it
\* writes no place that has its data already.
Brings(b, s, m, c, k) ==
    /\ Copying(b, 1, s, m, c, k)
    /\ <<s, m, c>> \in DOMAIN slot
    /\ slot' = [slot EXCEPT ![<<s, m, c>>] = k]

LEMMA CopyBrings ==
    ASSUME PipeInv, NEW b \in Devices, Copy(b)
    PROVE  \E s, m, c, k : Brings(b, s, m, c, k)
<1>1. PipeType /\ InPlace /\ Current /\ Device(b)
  BY DEF PipeInv, Device
<1>2. PICK s, m, c, k : /\ Copying(b, 1, s, m, c, k)
                        /\ slot' = [slot EXCEPT ![<<s, m, c>>] = hidden[s - 1]]
                        /\ copied' = copied \cup {<<s, m, k>>}
  BY <1>1, Heads
<1>3. Latest(b, 1, s - 1, k)
  BY <1>1, <1>2 DEF Current
<1>4. hidden[s - 1] = k
  <2>1. \A q, e : Computing(b, q, s - 1, e, k) => ~(q < 1)
    BY DEF Computing, Pending
  <2> QED BY <1>3, <2>1 DEF Latest
<1>5. s \in Splits /\ m \in DOMAIN Inputs(s) /\ c \in Copies
  BY <1>1, <1>2 DEF InPlace, Async
<1>6. <<s, m, c>> \in Slots(s)
  BY <1>5 DEF Slots, Inputs
<1>7. <<s, m, c>> \in DOMAIN slot
  BY <1>1, <1>5, <1>6 DEF PipeType
<1> QED BY <1>2, <1>4, <1>7 DEF Brings

\* An input that is there stays there, and one that is to come still comes.
LEMMA DeviceGiven ==
    ASSUME PipeInv, NEW b \in Devices, Device(b), NEW s, NEW m, NEW c, NEW k,
           Given(s, m, c, k)
    PROVE  Given(s, m, c, k)'
<1>1. PipeType /\ InPlace /\ Single
  BY DEF PipeInv
<1>2. \A d, p, t, n, e, l : Copying(d, p, t, n, e, l)' => \E q : Copying(d, q, t, n, e, l)
  BY <1>1, PendingBefore
<1>3. CASE Copy(b)
  <2>0. PICK t, n, e, l : Brings(b, t, n, e, l)
    BY <1>3, CopyBrings
  <2>1. /\ Copying(b, 1, t, n, e, l) /\ <<t, n, e>> \in DOMAIN slot
        /\ slot' = [slot EXCEPT ![<<t, n, e>>] = l]
    BY ONLY <2>0 DEF Brings
  <2>2. Popped(b)
    <3>1. Start(b) \/ Popped(b)
      BY <1>1, DeviceOps
    <3>2. ~ Start(b)
      BY <1>3 DEF Start, Copy, Doing
    <3> QED BY <3>1, <3>2
  <2>3. CASE t = s /\ n = m /\ e = c
    <3>1. Copying(b, 1, s, m, c, l)
      BY <2>1, <2>3
    <3>2. PICK d, q : Copying(d, q, s, m, c, k)
      BY <3>1 DEF Given
    <3>3. d = b /\ q = 1
      BY ONLY <1>1, <3>1, <3>2 DEF Single
    <3>4. CopyOp(s, m, c, k) = CopyOp(s, m, c, l)
      BY <3>1, <3>2, <3>3 DEF Copying
    <3>5. l = k
      BY <3>4, Kinds
    <3>6. slot'[<<s, m, c>>] = k
      BY <2>1, <2>3, <3>5
    <3>7. ASSUME NEW a, NEW p, NEW h, Copying(a, p, s, m, c, h)'
          PROVE  FALSE
      <4>1. p \in Nat \ {0} /\ Copying(a, IF a = b THEN p + 1 ELSE p, s, m, c, h)
        BY <2>2, <3>7 DEF Popped
      <4>2. a = b /\ (IF a = b THEN p + 1 ELSE p) = 1
        BY ONLY <1>1, <3>1, <4>1 DEF Single
      <4> QED BY ONLY <4>1, <4>2
    <3> QED BY ONLY <3>6, <3>7 DEF Given
  <2>4. CASE ~(t = s /\ n = m /\ e = c)
    <3>1. slot'[<<s, m, c>>] = slot[<<s, m, c>>]
      <4>1. <<t, n, e>> # <<s, m, c>>
        BY ONLY <2>4
      <4> QED BY ONLY <2>1, <4>1
    <3>2. CASE slot[<<s, m, c>>] = k /\ \A d, q, h : ~Copying(d, q, s, m, c, h)
      BY ONLY <1>2, <3>1, <3>2 DEF Given
    <3>3. ASSUME NEW d, NEW q, Copying(d, q, s, m, c, k)
          PROVE  \E p : Copying(d, p, s, m, c, k)'
      <4>1. d = b => q # 1
        <5> SUFFICES ASSUME d = b, q = 1 PROVE FALSE
          OBVIOUS
        <5>1. CopyOp(s, m, c, k) = CopyOp(t, n, e, l)
          BY <2>1, <3>3 DEF Copying
        <5> QED BY <2>4, <5>1, Kinds
      <4> QED BY <2>2, <3>3, <4>1 DEF Popped
    <3> QED BY ONLY <3>2, <3>3, Given(s, m, c, k) DEF Given
  <2> QED BY <2>3, <2>4
<1>4. CASE ~Copy(b)
  <2>1. slot' = slot
    BY <1>4 DEF Device, Wait, AwaitCopy, Start, Finish, Reach
  <2>2. CASE slot[<<s, m, c>>] = k /\ \A d, q, h : ~Copying(d, q, s, m, c, h)
    BY ONLY <1>2, <2>1, <2>2 DEF Given
  <2>3. ASSUME NEW d, NEW q, Copying(d, q, s, m, c, k)
        PROVE  \E p : Copying(d, p, s, m, c, k)'
    <3>1. d = b => q # 1
      BY <1>1, <1>4, <2>3, Heads
    <3>2. CASE Start(b)
      BY <1>1, <2>3, <3>2, DeviceOps DEF SameOps
    <3>3. CASE Popped(b)
      BY <2>3, <3>1, <3>3 DEF Popped
    <3> QED BY <1>1, <3>2, <3>3, DeviceOps
  <2> QED BY ONLY <2>2, <2>3, Given(s, m, c, k) DEF Given
<1> QED BY <1>3, <1>4

\* A copy that is awaited is not awaited at the head of a stream that moves on.
LEMMA StillAwaited ==
    ASSUME PipeType, InPlace, NEW b \in Devices, Device(b),
           NEW d, NEW q, NEW s, NEW m, NEW c, NEW k, Copying(d, q, s, m, c, k)
    PROVE  ~Awaiting(b, 1, s, m, k)
<1> SUFFICES ASSUME Awaiting(b, 1, s, m, k) PROVE FALSE
  OBVIOUS
<1>1. AwaitCopy(b)
  BY Heads
<1>2. PICK t, n, l : Awaiting(b, 1, t, n, l) /\ <<t, n, l>> \in copied
  BY <1>1, Heads
<1>3. CopiedOp(s, m, k) = CopiedOp(t, n, l)
  BY <1>2 DEF Awaiting
<1>4. <<s, m, k>> \in copied
  BY <1>2, <1>3, Kinds
<1> QED BY <1>4 DEF InPlace

LEMMA DeviceReady ==
    ASSUME PipeInv, NEW b \in Devices, Device(b),
           NEW d, NEW p, NEW s, NEW m, NEW c, NEW k,
           Computing(d, p, s, c, k)', m \in DOMAIN Inputs(s)
    PROVE  Ready(d, p, s, m, c, k)'
<1>1. PipeType /\ InPlace /\ Single /\ AllReady
  BY DEF PipeInv
<1>2. \A a, x, t, n, e, l : Copying(a, x, t, n, e, l)' => \E q : Copying(a, q, t, n, e, l)
  BY <1>1, PendingBefore
<1>3. CASE Start(b)
  <2>1. SameOps /\ slot' = slot
    BY <1>1, <1>3, DeviceOps
  <2>2. Ready(d, p, s, m, c, k)
    BY <1>1, <2>1 DEF AllReady, SameOps
  <2> QED BY ONLY <2>1, <2>2 DEF SameOps, Ready
<1>4. CASE Popped(b)
  <2> DEFINE p0 == IF d = b THEN p + 1 ELSE p
  <2>1. p \in Nat \ {0} /\ Computing(d, p0, s, c, k)
    BY <1>4 DEF Popped
  <2>2. Ready(d, p0, s, m, c, k)
    BY <1>1, <2>1 DEF AllReady
  <2>3. CASE slot[<<s, m, c>>] = k /\ \A a, q, l : ~Copying(a, q, s, m, c, l)
    <3>1. Given(s, m, c, k)
      BY ONLY <2>3 DEF Given
    <3>2. Given(s, m, c, k)'
      BY <3>1, DeviceGiven
    <3> QED BY ONLY <1>2, <2>3, <3>2 DEF Given, Ready
  <2>4. ASSUME NEW e, NEW q, Copying(e, q, s, m, c, k),
               \/ e = d /\ q < p0
               \/ e # d /\ \E r : r < p0 /\ Awaiting(d, r, s, m, k)
        PROVE  Ready(d, p, s, m, c, k)'
    <3>1. CASE e = b /\ q = 1
      <4>1. Given(s, m, c, k)'
        BY <2>4, DeviceGiven DEF Given
      <4>2. ASSUME NEW a, NEW x, Copying(a, x, s, m, c, k)'
            PROVE  FALSE
        <5>1. x \in Nat \ {0} /\ Copying(a, IF a = b THEN x + 1 ELSE x, s, m, c, k)
          BY <1>4, <4>2 DEF Popped
        <5>2. a = b /\ (IF a = b THEN x + 1 ELSE x) = 1
          BY ONLY <1>1, <2>4, <3>1, <5>1 DEF Single
        <5> QED BY ONLY <5>1, <5>2
      <4> QED BY ONLY <4>1, <4>2 DEF Given, Ready
    <3>2. CASE ~(e = b /\ q = 1)
      <4> DEFINE q1 == IF e = b THEN q - 1 ELSE q
      <4>1. Copying(e, q1, s, m, c, k)'
        BY <1>4, <2>4, <3>2 DEF Popped
      <4>2. q \in Nat
        BY <1>1, <2>4, LenProperties DEF Copying, Pending, PipeType, StreamType
      <4>3. CASE e = d /\ q < p0
        <5>1. q1 < p
          BY <2>1, <4>2, <4>3
        <5> QED BY ONLY <4>1, <4>3, <5>1 DEF Ready
      <4>4. ASSUME e # d, NEW r, r < p0, Awaiting(d, r, s, m, k)
            PROVE  Ready(d, p, s, m, c, k)'
        <5>1. d = b => r # 1
          BY <1>1, <2>4, <4>4, StillAwaited
        <5> DEFINE r1 == IF d = b THEN r - 1 ELSE r
        <5>2. Awaiting(d, r1, s, m, k)'
          BY <1>4, <4>4, <5>1 DEF Popped
        <5>3. r \in Nat
          BY <1>1, <4>4, LenProperties DEF Awaiting, Pending, PipeType, StreamType
        <5>4. r1 < p
          BY <2>1, <4>4, <5>3
        <5> QED BY ONLY <4>1, <4>4, <5>2, <5>4 DEF Ready
      <4> QED BY <2>4, <4>3, <4>4
    <3> QED BY <3>1, <3>2
  <2> QED BY ONLY <2>2, <2>3, <2>4 DEF Ready
<1> QED BY <1>1, <1>3, <1>4, DeviceOps

LEMMA DeviceAllReady ==
    ASSUME PipeInv, NEW b \in Devices, Device(b)
    PROVE  AllReady'
<1>1. PipeType /\ InPlace /\ AllReady
  BY DEF PipeInv
<1>2. UNCHANGED <<setup, cur_copy, i, j, next, batch>>
  BY <1>1, DeviceOps
<1>3. /\ \A s : Inputs(s)' = Inputs(s)
      /\ AtInputs' <=> AtInputs
  BY <1>2, Static, HostSame
<1>4. \A d, p, s, c, k, m : Computing(d, p, s, c, k)' /\ m \in DOMAIN Inputs(s)' =>
          Ready(d, p, s, m, c, k)'
  BY <1>3, DeviceReady
<1>5. AtInputs => \A s, m, c, k : /\ s = i /\ m \in 1 .. j - 1 /\ c = cur_copy /\ k = batch
                                  => Given(s, m, c, k)'
  BY <1>1, DeviceGiven DEF AllReady
<1>6. \A s, m, c, k : s = i /\ c = cur_copy /\ k = batch =>
         (Given(s, m, c, k)' <=> Given(i, m, cur_copy, batch)')
  BY <1>2 DEF Given, Copying
<1> QED BY <1>2, <1>3, <1>4, <1>5, <1>6 DEF AllReady

LEMMA DeviceAwaited ==
    ASSUME PipeInv, NEW b \in Devices, Device(b)
    PROVE  Awaited'
<1>1. PipeType /\ InPlace /\ Awaited
  BY DEF PipeInv
<1>2. \A s : Split(s)' = Split(s)
  BY <1>1, DeviceOps, Static
<1> SUFFICES ASSUME NEW d, NEW q, NEW s, NEW m, NEW c, NEW k,
                    Copying(d, q, s, m, c, k)', Split(s).backend # d
             PROVE  \A a : a = Split(s).backend => \E r : Awaiting(a, r, s, m, k)'
  BY <1>2 DEF Awaited
<1> TAKE a
<1> HAVE a = Split(s).backend
<1>3. PICK q0 : Copying(d, q0, s, m, c, k)
  BY <1>1, PendingBefore
<1>5. PICK r : Awaiting(a, r, s, m, k)
  BY <1>1, <1>3 DEF Awaited
<1>6. CASE Start(b)
  <2>1. SameOps
    BY <1>1, <1>6, DeviceOps
  <2> QED BY ONLY <1>5, <2>1 DEF SameOps
<1>7. CASE Popped(b)
  <2>1. a = b => r # 1
    BY <1>1, <1>3, <1>5, StillAwaited
  <2>2. Awaiting(a, IF a = b THEN r - 1 ELSE r, s, m, k)'
    BY <1>5, <1>7, <2>1 DEF Popped
  <2> QED BY ONLY <1>5, <2>2
<1> QED BY <1>1, <1>6, <1>7, DeviceOps

\* The computation at the head of a stream leaves its result.
LEMMA DeviceHidden ==
    ASSUME PipeType, InPlace, NEW b \in Devices, Device(b), NEW s, NEW k, hidden[s] = k
    PROVE  \/ hidden'[s] = k
           \/ \E c, l : Computing(b, 1, s, c, l)
<1>1. CASE Finish(b)
  <2>1. PICK t, c, l : Computing(b, 1, t, c, l) /\ hidden' = [hidden EXCEPT ![t] = l]
    BY <1>1, Heads
  <2>2. CASE t = s
    BY <2>1, <2>2
  <2>3. CASE t # s
    BY <2>1, <2>3 DEF PipeType
  <2> QED BY <2>2, <2>3
<1>2. CASE ~Finish(b)
  BY <1>2 DEF Device, Wait, AwaitCopy, Copy, Start, Reach
<1> QED BY <1>1, <1>2

LEMMA DeviceComputed ==
    ASSUME PipeType, InPlace, NEW b \in Devices, Device(b), ~Start(b), NEW s, NEW c, NEW k,
           Computing(b, 1, s, c, k)
    PROVE  hidden'[s] = k
<1>1. Finish(b)
  BY Heads
<1>2. PICK t, e, l : Computing(b, 1, t, e, l) /\ hidden' = [hidden EXCEPT ![t] = l]
  BY <1>1, Heads
<1>3. ComputeOp(t, e, l) = ComputeOp(s, c, k)
  BY <1>2 DEF Computing
<1>4. t = s /\ l = k
  BY <1>3, Kinds
<1>5. s \in Splits /\ hidden \in [Splits -> Int]
  BY DEF InPlace, PipeType
<1> QED BY ONLY <1>2, <1>4, <1>5

\* A step of a device does not change for which batch a split was computed last.
LEMMA DeviceLatest ==
    ASSUME PipeType, InPlace, NEW b \in Devices, Device(b), ~Start(b), Popped(b),
           NEW d, NEW p, p \in Nat \ {0}, NEW s, NEW k,
           \A a, r, c, l : Computing(a, r, s, c, l) => a = d,
           Latest(d, IF d = b THEN p + 1 ELSE p, s, k)
    PROVE  Latest(d, p, s, k)'
<1> DEFINE p0 == IF d = b THEN p + 1 ELSE p
<1>1. \A a, r, c, l : Computing(a, r, s, c, l)' =>
         r \in Nat \ {0} /\ Computing(a, IF a = b THEN r + 1 ELSE r, s, c, l)
  BY DEF Popped
<1>2. ASSUME NEW q, NEW c, q < p0, Computing(d, q, s, c, k),
             \A r, e, l : q < r /\ r < p0 => ~Computing(d, r, s, e, l)
      PROVE  Latest(d, p, s, k)'
  <2>0. q \in Nat
    BY <1>2, LenProperties DEF Computing, Pending, PipeType, StreamType
  <2>1. CASE d = b /\ q = 1
    <3>1. hidden'[s] = k
      BY <1>2, <2>1, DeviceComputed
    <3>2. ASSUME NEW r, NEW e, NEW l, r < p, Computing(d, r, s, e, l)'
          PROVE  FALSE
      <4>1. r \in Nat \ {0} /\ Computing(d, r + 1, s, e, l)
        BY <1>1, <2>1, <3>2
      <4>2. q < r + 1 /\ r + 1 < p0
        BY <2>1, <3>2, <4>1
      <4> QED BY <1>2, <4>1, <4>2
    <3> QED BY ONLY <3>1, <3>2 DEF Latest
  <2>2. CASE ~(d = b /\ q = 1)
    <3> DEFINE q1 == IF d = b THEN q - 1 ELSE q
    <3>1. Computing(d, q1, s, c, k)'
      BY <1>2, <2>2 DEF Popped
    <3>2. q1 < p
      BY <1>2, <2>0
    <3>3. ASSUME NEW r, NEW e, NEW l, q1 < r, r < p, Computing(d, r, s, e, l)'
          PROVE  FALSE
      <4> DEFINE r0 == IF d = b THEN r + 1 ELSE r
      <4>1. r \in Nat \ {0} /\ Computing(d, r0, s, e, l)
        BY <1>1, <3>3
      <4>2. q < r0 /\ r0 < p0
        BY <2>0, <3>3, <4>1
      <4> QED BY <1>2, <4>1, <4>2
    <3> QED BY ONLY <3>1, <3>2, <3>3 DEF Latest
  <2> QED BY <2>1, <2>2
<1>3. ASSUME hidden[s] = k, \A r, e, l : r < p0 => ~Computing(d, r, s, e, l)
      PROVE  Latest(d, p, s, k)'
  <2>1. hidden'[s] = k
    <3> SUFFICES ASSUME NEW c, NEW l, Computing(b, 1, s, c, l) PROVE FALSE
      BY <1>3, DeviceHidden
    <3>1. b = d /\ 1 < p0
      BY ONLY \A a, r, e, h : Computing(a, r, s, e, h) => a = d, p \in Nat \ {0},
              Computing(b, 1, s, c, l)
    <3> QED BY <1>3, <3>1
  <2>2. ASSUME NEW r, NEW e, NEW l, r < p, Computing(d, r, s, e, l)'
        PROVE  FALSE
    <3> DEFINE r0 == IF d = b THEN r + 1 ELSE r
    <3>1. r \in Nat \ {0} /\ Computing(d, r0, s, e, l)
      BY <1>1, <2>2
    <3>2. r0 < p0
      BY <2>2, <3>1
    <3> QED BY <1>3, <3>1, <3>2
  <2> QED BY ONLY <2>1, <2>2 DEF Latest
<1> QED BY <1>2, <1>3 DEF Latest

LEMMA DeviceFresh ==
    ASSUME PipeType, InPlace, NEW b \in Devices, Device(b), NEW s, NEW k, Fresh(s, k)
    PROVE  Fresh(s, k)'
<1>1. CASE Start(b)
  <2>1. SameOps /\ hidden' = hidden
    BY <1>1, DeviceOps
  <2> QED BY ONLY <2>1, Fresh(s, k) DEF Fresh, SameOps
<1>2. CASE ~Start(b)
  <2>0. Popped(b)
    BY <1>2, DeviceOps
  <2>1. \A a, r, c, l : Computing(a, r, s, c, l)' =>
           r \in Nat \ {0} /\ Computing(a, IF a = b THEN r + 1 ELSE r, s, c, l)
    BY <2>0 DEF Popped
  <2>2. \A a, r, c, l : Computing(a, r, s, c, l) => a = Split(s).backend /\ r \in Nat
    <3> TAKE a, r, c, l
    <3> HAVE Computing(a, r, s, c, l)
    <3>1. a = Split(s).backend
      BY DEF InPlace
    <3>2. r \in Nat
      BY LenProperties DEF Computing, Pending, PipeType, StreamType
    <3> QED BY <3>1, <3>2
  <2>3. ASSUME NEW d, NEW q, NEW c, Computing(d, q, s, c, k),
               \A r, e, l : q < r => ~Computing(d, r, s, e, l)
        PROVE  Fresh(s, k)'
    <3>1. CASE d = b /\ q = 1
      <4>1. hidden'[s] = k
        BY <1>2, <2>3, <3>1, DeviceComputed
      <4>2. ASSUME NEW a, NEW r, NEW e, NEW l, Computing(a, r, s, e, l)'
            PROVE  FALSE
        <5>1. r \in Nat \ {0} /\ Computing(a, IF a = b THEN r + 1 ELSE r, s, e, l)
          BY <2>1, <4>2
        <5>2. a = b
          BY ONLY <2>2, <2>3, <3>1, <5>1
        <5> QED BY <2>3, <3>1, <5>1, <5>2
      <4> QED BY ONLY <4>1, <4>2 DEF Fresh
    <3>2. CASE ~(d = b /\ q = 1)
      <4> DEFINE q1 == IF d = b THEN q - 1 ELSE q
      <4>1. Computing(d, q1, s, c, k)'
        BY <2>0, <2>3, <3>2 DEF Popped
      <4>2. ASSUME NEW r, NEW e, NEW l, q1 < r, Computing(d, r, s, e, l)'
            PROVE  FALSE
        <5> DEFINE r0 == IF d = b THEN r + 1 ELSE r
        <5>1. r \in Nat \ {0} /\ Computing(d, r0, s, e, l)
          BY <2>1, <4>2
        <5>2. q < r0
          BY <2>2, <2>3, <4>2, <5>1
        <5> QED BY <2>3, <5>1, <5>2
      <4> QED BY ONLY <4>1, <4>2 DEF Fresh
    <3> QED BY <3>1, <3>2
  <2>4. ASSUME hidden[s] = k, \A a, r, e, l : ~Computing(a, r, s, e, l)
        PROVE  Fresh(s, k)'
    <3>1. hidden'[s] = k
      BY <2>4, DeviceHidden
    <3> QED BY ONLY <2>1, <2>4, <3>1 DEF Fresh
  <2> QED BY ONLY <2>3, <2>4, Fresh(s, k) DEF Fresh
<1> QED BY <1>1, <1>2

LEMMA DeviceCurrent ==
    ASSUME PipeInv, NEW b \in Devices, Device(b)
    PROVE  Current'
<1>1. PipeType /\ InPlace /\ Current
  BY DEF PipeInv
<1>2. UNCHANGED <<setup, i, next, batch>>
  BY <1>1, DeviceOps
<1>3. ASSUME NEW d, NEW p, NEW s, NEW m, NEW c, NEW k, Copying(d, p, s, m, c, k)'
      PROVE  Latest(d, p, s - 1, k)'
  <2>1. CASE Start(b)
    <3>1. SameOps /\ hidden' = hidden
      BY <1>1, <2>1, DeviceOps
    <3>2. Latest(d, p, s - 1, k)
      BY <1>1, <1>3, <3>1 DEF Current, SameOps
    <3> QED BY ONLY <3>1, <3>2 DEF Latest, SameOps
  <2>2. CASE ~Start(b)
    <3>1. Popped(b)
      BY <1>1, <2>2, DeviceOps
    <3>2. p \in Nat \ {0} /\ Copying(d, IF d = b THEN p + 1 ELSE p, s, m, c, k)
      BY <1>3, <3>1 DEF Popped
    <3>3. Split(s - 1).backend = d
      BY <1>1, <3>2 DEF InPlace
    <3>4. \A a, r, e, l : Computing(a, r, s - 1, e, l) => a = d
      BY <1>1, <3>3 DEF InPlace
    <3>5. Latest(d, IF d = b THEN p + 1 ELSE p, s - 1, k)
      BY <1>1, <3>2 DEF Current
    <3> QED BY <1>1, <2>2, <3>1, <3>2, <3>4, <3>5, DeviceLatest
  <2> QED BY <2>1, <2>2
<1>4. \A s, k : Fresh(s, k) => Fresh(s, k)'
  BY <1>1, DeviceFresh
<1>5. ASSUME AtInputs', i' > 1
      PROVE  \A s, k : s = i' - 1 /\ k = batch' => Fresh(s, k)'
  BY <1>1, <1>2, <1>4, <1>5 DEF Current, AtInputs
<1>6. ASSUME next' \in {"look", "record"}
      PROVE  \A s, k : s = i' /\ k = batch' => Fresh(s, k)'
  BY <1>1, <1>2, <1>4, <1>6 DEF Current
<1>7. \A s, k : (s = i' - 1 /\ k = batch' => (Fresh(s, k)' <=> Fresh(i - 1, batch)'))
                /\ (s = i' /\ k = batch' => (Fresh(s, k)' <=> Fresh(i, batch)'))
  BY DEF Fresh
<1> QED BY <1>3, <1>5, <1>6, <1>7 DEF Current

LEMMA DeviceRecorded ==
    ASSUME PipeInv, NEW b \in Devices, Device(b)
    PROVE  Recorded'
<1>1. PipeType /\ InPlace /\ Recorded
  BY DEF PipeInv
<1>2. UNCHANGED <<setup, cur_copy, i, next, batch>> /\ HasEvents' = HasEvents
      /\ \A s : Inputs(s)' = Inputs(s)
  BY <1>1, DeviceOps, Static
<1> SUFFICES ASSUME HasEvents', NEW d, NEW p, NEW s, NEW c, NEW k,
                    Computing(d, p, s, c, k)', Inputs(s) # <<>>
             PROVE  \/ \E r : p < r /\ Recording(d, r, c)'
                    \/ next \in {"look", "record"} /\ s = i /\ k = batch /\ c = cur_copy
  BY <1>2 DEF Recorded
<1>3. CASE Start(b)
  <2>1. SameOps
    BY <1>1, <1>3, DeviceOps
  <2> QED BY <1>1, <1>2, <2>1 DEF SameOps, Recorded
<1>4. CASE Popped(b)
  <2> DEFINE p0 == IF d = b THEN p + 1 ELSE p
  <2>1. p \in Nat \ {0} /\ Computing(d, p0, s, c, k)
    BY <1>4 DEF Popped
  <2>2. ASSUME NEW r, p0 < r, Recording(d, r, c)
        PROVE  \E r1 : p < r1 /\ Recording(d, r1, c)'
    <3>1. r \in Nat
      BY <1>1, <2>2, LenProperties DEF Recording, Pending, PipeType, StreamType
    <3>2. p0 >= 1 /\ r # 1
      BY <2>1, <2>2, <3>1
    <3>3. Recording(d, IF d = b THEN r - 1 ELSE r, c)'
      BY <1>4, <2>2, <3>2 DEF Popped
    <3>4. p < (IF d = b THEN r - 1 ELSE r)
      BY <2>1, <2>2, <3>1
    <3> QED BY ONLY <3>3, <3>4
  <2> QED BY <1>1, <1>2, <2>1, <2>2 DEF Recorded
<1> QED BY <1>1, <1>3, <1>4, DeviceOps

\* As many places as before, all one further to the front.
LEMMA Shifted ==
    ASSUME NEW S, IsFiniteSet(S), \A p \in S : p \in Nat \ {0, 1},
           NEW T, \A p : p \in T <=> p \in Nat /\ p + 1 \in S
    PROVE  Cardinality(T) = Cardinality(S)
<1> DEFINE f == [p \in S |-> p - 1]
<1>1. f \in Surjection(S, T)
  <2>1. f \in [S -> T]
    <3> SUFFICES ASSUME NEW p \in S PROVE p - 1 \in T
      OBVIOUS
    <3>1. p - 1 \in Nat /\ (p - 1) + 1 = p
      OBVIOUS
    <3> QED BY <3>1
  <2>2. ASSUME NEW q \in T PROVE \E p \in S : f[p] = q
    <3>1. q \in Nat /\ q + 1 \in S /\ f[q + 1] = q
      OBVIOUS
    <3> QED BY <3>1
  <2> QED BY <2>1, <2>2 DEF Surjection
<1>2. f \in Injection(S, T)
  <2>1. \A p, q \in S : f[p] = f[q] => p = q
    OBVIOUS
  <2> QED BY <1>1, <2>1 DEF Injection, Surjection, IsInjective
<1>3. ExistsBijection(S, T)
  BY <1>1, <1>2 DEF ExistsBijection, Bijection
<1> QED BY <1>3, FS_Bijection

LEMMA RecordsFinite ==
    ASSUME StreamType, NEW b \in Devices, NEW c
    PROVE  IsFiniteSet(Records(b, c)) /\ Cardinality(Records(b, c)) \in Nat
<1>1. Len(stream[b]) \in Nat
  BY LenProperties DEF StreamType
<1>2. IsFiniteSet(Pending(b))
  BY <1>1, FS_Interval DEF Pending
<1>3. Records(b, c) \in SUBSET Pending(b)
  BY DEF Records
<1> QED BY <1>2, <1>3, FS_Subset, FS_CardinalityType

LEMMA DeviceRecords ==
    ASSUME PipeType, InPlace, NEW b \in Devices, Device(b), ~Start(b), NEW d \in Devices, NEW c
    PROVE  Cardinality(Records(d, c))' =
             IF d = b /\ Recording(b, 1, c) THEN Cardinality(Records(d, c)) - 1
             ELSE Cardinality(Records(d, c))
<1>1. Popped(b) /\ StreamType
  BY DeviceOps DEF PipeType
<1>2. /\ \A p : p \in Records(d, c) <=> Recording(d, p, c)
      /\ \A p : p \in Records(d, c)' <=> Recording(d, p, c)'
  BY DEF Records, Recording
<1>3. /\ \A p : Recording(d, p, c)' =>
            p \in Nat \ {0} /\ Recording(d, IF d = b THEN p + 1 ELSE p, c)
      /\ \A p : Recording(d, p, c) /\ (d = b => p # 1) =>
            Recording(d, IF d = b THEN p - 1 ELSE p, c)'
  BY <1>1 DEF Popped
<1>4. \A p : Recording(d, p, c) => p \in Nat \ {0}
  BY <1>1, LenProperties DEF Recording, Pending, StreamType
<1>5. IsFiniteSet(Records(d, c)) /\ Cardinality(Records(d, c)) \in Nat
  BY <1>1, RecordsFinite
<1>6. CASE d # b
  <2>1. Records(d, c)' = Records(d, c)
    BY ONLY <1>2, <1>3, <1>6
  <2> QED BY <1>6, <2>1
<1>7. CASE d = b
  <2> DEFINE S == Records(b, c) \ {1}
             T == Records(b, c)'
  <2>1. /\ IsFiniteSet(S)
        /\ Cardinality(S) = IF 1 \in Records(b, c) THEN Cardinality(Records(b, c)) - 1
                            ELSE Cardinality(Records(b, c))
    BY <1>5, <1>7, FS_RemoveElement
  <2>2. \A p \in S : p \in Nat \ {0, 1}
    BY <1>2, <1>4, <1>7
  <2>3. \A p : p \in T <=> p \in Nat /\ p + 1 \in S
    <3> TAKE p
    <3>1. p \in T => p \in Nat /\ p + 1 \in S
      BY <1>2, <1>3, <1>7
    <3>2. ASSUME p \in Nat, p + 1 \in S
          PROVE  p \in T
      <4>1. Recording(b, p + 1, c) /\ p + 1 # 1 /\ (p + 1) - 1 = p
        BY <1>2, <1>7, <3>2
      <4>2. Recording(b, (p + 1) - 1, c)'
        BY <1>3, <1>7, <4>1
      <4>3. Recording(b, p, c)'
        BY <4>1, <4>2
      <4> QED BY <1>2, <1>7, <4>3
    <3> QED BY <3>1, <3>2
  <2> HIDE DEF S, T
  <2>4. Cardinality(T) = Cardinality(S)
    BY <2>1, <2>2, <2>3, Shifted
  <2> QED BY <1>2, <1>7, <2>1, <2>4 DEF T
<1> QED BY <1>6, <1>7

LEMMA DeviceCounted ==
    ASSUME PipeInv, NEW b \in Devices, Device(b)
    PROVE  Counted'
<1>1. PipeType /\ InPlace /\ Counted
  BY DEF PipeInv
<1>2. Devices' = Devices /\ Copies' = Copies /\ recorded' = recorded
  BY <1>1, DeviceOps, Static
<1> SUFFICES ASSUME NEW d \in Devices, NEW c \in Copies
             PROVE  recorded[<<d, c>>] = reached'[<<d, c>>] + Cardinality(Records(d, c))'
  BY <1>2 DEF Counted
<1>3. /\ recorded[<<d, c>>] = reached[<<d, c>>] + Cardinality(Records(d, c))
      /\ reached[<<d, c>>] \in Nat /\ Cardinality(Records(d, c)) \in Nat
      /\ <<d, c>> \in Backends \X Copies /\ reached \in [Backends \X Copies -> Nat]
  BY <1>1, RecordsFinite DEF Counted, PipeType, Devices
<1>4. CASE Start(b)
  <2>1. SameOps /\ reached' = reached /\ stream' = stream
    BY <1>1, <1>4, DeviceOps
  <2>2. Records(d, c)' = Records(d, c)
    BY ONLY <2>1 DEF Records, Pending, SameOps
  <2> QED BY <1>3, <2>1, <2>2
<1>5. CASE ~Start(b)
  <2>1. Cardinality(Records(d, c))' =
             IF d = b /\ Recording(b, 1, c) THEN Cardinality(Records(d, c)) - 1
             ELSE Cardinality(Records(d, c))
    BY <1>1, <1>5, DeviceRecords
  <2>2. CASE Reach(b)
    <3>1. PICK e \in Copies : /\ Recording(b, 1, e)
                              /\ reached' = [reached EXCEPT ![<<b, e>>] = @ + 1]
      BY <1>1, <2>2, Heads
    <3>2. Recording(b, 1, c) => c = e
      <4> HAVE Recording(b, 1, c)
      <4>1. RecordOp(b, c) = RecordOp(b, e)
        BY <3>1 DEF Recording
      <4> QED BY <4>1, Kinds
    <3>3. CASE d = b /\ c = e
      BY <1>3, <2>1, <3>1, <3>3
    <3>4. CASE ~(d = b /\ c = e)
      <4>1. <<d, c>> # <<b, e>>
        BY ONLY <3>4
      <4>2. reached'[<<d, c>>] = reached[<<d, c>>]
        BY ONLY <1>3, <3>1, <4>1
      <4> QED BY <1>3, <2>1, <3>2, <3>4, <4>2
    <3> QED BY <3>3, <3>4
  <2>3. CASE ~Reach(b)
    <3>1. reached' = reached
      BY <2>3 DEF Device, Wait, AwaitCopy, Copy, Start, Finish
    <3>2. ~Recording(b, 1, c)
      BY <1>1, <2>3, Heads
    <3> QED BY <1>3, <2>1, <3>1, <3>2
  <2> QED BY <2>2, <2>3
<1> QED BY <1>4, <1>5

LEMMA DeviceQuietAhead ==
    ASSUME PipeInv, NEW b \in Devices, Device(b)
    PROVE  Quiet' /\ Ahead'
<1>1. PipeType /\ InPlace /\ Quiet /\ Ahead
  BY DEF PipeInv
<1>2. /\ UNCHANGED <<setup, cur_copy, i, j, next, batch>>
      /\ \A d \in Devices : stream[d] = <<>> => stream'[d] = <<>>
  BY <1>1, DeviceOps
<1>3. /\ Devices' = Devices /\ HasEvents' = HasEvents /\ Here' = Here /\ (Peers' <=> Peers)
      /\ \A c, k : Recent(c, k)' <=> Recent(c, k)
  BY <1>2, Static, HostSame
<1>4. Quiet'
  <2> SUFFICES ASSUME next = "copy", Peers, ~HasEvents PROVE stream'[Here.backend] = <<>>
    BY <1>2, <1>3 DEF Quiet
  <2>1. stream[Here.backend] = <<>> /\ Here.backend \in Devices
    BY <1>1 DEF Quiet, Peers
  <2> QED BY <1>2, <2>1
<1>5. AllIdle => AllIdle'
  BY <1>2, <1>3 DEF AllIdle, Idle
<1>6. Ahead'
  <2> SUFFICES ASSUME HasEvents, setup.peers PROVE Ahead'
    BY <1>2, <1>3 DEF Ahead
  <2>1. \A d, p, s, c, k : Computing(d, p, s, c, k)' => Recent(c, k)'
    <3>1. \A d, p, s, c, k : Computing(d, p, s, c, k)' => \E q : Computing(d, q, s, c, k)
      BY <1>1, PendingBefore
    <3> QED BY <1>1, <1>3, <3>1 DEF Ahead
  <2>2. \A d, p, s, m, c, k : Copying(d, p, s, m, c, k)' => Recent(c, k)'
    <3>1. \A d, p, s, m, c, k : Copying(d, p, s, m, c, k)' => \E q : Copying(d, q, s, m, c, k)
      BY <1>1, PendingBefore
    <3> QED BY <1>1, <1>3, <3>1 DEF Ahead
  <2>3. next' = "next" /\ batch' % setup'.ahead = 0 => AllIdle'
    BY <1>1, <1>2, <1>5 DEF Ahead
  <2> QED BY <2>1, <2>2, <2>3 DEF Ahead
<1> QED BY <1>4, <1>6

LEMMA DeviceStep == ASSUME PipeInv, NEW b \in Devices, Device(b) PROVE PipeInv'
<1>1. PipeType /\ InPlace /\ Single
  BY DEF PipeInv
<1>2. PipeType' /\ InPlace' /\ Single'
  BY <1>1, DeviceType, DeviceInPlace, DeviceSingle
<1>3. AllReady' /\ Awaited' /\ Current' /\ Recorded' /\ Counted' /\ Quiet' /\ Ahead'
  BY DeviceAllReady, DeviceAwaited, DeviceCurrent, DeviceRecorded, DeviceCounted, DeviceQuietAhead
<1> QED BY <1>2, <1>3 DEF PipeInv

-----------------------------------------------------------------------------
(* A step of the host keeps the invariant.                                 *)

\* Which operations the host queues where.
LEMMA HostOps ==
    ASSUME PipeType, Host
    PROVE  /\ ~ComputeAsync =>
                \A b, p, s, c, k : Computing(b, p, s, c, k)' <=> Computing(b, p, s, c, k)
           /\ ~CopyAsync =>
                \A b, p, s, m, c, k : Copying(b, p, s, m, c, k)' <=> Copying(b, p, s, m, c, k)
           /\ \A b, p, s, m, k : Awaiting(b, p, s, m, k) => Awaiting(b, p, s, m, k)'
           /\ ~Record => \A b, p, c : Recording(b, p, c)' <=> Recording(b, p, c)
           /\ \A b, p, c : Recording(b, p, c) => Recording(b, p, c)'
<1>1. CASE BeginHidden \/ UNCHANGED stream
  <2>1. SameOps
    BY <1>1, HostType, BeginHiddenOps, NothingQueued
  <2> QED BY ONLY <2>1 DEF SameOps
<1>2. CASE CopyAsync
  <2>1. \E a, b : a = Source /\ b = Here.backend
    OBVIOUS
  <2>2. \A b, p, s, c, k : Computing(b, p, s, c, k)' <=> Computing(b, p, s, c, k)
    BY <1>2, <2>1, CopyAsyncOps
  <2>3. \A b, p, s, m, k : Awaiting(b, p, s, m, k) => Awaiting(b, p, s, m, k)'
    BY <1>2, <2>1, CopyAsyncOps
  <2>4. \A b, p, c : Recording(b, p, c)' <=> Recording(b, p, c)
    BY <1>2, <2>1, CopyAsyncOps
  <2> QED BY ONLY <1>2, <2>2, <2>3, <2>4
<1>3. CASE ComputeAsync
  <2>1. \E b : b = Here.backend
    OBVIOUS
  <2>2. \A b, p, s, m, c, k : Copying(b, p, s, m, c, k)' <=> Copying(b, p, s, m, c, k)
    BY <1>3, <2>1, ComputeAsyncOps
  <2>3. \A b, p, s, m, k : Awaiting(b, p, s, m, k) => Awaiting(b, p, s, m, k)'
    BY <1>3, <2>1, ComputeAsyncOps
  <2>4. \A b, p, c : Recording(b, p, c)' <=> Recording(b, p, c)
    BY <1>3, <2>1, ComputeAsyncOps
  <2> QED BY ONLY <1>3, <2>2, <2>3, <2>4
<1>4. CASE Record /\ ~UNCHANGED stream
  <2>1. HasEvents /\ Here.inputs # <<>> /\ Here.backend \in Devices
    BY <1>4 DEF Record
  <2>2. \E b : b = Here.backend
    OBVIOUS
  <2>3. \A b, p, s, c, k : Computing(b, p, s, c, k)' <=> Computing(b, p, s, c, k)
    BY <1>4, <2>1, <2>2, RecordOps
  <2>4. \A b, p, s, m, c, k : Copying(b, p, s, m, c, k)' <=> Copying(b, p, s, m, c, k)
    BY <1>4, <2>1, <2>2, RecordOps
  <2>5. \A b, p, s, m, k : Awaiting(b, p, s, m, k) => Awaiting(b, p, s, m, k)'
    BY <1>4, <2>1, <2>2, RecordOps
  <2>6. \A b, p, c : Recording(b, p, c) => Recording(b, p, c)'
    BY <1>4, <2>1, <2>2, RecordOps
  <2> QED BY ONLY <1>4, <2>3, <2>4, <2>5, <2>6
<1> QED
  BY <1>1, <1>2, <1>3, <1>4 DEF Host, Begin, Realloc, CopyUser, CopySync, ComputeHere,
     Fail, Look, Results, queues

\* The host does not go back.
LEMMA HostMono ==
    ASSUME PipeType, Host
    PROVE  /\ batch \in Nat /\ batch' \in Nat /\ batch <= batch'
           /\ \A s \in Splits, k \in Nat : Early(s, k) => Early(s, k)'
           /\ \A s \in Splits, m \in Nat, k \in Nat : Before(s, m, k) => Before(s, m, k)'
<1>0. /\ NSplits \in Nat \ {0} /\ Splits = 1 .. NSplits
      /\ \A s \in Splits : Len(Inputs(s)) \in Nat
      /\ cur_copy \in Copies /\ i \in Splits /\ j \in Nat \ {0} /\ batch \in Nat
      /\ Here.inputs = Inputs(i)
  BY SetupIs, WhereIs DEF PipeType, Splits
<1> SUFFICES ASSUME NEW s \in Splits, NEW m \in Nat, NEW k \in Nat
             PROVE  /\ batch \in Nat /\ batch' \in Nat /\ batch <= batch'
                    /\ Early(s, k) => Early(s, k)'
                    /\ Before(s, m, k) => Before(s, m, k)'
  BY <1>0
<1>1. CASE Begin \/ Realloc
  BY <1>0, <1>1 DEF Begin, Realloc, Then, Early, Before
<1>2. CASE CopyUser \/ CopyAsync \/ CopySync
  BY <1>0, <1>2, SMTT(60) DEF CopyUser, CopyAsync, CopySync, NextInput, At, Stay, Then, Early, Before, AtInputs
<1>3. CASE BeginHidden
  BY <1>0, <1>3 DEF BeginHidden, At, Stay, Then, Early, Before, AtInputs
<1>4. CASE ComputeHere \/ ComputeAsync
  BY <1>0, <1>4 DEF ComputeHere, ComputeAsync, Stay, Then, Early, Before, AtInputs
<1>5. CASE Fail \/ Results
  BY <1>0, <1>5 DEF Fail, Results, Stay, Then, AfterBatch, Early, Before, AtInputs
<1>6. CASE Look
  BY <1>0, <1>6 DEF Look, Stay, Then, Early, Before, AtInputs
<1>7. CASE Record
  BY <1>0, <1>7 DEF Record, Then, AfterBatch, Early, Before, AtInputs
<1> QED BY <1>1, <1>2, <1>3, <1>4, <1>5, <1>6, <1>7 DEF Host

LEMMA HostInPlace ==
    ASSUME PipeType, InPlace, Host
    PROVE  InPlace'
<1>1. UNCHANGED <<setup, busy, reached, copied>>
  BY HostType
<1>2. /\ Splits' = Splits /\ Copies' = Copies /\ Devices' = Devices
      /\ \A s : Split(s)' = Split(s) /\ Inputs(s)' = Inputs(s)
      /\ \A s, m : Async(s, m)' = Async(s, m)
  BY <1>1, Static
<1>3. /\ batch \in Nat /\ batch' \in Nat /\ batch <= batch'
      /\ \A s \in Splits, k \in Nat : Early(s, k) => Early(s, k)'
      /\ \A s \in Splits, m \in Nat, k \in Nat : Before(s, m, k) => Before(s, m, k)'
  BY HostMono
<1>4. \A s, m : Async(s, m) => s \in Splits /\ m \in Nat
  BY SetupIs DEF Async, PipeType
<1>5. ASSUME NEW b, NEW p, NEW s, NEW c, NEW k, Computing(b, p, s, c, k)'
      PROVE  /\ s \in Splits' /\ Split(s)'.backend = b /\ c \in Copies' /\ k \in 1 .. batch'
             /\ Early(s, k)'
  <2>1. CASE Computing(b, p, s, c, k)
    <3>1. /\ s \in Splits /\ Split(s).backend = b /\ c \in Copies /\ k \in 1 .. batch
          /\ Early(s, k)
      BY <2>1 DEF InPlace
    <3>2. k \in Nat
      BY <1>3, <3>1
    <3>3. k \in 1 .. batch'
      BY ONLY <1>3, <3>1
    <3> QED BY <1>2, <1>3, <3>1, <3>2, <3>3
  <2>2. CASE ~Computing(b, p, s, c, k)
    <3>1. ComputeAsync
      BY <1>5, <2>2, HostOps
    <3>2. \E a : a = Here.backend
      OBVIOUS
    <3>3. b = Here.backend /\ s = i /\ c = cur_copy /\ k = batch
      BY <1>5, <2>2, <3>1, <3>2, ComputeAsyncOps
    <3>4. i \in Splits /\ Split(i).backend = b /\ cur_copy \in Copies /\ batch # 0
      BY <3>1, <3>3, WhereIs DEF PipeType, ComputeAsync
    <3>5. i' = i /\ batch' = batch /\ next' \in {"look", "record"}
      BY <3>1 DEF ComputeAsync, Stay, Then
    <3>6. Early(s, k)'
      BY <3>3, <3>5 DEF Early, AtInputs
    <3>7. k \in 1 .. batch'
      BY <1>3, <3>3, <3>4, <3>5
    <3> QED BY <1>2, <3>3, <3>4, <3>6, <3>7
  <2> QED BY <2>1, <2>2
<1>6. ASSUME NEW b, NEW p, NEW s, NEW m, NEW c, NEW k, Copying(b, p, s, m, c, k)'
      PROVE  /\ Async(s, m)' /\ Split(s - 1)'.backend = b /\ c \in Copies' /\ k \in 1 .. batch'
             /\ Before(s, m, k)' /\ <<s, m, k>> \notin copied'
  <2>1. CASE Copying(b, p, s, m, c, k)
    <3>1. /\ Async(s, m) /\ Split(s - 1).backend = b /\ c \in Copies /\ k \in 1 .. batch
          /\ Before(s, m, k) /\ <<s, m, k>> \notin copied
      BY <2>1 DEF InPlace
    <3>2. k \in Nat
      BY <1>3, <3>1
    <3>3. k \in 1 .. batch'
      BY ONLY <1>3, <3>1
    <3> QED BY <1>1, <1>2, <1>3, <1>4, <3>1, <3>2, <3>3
  <2>2. CASE ~Copying(b, p, s, m, c, k)
    <3>1. CopyAsync
      BY <1>6, <2>2, HostOps
    <3>2. \E a, d : a = Source /\ d = Here.backend
      OBVIOUS
    <3>3. b = Source /\ s = i /\ m = j /\ c = cur_copy /\ k = batch
      BY <1>6, <2>2, <3>1, <3>2, CopyAsyncOps
    <3>4. next = "copy" /\ Peers
      BY <3>1 DEF CopyAsync
    <3>5. /\ i \in Splits /\ cur_copy \in Copies /\ batch # 0 /\ j \in Nat \ {0}
          /\ j <= Len(Inputs(i)) /\ Inputs(i)[j] = "hidden"
      BY <3>4 DEF PipeType
    <3>6. j \in DOMAIN Inputs(i) /\ i > 1
      BY <3>5, SetupIs DEF PipeType, Splits
    <3>7. Split(i - 1).backend = Source /\ Here = Split(i)
      BY <3>6, WhereIs
    <3>8. Async(i, j)
      BY <3>4, <3>5, <3>6, <3>7 DEF Async, Peers
    <3>9. ~Before(i, j, batch)
      BY <1>3, <3>4, <3>5 DEF Before, AtInputs, PipeType, Splits
    <3>10. <<i, j, batch>> \notin copied
      BY <3>9 DEF InPlace
    <3>11. i' = i /\ j' = j + 1 /\ batch' = batch
      BY <3>1 DEF CopyAsync, NextInput, Stay, Then
    <3>12. Before(s, m, k)'
      BY <3>3, <3>5, <3>11 DEF Before
    <3>13. k \in 1 .. batch'
      BY <1>3, <3>3, <3>5, <3>11
    <3> QED BY <1>1, <1>2, <3>3, <3>5, <3>7, <3>8, <3>10, <3>12, <3>13
  <2> QED BY <2>1, <2>2
<1>7. \A s, m, k : <<s, m, k>> \in copied' =>
         s \in Splits' /\ m \in Nat /\ k \in Nat /\ Before(s, m, k)'
  BY <1>1, <1>2, <1>3 DEF InPlace
<1>8. ASSUME NEW b \in Devices', busy'[b]
      PROVE  \E s, c, k : Computing(b, 1, s, c, k)'
  <2>1. PICK s, c, k : Computing(b, 1, s, c, k)
    BY <1>1, <1>2, <1>8 DEF InPlace
  <2>2. CASE ~ComputeAsync
    BY <2>1, <2>2, HostOps
  <2>3. CASE ComputeAsync
    <3>1. \E a : a = Here.backend
      OBVIOUS
    <3> QED BY <2>1, <2>3, <3>1, ComputeAsyncOps
  <2> QED BY <2>2, <2>3
<1> QED BY <1>5, <1>6, <1>7, <1>8 DEF InPlace

LEMMA UnhurriedIs ==
    ASSUME Unhurried, setup \in Setups, HasEvents, setup.peers
    PROVE  /\ setup.ahead <= setup.n_copies
           /\ \A s \in Splits : Split(s).backend = 0 => s = 1
<1>1. setup.events /\ setup.peers /\ setup.n_copies > 1
  BY DEF HasEvents
<1>2. /\ setup.ahead <= setup.n_copies
      /\ \A s \in DOMAIN setup.splits : setup.splits[s].backend = 0 => s = 1
  BY <1>1 DEF Unhurried
<1>3. DOMAIN setup.splits = Splits
  <2>1. setup.splits \in Seq([backend : Nat, inputs : Seq({"user", "hidden"})])
    BY PipelineAssumption DEF SetupType
  <2> QED BY <2>1, LenProperties DEF Splits, NSplits
<1> QED BY <1>2, <1>3 DEF Split

\* A split whose copy of the inputs is not in use does not wait to be computed
\* on it.
LEMMA NotInUseIs ==
    ASSUME PipeType, InPlace, Recorded, Counted, NotInUse, AtInputs, Inputs(i) # <<>>
    PROVE  \A b, p, s, c, k : s = i /\ c = cur_copy => ~Computing(b, p, s, c, k)
<1> SUFFICES ASSUME NEW b, NEW p, NEW k, NEW s, s = i, NEW c, c = cur_copy,
                    Computing(b, p, s, c, k)
             PROVE  FALSE
  OBVIOUS
<1>1. b = Here.backend /\ b \in Devices /\ c \in Copies
  BY WhereIs DEF InPlace, Computing
<1>2. CASE HasEvents
  <2>1. reached[<<b, c>>] = recorded[<<b, c>>]
    BY <1>1, <1>2, WhereIs DEF NotInUse, EventReached
  <2>2. <<b, c>> \in Backends \X Copies
    BY <1>1, WhereIs
  <2>3. StreamType
    BY DEF PipeType
  <2>4. IsFiniteSet(Records(b, c)) /\ Cardinality(Records(b, c)) \in Nat
    BY <1>1, <2>3, RecordsFinite
  <2>5. Cardinality(Records(b, c)) = 0
    BY <1>1, <2>1, <2>2, <2>4 DEF Counted, PipeType
  <2>6. Records(b, c) = {}
    BY <2>4, <2>5, FS_EmptySet
  <2>7. \E r : Recording(b, r, c)
    BY <1>2 DEF Recorded, AtInputs
  <2> QED BY <2>6, <2>7 DEF Records, Recording
<1>3. CASE ~HasEvents
  <2>1. stream[b] = <<>>
    BY <1>1, <1>3 DEF NotInUse, Idle
  <2> QED BY <2>1 DEF Computing, Pending
<1> QED BY <1>2, <1>3

\* An older batch has not used the copy the host is at.
LEMMA OlderCopy ==
    ASSUME Unhurried, PipeType, HasEvents, setup.peers, AtInputs,
           NEW k \in 1 .. batch, k < batch
    PROVE  ~Recent(cur_copy, k)
<1> SUFFICES ASSUME Rotated(cur_copy, batch - k), batch - k <= (batch - 1) % setup.ahead
             PROVE  FALSE
  BY DEF Recent, Since, AtInputs
<1>1. /\ setup.ahead \in Nat \ {0} /\ setup.n_copies \in Nat \ {0} /\ batch \in Nat
      /\ cur_copy \in Nat
  BY SetupIs DEF PipeType, Copies
<1>2. setup.ahead <= setup.n_copies
  BY UnhurriedIs DEF PipeType
<1>3. (batch - 1) % setup.ahead < setup.ahead
  BY <1>1
<1>4. PICK d \in 1 .. (batch - k) : cur_copy = cur_copy + d \/ cur_copy = cur_copy + d - setup.n_copies
  BY <1>1 DEF Rotated
<1> QED BY <1>1, <1>2, <1>3, <1>4

\* When a copy is queued nothing reads the place it goes to, nor writes it.
LEMMA CopyFree ==
    ASSUME Unhurried, PipeInv, CopyAsync
    PROVE  /\ \A b, p, s, c, k : s = i /\ c = cur_copy => ~Computing(b, p, s, c, k)
           /\ \A b, p, s, m, c, k : s = i /\ m = j /\ (c = cur_copy \/ k = batch) =>
                 ~Copying(b, p, s, m, c, k)
<1>1. PipeType /\ InPlace /\ Awaited /\ Quiet /\ Ahead
  BY DEF PipeInv
<1>2. next = "copy" /\ Peers /\ AtInputs
  BY DEF CopyAsync, AtInputs
<1>3. setup.peers /\ Here.backend \in Devices /\ Here = Split(i)
  BY <1>1, <1>2, WhereIs DEF Peers
<1>4. batch \in Nat /\ i \in Nat /\ j \in Nat
  BY <1>1 DEF PipeType, Splits
<1>5. \A s, k : s = i /\ Early(s, k) => k < batch
  BY <1>2, <1>4 DEF Early
<1>6. \A s, m, k : s = i /\ m = j /\ Before(s, m, k) => k < batch
  BY <1>2, <1>4 DEF Before
<1>7. ASSUME NEW b, NEW p, NEW s, NEW c, NEW k, s = i, c = cur_copy, Computing(b, p, s, c, k)
      PROVE  FALSE
  <2>1. b = Here.backend /\ k \in 1 .. batch /\ k < batch
    BY <1>1, <1>3, <1>5, <1>7 DEF InPlace
  <2>2. CASE HasEvents
    <3>1. Recent(c, k)
      BY <1>1, <1>3, <1>7, <2>2 DEF Ahead
    <3> QED BY <1>1, <1>2, <1>3, <1>7, <2>1, <2>2, <3>1, OlderCopy
  <2>3. CASE ~HasEvents
    <3>1. stream[b] = <<>>
      BY <1>1, <1>2, <2>1, <2>3 DEF Quiet
    <3> QED BY <1>7, <3>1 DEF Computing, Pending
  <2> QED BY <2>2, <2>3
<1>8. ASSUME NEW b, NEW p, NEW s, NEW m, NEW c, NEW k, s = i, m = j, c = cur_copy \/ k = batch,
             Copying(b, p, s, m, c, k)
      PROVE  FALSE
  <2>1. k \in 1 .. batch /\ k < batch
    BY <1>1, <1>6, <1>8 DEF InPlace
  <2>2. c = cur_copy
    BY <1>4, <1>8, <2>1
  <2>3. CASE HasEvents
    <3>1. Recent(c, k)
      BY <1>1, <1>3, <1>8, <2>3 DEF Ahead
    <3> QED BY <1>1, <1>2, <1>3, <2>1, <2>2, <2>3, <3>1, OlderCopy
  <2>4. CASE ~HasEvents
    <3>1. stream[Here.backend] = <<>>
      BY <1>1, <1>2, <2>4 DEF Quiet
    <3>2. b # Here.backend
      BY <1>8, <3>1 DEF Copying, Pending
    <3>3. \E r : Awaiting(Split(s).backend, r, s, m, k)
      BY <1>1, <1>3, <1>8, <3>2 DEF Awaited
    <3> QED BY <1>3, <1>8, <3>1, <3>3 DEF Awaiting, Pending
  <2> QED BY <2>3, <2>4
<1> QED BY <1>7, <1>8

LEMMA HostSingle ==
    ASSUME Unhurried, PipeInv, Host
    PROVE  Single'
<1>1. PipeType /\ Single
  BY DEF PipeInv
<1>2. CASE ~CopyAsync
  <2>1. \A b, p, s, m, c, k : Copying(b, p, s, m, c, k)' <=> Copying(b, p, s, m, c, k)
    BY <1>1, <1>2, HostOps
  <2> QED BY ONLY <1>1, <2>1 DEF Single
<1>3. CASE CopyAsync
  <2>1. PICK a, d : a = Source /\ d = Here.backend
    OBVIOUS
  <2>2. \A b, p, s, m, c, k : Copying(b, p, s, m, c, k)' <=>
                 \/ Copying(b, p, s, m, c, k)
                 \/ /\ b = a /\ p = Len(stream[a]) + 1
                    /\ s = i /\ m = j /\ c = cur_copy /\ k = batch
    BY <1>1, <1>3, <2>1, CopyAsyncOps
  <2>3. \A b, p, s, m, c, k : s = i /\ m = j /\ (c = cur_copy \/ k = batch) =>
                 ~Copying(b, p, s, m, c, k)
    BY <1>3, CopyFree
  <2> SUFFICES ASSUME NEW b, NEW e, NEW p, NEW q, NEW s, NEW m, NEW c, NEW f, NEW k, NEW l,
                      Copying(b, p, s, m, c, k)', Copying(e, q, s, m, f, l)', c = f \/ k = l
               PROVE  b = e /\ p = q
    BY DEF Single
  <2>4. CASE Copying(b, p, s, m, c, k) /\ Copying(e, q, s, m, f, l)
    BY ONLY <1>1, <2>4, c = f \/ k = l DEF Single
  <2>5. CASE ~(Copying(b, p, s, m, c, k) /\ Copying(e, q, s, m, f, l))
    BY <2>2, <2>3, <2>5
  <2> QED BY <2>4, <2>5
<1> QED BY <1>2, <1>3

LEMMA NoOps ==
    ASSUME AllIdle
    PROVE  /\ \A b, p, s, c, k : ~Computing(b, p, s, c, k)
           /\ \A b, p, s, m, c, k : ~Copying(b, p, s, m, c, k)
BY DEF AllIdle, Idle, Computing, Copying, Pending

\* What the host copies itself is the data of its batch, to a place that
\* nothing reads and no other copy goes to.
LEMMA HostCopies ==
    ASSUME PipeInv, CopyUser \/ CopySync
    PROVE  /\ slot' = [slot EXCEPT ![<<i, j, cur_copy>>] = batch]
           /\ <<i, j, cur_copy>> \in DOMAIN slot
           /\ \A b, p, s, c, k : s = i /\ c = cur_copy => ~Computing(b, p, s, c, k)
           /\ \A b, p, s, m, c, k : s = i /\ m = j => ~Copying(b, p, s, m, c, k)
           /\ AtInputs /\ j' = j + 1 /\ UNCHANGED <<setup, i, cur_copy, batch>>
<1>1. PipeType /\ InPlace /\ Recorded /\ Counted /\ Current
  BY DEF PipeInv
<1>2. NotInUse /\ AtInputs /\ j' = j + 1 /\ UNCHANGED <<setup, i, cur_copy, batch>>
  BY DEF CopyUser, CopySync, At, AtInputs, NextInput, Stay
<1>3. i \in Splits /\ j \in DOMAIN Inputs(i) /\ cur_copy \in Copies /\ i \in Nat
  BY <1>1, SetupIs, WhereIs, SMTT(60) DEF CopyUser, CopySync, At, PipeType, Splits
<1>4. Inputs(i) # <<>>
  BY <1>3
<1>5. \A b, p, s, c, k : s = i /\ c = cur_copy => ~Computing(b, p, s, c, k)
  BY <1>1, <1>2, <1>4, NotInUseIs
<1>6. <<i, j, cur_copy>> \in DOMAIN slot
  <2>1. <<i, j, cur_copy>> \in Slots(i)
    BY <1>3 DEF Slots, Inputs
  <2> QED BY <1>1, <1>3, <2>1 DEF PipeType
<1>7. CASE CopyUser
  <2>1. slot' = [slot EXCEPT ![<<i, j, cur_copy>>] = batch]
    BY <1>7 DEF CopyUser
  <2>2. Inputs(i)[j] = "user"
    BY <1>1, <1>7, WhereIs DEF CopyUser, At
  <2>3. \A b, p, s, m, c, k : s = i /\ m = j => ~Copying(b, p, s, m, c, k)
    <3>1. ~Async(i, j)
      BY <2>2 DEF Async
    <3>2. \A b, p, s, m, c, k : Copying(b, p, s, m, c, k) => Async(s, m)
      BY <1>1 DEF InPlace
    <3> QED BY ONLY <3>1, <3>2
  <2> QED BY <1>2, <1>5, <1>6, <2>1, <2>3
<1>8. CASE CopySync
  <2>1. /\ slot' = [slot EXCEPT ![<<i, j, cur_copy>>] = hidden[i - 1]]
        /\ ~Peers /\ Idle(Source) /\ next = "copy"
    BY <1>8 DEF CopySync
  <2>2. Inputs(i)[j] = "hidden"
    BY <1>1, <2>1 DEF PipeType
  <2>3. i > 1
    <3>1. i # 1
      BY <1>1, <1>3, <2>2, SetupIs DEF PipeType
    <3> QED BY <1>1, <1>3, <3>1, SetupIs DEF PipeType, Splits
  <2>4. Source = Split(i - 1).backend /\ Here = Split(i)
    BY <1>1, <2>3, WhereIs
  <2>5. \A b, p, s, m, c, k : s = i /\ m = j => ~Copying(b, p, s, m, c, k)
    <3>1. ~Async(i, j)
      BY <2>1, <2>4 DEF Async, Peers
    <3>2. \A b, p, s, m, c, k : Copying(b, p, s, m, c, k) => Async(s, m)
      BY <1>1 DEF InPlace
    <3> QED BY ONLY <3>1, <3>2
  <2>6. ASSUME NEW b, NEW p, NEW s, NEW c, NEW k, s = i - 1, Computing(b, p, s, c, k)
        PROVE  FALSE
    <3>1. b = Source /\ b \in Devices
      BY <1>1, <2>4, <2>6 DEF InPlace, Computing
    <3> QED BY <2>1, <2>6, <3>1 DEF Idle, Computing, Pending
  <2>7. Fresh(i - 1, batch)
    BY <1>1, <1>2, <2>3 DEF Current
  <2>8. hidden[i - 1] = batch
    BY <2>6, <2>7 DEF Fresh
  <2> QED BY <1>2, <1>5, <1>6, <2>1, <2>5, <2>8
<1> QED BY <1>7, <1>8

LEMMA HostReadyStays ==
    ASSUME PipeType, Host, NEW b, NEW p, NEW s, NEW m, NEW c, NEW k,
           Ready(b, p, s, m, c, k), slot'[<<s, m, c>>] = slot[<<s, m, c>>],
           \A d, q, l : Copying(d, q, s, m, c, l)' <=> Copying(d, q, s, m, c, l)
    PROVE  Ready(b, p, s, m, c, k)'
<1>1. \A d, r, t, n, l : Awaiting(d, r, t, n, l) => Awaiting(d, r, t, n, l)'
  BY HostOps
<1> QED
  BY ONLY <1>1, Ready(b, p, s, m, c, k), slot'[<<s, m, c>>] = slot[<<s, m, c>>],
     \A d, q, l : Copying(d, q, s, m, c, l)' <=> Copying(d, q, s, m, c, l) DEF Ready

LEMMA HostGivenStays ==
    ASSUME NEW s, NEW m, NEW c, NEW k,
           Given(s, m, c, k), slot'[<<s, m, c>>] = slot[<<s, m, c>>],
           \A d, q, l : Copying(d, q, s, m, c, l)' <=> Copying(d, q, s, m, c, l)
    PROVE  Given(s, m, c, k)'
BY DEF Given

\* A split that is queued finds its inputs.
LEMMA QueuedReady ==
    ASSUME PipeInv, ComputeAsync
    PROVE  \A b, p, s, m, c, k :
              /\ b = Here.backend /\ p = Len(stream[b]) + 1
              /\ s = i /\ c = cur_copy /\ k = batch /\ m \in DOMAIN Inputs(s)
              => Ready(b, p, s, m, c, k)
<1>1. PipeType /\ AllReady /\ Awaited
  BY DEF PipeInv
<1> SUFFICES ASSUME NEW b, NEW p, NEW s, NEW m, NEW c, NEW k,
                    b = Here.backend, p = Len(stream[b]) + 1,
                    s = i, c = cur_copy, k = batch, m \in DOMAIN Inputs(s)
             PROVE  Ready(b, p, s, m, c, k)
  OBVIOUS
<1>2. next = "input" /\ j > Len(Inputs(i)) /\ b \in Devices /\ b = Split(s).backend
  BY <1>1, WhereIs DEF ComputeAsync
<1>3. m \in 1 .. j - 1
  <2>1. DOMAIN Inputs(s) = 1 .. Len(Inputs(s)) /\ Len(Inputs(s)) \in Nat /\ j \in Nat
    BY <1>1, SetupIs DEF PipeType
  <2> QED BY <1>2, <2>1
<1>4. Given(s, m, c, k)
  BY <1>1, <1>2, <1>3 DEF AllReady, AtInputs
<1>5. ASSUME NEW d, NEW q, Copying(d, q, s, m, c, k)
      PROVE  Ready(b, p, s, m, c, k)
  <2>1. CASE d = b
    <3>1. q < p
      BY <1>1, <1>5, <2>1, LenProperties DEF Copying, Pending, PipeType, StreamType
    <3> QED BY ONLY <1>5, <2>1, <3>1 DEF Ready
  <2>2. CASE d # b
    <3>1. PICK r : Awaiting(b, r, s, m, k)
      BY <1>1, <1>2, <1>5, <2>2 DEF Awaited
    <3>2. r < p
      BY <1>1, <3>1, LenProperties DEF Awaiting, Pending, PipeType, StreamType
    <3> QED BY ONLY <1>5, <2>2, <3>1, <3>2 DEF Ready
  <2> QED BY <2>1, <2>2
<1> QED BY ONLY <1>4, <1>5 DEF Given, Ready

LEMMA HostAllReady ==
    ASSUME Unhurried, PipeInv, Host
    PROVE  AllReady'
<1>1. PipeType /\ InPlace /\ AllReady
  BY DEF PipeInv
<1>2. \A s : Inputs(s)' = Inputs(s)
  BY <1>1, HostType, Static
<1>3. SUFFICES /\ \A b, p, s, c, k, m : Computing(b, p, s, c, k)' /\ m \in DOMAIN Inputs(s) =>
                     Ready(b, p, s, m, c, k)'
               /\ AtInputs' => \A s, m, c, k : /\ s = i' /\ m \in 1 .. j' - 1
                                               /\ c = cur_copy' /\ k = batch'
                                               => Given(s, m, c, k)'
  <2>1. \A s, m, c, k : s = i' /\ c = cur_copy' /\ k = batch' =>
           (Given(s, m, c, k)' <=> Given(i, m, cur_copy, batch)')
    BY DEF Given, Copying
  <2> QED BY <1>2, <2>1 DEF AllReady
<1>4. CASE Realloc
  <2>1. AllIdle /\ j' = 1
    BY <1>4 DEF Realloc
  <2>2. \A b, p, s, c, k : ~Computing(b, p, s, c, k)
    BY <2>1, NoOps
  <2>3. \A b, p, s, c, k : Computing(b, p, s, c, k)' <=> Computing(b, p, s, c, k)
    BY <1>1, <1>4, HostOps DEF ComputeAsync, Realloc
  <2> QED BY <2>1, <2>2, <2>3
<1>5. CASE CopyUser \/ CopySync
  <2>1. /\ slot' = [slot EXCEPT ![<<i, j, cur_copy>>] = batch]
        /\ <<i, j, cur_copy>> \in DOMAIN slot
        /\ \A b, p, s, c, k : s = i /\ c = cur_copy => ~Computing(b, p, s, c, k)
        /\ \A b, p, s, m, c, k : s = i /\ m = j => ~Copying(b, p, s, m, c, k)
        /\ AtInputs /\ j' = j + 1 /\ UNCHANGED <<setup, i, cur_copy, batch>>
    BY <1>5, HostCopies
  <2>2. ~ComputeAsync /\ ~CopyAsync
    BY <1>5 DEF ComputeAsync, CopyAsync, CopyUser, CopySync, At, NextInput, Then
  <2>3. /\ \A b, p, s, c, k : Computing(b, p, s, c, k)' <=> Computing(b, p, s, c, k)
        /\ \A b, p, s, m, c, k : Copying(b, p, s, m, c, k)' <=> Copying(b, p, s, m, c, k)
    BY <1>1, <2>2, HostOps
  <2>4. \A s, m, c : <<s, m, c>> # <<i, j, cur_copy>> => slot'[<<s, m, c>>] = slot[<<s, m, c>>]
    BY ONLY <2>1
  <2>5. ASSUME NEW b, NEW p, NEW s, NEW c, NEW k, NEW m,
               Computing(b, p, s, c, k)', m \in DOMAIN Inputs(s)
        PROVE  Ready(b, p, s, m, c, k)'
    <3>1. Computing(b, p, s, c, k) /\ Ready(b, p, s, m, c, k)
      BY <1>1, <2>3, <2>5 DEF AllReady
    <3>2. <<s, m, c>> # <<i, j, cur_copy>>
      BY <2>1, <3>1
    <3>3. slot'[<<s, m, c>>] = slot[<<s, m, c>>]
      BY <2>4, <3>2
    <3> QED BY <1>1, <2>3, <3>1, <3>3, HostReadyStays
  <2>6. ASSUME NEW s, NEW m, NEW c, NEW k, s = i', m \in 1 .. j' - 1, c = cur_copy', k = batch'
        PROVE  Given(s, m, c, k)'
    <3>1. CASE m = j
      <4>1. slot'[<<s, m, c>>] = k
        BY <2>1, <2>6, <3>1
      <4>2. \A d, q, l : ~Copying(d, q, s, m, c, l)'
        BY <2>1, <2>3, <2>6, <3>1
      <4> QED BY ONLY <4>1, <4>2 DEF Given
    <3>2. CASE m # j
      <4>1. m \in 1 .. j - 1
        BY <1>1, <2>1, <2>6, <3>2 DEF PipeType
      <4>2. Given(s, m, c, k)
        BY <1>1, <2>1, <2>6, <4>1 DEF AllReady
      <4>3. slot'[<<s, m, c>>] = slot[<<s, m, c>>]
        BY <2>4, <3>2
      <4> QED BY <2>3, <4>2, <4>3, HostGivenStays
    <3> QED BY <3>1, <3>2
  <2> QED BY <2>5, <2>6
<1>6. CASE CopyAsync
  <2>0. PICK a, d : a = Source /\ d = Here.backend
    OBVIOUS
  <2>1. \A b, p, s, m, c, k : Copying(b, p, s, m, c, k)' <=>
                 \/ Copying(b, p, s, m, c, k)
                 \/ /\ b = a /\ p = Len(stream[a]) + 1
                    /\ s = i /\ m = j /\ c = cur_copy /\ k = batch
    BY <1>1, <1>6, <2>0, CopyAsyncOps
  <2>2. \A b, p, s, c, k : Computing(b, p, s, c, k)' <=> Computing(b, p, s, c, k)
    BY <1>1, <1>6, <2>0, CopyAsyncOps
  <2>3. \A b, p, s, c, k : s = i /\ c = cur_copy => ~Computing(b, p, s, c, k)
    BY <1>6, CopyFree
  <2>4. slot' = slot /\ AtInputs /\ j' = j + 1 /\ UNCHANGED <<i, cur_copy, batch>>
    BY <1>6 DEF CopyAsync, AtInputs, NextInput, Stay
  <2>5. ASSUME NEW b, NEW p, NEW s, NEW c, NEW k, NEW m,
               Computing(b, p, s, c, k)', m \in DOMAIN Inputs(s)
        PROVE  Ready(b, p, s, m, c, k)'
    <3>1. Computing(b, p, s, c, k) /\ Ready(b, p, s, m, c, k)
      BY <1>1, <2>2, <2>5 DEF AllReady
    <3>2. ~(s = i /\ c = cur_copy)
      BY <2>3, <3>1
    <3>3. \A e, q, l : Copying(e, q, s, m, c, l)' <=> Copying(e, q, s, m, c, l)
      BY <2>1, <3>2
    <3> QED BY <1>1, <2>4, <3>1, <3>3, HostReadyStays
  <2>6. ASSUME NEW s, NEW m, NEW c, NEW k, s = i', m \in 1 .. j' - 1, c = cur_copy', k = batch'
        PROVE  Given(s, m, c, k)'
    <3>1. CASE m = j
      <4>1. s = i /\ m = j /\ c = cur_copy /\ k = batch
        BY <2>4, <2>6, <3>1
      <4>2. \E q : Copying(a, q, s, m, c, k)'
        BY ONLY <2>1, <4>1
      <4> QED BY ONLY <4>2 DEF Given
    <3>2. CASE m # j
      <4>1. m \in 1 .. j - 1
        BY <1>1, <2>4, <2>6, <3>2 DEF PipeType
      <4>2. Given(s, m, c, k)
        BY <1>1, <2>4, <2>6, <4>1 DEF AllReady
      <4>3. \A e, q, l : Copying(e, q, s, m, c, l)' <=> Copying(e, q, s, m, c, l)
        BY <2>1, <3>2
      <4> QED BY <2>4, <4>2, <4>3, HostGivenStays
    <3> QED BY <3>1, <3>2
  <2> QED BY <2>5, <2>6
<1>7. CASE ComputeAsync
  <2>0. PICK a : a = Here.backend
    OBVIOUS
  <2>1. \A b, p, s, c, k : Computing(b, p, s, c, k)' <=>
                 \/ Computing(b, p, s, c, k)
                 \/ b = a /\ p = Len(stream[a]) + 1 /\ s = i /\ c = cur_copy /\ k = batch
    BY <1>1, <1>7, <2>0, ComputeAsyncOps
  <2>2. \A b, p, s, m, c, k : Copying(b, p, s, m, c, k)' <=> Copying(b, p, s, m, c, k)
    BY <1>1, <1>7, <2>0, ComputeAsyncOps
  <2>3. slot' = slot /\ ~AtInputs'
    BY <1>7 DEF ComputeAsync, AtInputs, Then
  <2>4. ASSUME NEW b, NEW p, NEW s, NEW c, NEW k, NEW m,
               Computing(b, p, s, c, k)', m \in DOMAIN Inputs(s)
        PROVE  Ready(b, p, s, m, c, k)'
    <3>1. Ready(b, p, s, m, c, k)
      <4>1. CASE Computing(b, p, s, c, k)
        BY <1>1, <2>4, <4>1 DEF AllReady
      <4>2. CASE ~Computing(b, p, s, c, k)
        <5>1. b = a /\ p = Len(stream[a]) + 1 /\ s = i /\ c = cur_copy /\ k = batch
          BY <2>1, <2>4, <4>2
        <5> QED BY <1>7, <2>0, <2>4, <5>1, QueuedReady
      <4> QED BY <4>1, <4>2
    <3> QED BY <1>1, <2>2, <2>3, <3>1, HostReadyStays
  <2> QED BY <2>3, <2>4
<1>8. CASE ~(Realloc \/ CopyUser \/ CopySync \/ CopyAsync \/ ComputeAsync)
  <2>1. /\ \A b, p, s, c, k : Computing(b, p, s, c, k)' <=> Computing(b, p, s, c, k)
        /\ \A b, p, s, m, c, k : Copying(b, p, s, m, c, k)' <=> Copying(b, p, s, m, c, k)
    BY <1>1, <1>8, HostOps
  <2>2. slot' = slot
    BY <1>8 DEF Host, Begin, BeginHidden, ComputeHere, Fail, Look, Record, Results
  <2>3. \A b, p, s, c, k, m : Computing(b, p, s, c, k)' /\ m \in DOMAIN Inputs(s) =>
                     Ready(b, p, s, m, c, k)'
    BY <1>1, <2>1, <2>2, HostReadyStays DEF AllReady
  <2>4. AtInputs' => \/ j' = 1
                     \/ AtInputs /\ UNCHANGED <<i, j, cur_copy, batch>>
    BY <1>8 DEF Host, Begin, BeginHidden, At, ComputeHere, Fail, Look, Record, Results, AfterBatch,
       AtInputs, Then, Stay
  <2>5. ASSUME AtInputs', NEW s, NEW m, NEW c, NEW k,
               s = i', m \in 1 .. j' - 1, c = cur_copy', k = batch'
        PROVE  Given(s, m, c, k)'
    <3>1. AtInputs /\ UNCHANGED <<i, j, cur_copy, batch>>
      BY <2>4, <2>5
    <3>2. Given(s, m, c, k)
      BY <1>1, <2>5, <3>1 DEF AllReady
    <3> QED BY <2>1, <2>2, <3>2, HostGivenStays
  <2> QED BY <2>3, <2>5
<1> QED BY <1>4, <1>5, <1>6, <1>7, <1>8

LEMMA HostAwaited ==
    ASSUME PipeInv, Host
    PROVE  Awaited'
<1>1. PipeType /\ Awaited
  BY DEF PipeInv
<1>2. /\ \A s : Split(s)' = Split(s)
      /\ \A b, r, s, m, k : Awaiting(b, r, s, m, k) => Awaiting(b, r, s, m, k)'
  BY <1>1, HostType, Static, HostOps
<1> SUFFICES ASSUME NEW d, NEW q, NEW s, NEW m, NEW c, NEW k, NEW a, a = Split(s).backend,
                    Copying(d, q, s, m, c, k)', a # d
             PROVE  \E r : Awaiting(a, r, s, m, k)'
  BY <1>2 DEF Awaited
<1>3. CASE Copying(d, q, s, m, c, k)
  BY <1>1, <1>2, <1>3 DEF Awaited
<1>4. CASE ~Copying(d, q, s, m, c, k)
  <2>1. CopyAsync
    BY <1>1, <1>4, HostOps
  <2>2. PICK e, f : e = Source /\ f = Here.backend
    OBVIOUS
  <2>3. d = e /\ s = i /\ m = j /\ k = batch
    BY <1>1, <1>4, <2>1, <2>2, CopyAsyncOps
  <2>4. a = f
    BY <1>1, <2>2, <2>3, WhereIs
  <2>5. \E r : Awaiting(f, r, s, m, k)'
    BY <1>1, <2>1, <2>2, <2>3, <2>4, CopyAsyncOps
  <2> QED BY ONLY <2>4, <2>5
<1> QED BY <1>3, <1>4

\* The host does not touch the result that a copy waits to take.
LEMMA HostHidden ==
    ASSUME PipeType, InPlace, Host, NEW b, NEW p, NEW s, NEW m, NEW c, NEW k,
           Copying(b, p, s, m, c, k)
    PROVE  hidden'[s - 1] = hidden[s - 1]
<1>1. Split(s - 1).backend = b /\ b \in Devices
  <2>1. Split(s - 1).backend = b
    BY DEF InPlace
  <2> QED BY <2>1 DEF Copying
<1>2. CASE ComputeHere \/ Fail
  <2>1. Here.backend = 0 /\ \E v : hidden' = [hidden EXCEPT ![i] = v]
    BY <1>2 DEF ComputeHere, Fail
  <2>2. s - 1 # i
    BY <1>1, <2>1, WhereIs
  <2> QED BY ONLY <2>1, <2>2
<1>3. ~Realloc
  BY NoOps DEF Realloc
<1> QED
  BY <1>2, <1>3 DEF Host, Begin, CopyUser, BeginHidden, CopyAsync, CopySync, ComputeAsync, Look,
     Record, Results

\* What is queued comes after what is in the stream.
LEMMA QueuedLast ==
    ASSUME PipeType, Host, NEW b, NEW p, NEW s, NEW c, NEW k,
           Computing(b, p, s, c, k)', ~Computing(b, p, s, c, k)
    PROVE  /\ ComputeAsync /\ b = Here.backend /\ s = i /\ c = cur_copy /\ k = batch
           /\ b \in Devices /\ p = Len(stream[b]) + 1 /\ \A q \in Pending(b) : q < p
<1>1. ComputeAsync
  BY HostOps
<1>2. PICK a : a = Here.backend
  OBVIOUS
<1>3. /\ b = a /\ p = Len(stream[a]) + 1 /\ s = i /\ c = cur_copy /\ k = batch
      /\ a \in Devices
  BY <1>1, <1>2, ComputeAsyncOps
<1>4. \A q \in Pending(b) : q < p
  BY <1>3, LenProperties DEF Pending, PipeType, StreamType
<1> QED BY <1>1, <1>2, <1>3, <1>4

LEMMA ComputingStays ==
    ASSUME PipeType, Host, NEW b, NEW p, NEW s, NEW c, NEW k, Computing(b, p, s, c, k)
    PROVE  Computing(b, p, s, c, k)'
<1>1. CASE ComputeAsync
  <2>1. \E a : a = Here.backend
    OBVIOUS
  <2> QED BY <1>1, <2>1, ComputeAsyncOps
<1>2. CASE ~ComputeAsync
  BY <1>2, HostOps
<1> QED BY <1>1, <1>2

LEMMA HostLatest ==
    ASSUME PipeType, Host, NEW b \in Devices, NEW p \in Pending(b), NEW s, NEW k,
           Latest(b, p, s, k), hidden'[s] = hidden[s]
    PROVE  Latest(b, p, s, k)'
<1>1. ASSUME NEW r, NEW e, NEW l, r < p, Computing(b, r, s, e, l)'
      PROVE  Computing(b, r, s, e, l)
  <2> SUFFICES ASSUME ~Computing(b, r, s, e, l) PROVE FALSE
    OBVIOUS
  <2>1. p < r /\ r \in Nat /\ p \in Nat
    BY <1>1, QueuedLast, LenProperties DEF Pending, PipeType, StreamType
  <2> QED BY <1>1, <2>1
<1>2. \A q, e, l : Computing(b, q, s, e, l) => Computing(b, q, s, e, l)'
  BY ComputingStays
<1> QED BY ONLY <1>1, <1>2, Latest(b, p, s, k), hidden'[s] = hidden[s] DEF Latest

LEMMA HostFresh ==
    ASSUME NEW s, NEW k, Fresh(s, k), hidden' = hidden,
           \A b, p, c, l : Computing(b, p, s, c, l)' <=> Computing(b, p, s, c, l)
    PROVE  Fresh(s, k)'
BY DEF Fresh

\* The host computes with the inputs of the batch.
LEMMA ComputedHere ==
    ASSUME PipeType, InPlace, AllReady, ComputeHere
    PROVE  hidden'[i] = batch /\ \A b, p, s, c, k : s = i => ~Computing(b, p, s, c, k)
<1>1. /\ next = "input" /\ j > Len(Inputs(i)) /\ Split(i).backend = 0
      /\ hidden' = [hidden EXCEPT ![i] = IF HasInputs(i) THEN batch ELSE -1]
      /\ i \in DOMAIN hidden /\ 0 \notin Devices
  BY WhereIs DEF ComputeHere, PipeType
<1>2. ~\E m : Async(i, m)
  BY <1>1 DEF Async
<1>3. HasInputs(i)
  <2> SUFFICES ASSUME NEW m \in DOMAIN Inputs(i)
               PROVE  slot[<<i, m, cur_copy>>] = batch
    BY DEF HasInputs, Inputs
  <2>1. m \in 1 .. j - 1
    <3>1. DOMAIN Inputs(i) = 1 .. Len(Inputs(i)) /\ Len(Inputs(i)) \in Nat /\ j \in Nat
      BY SetupIs DEF PipeType
    <3> QED BY <1>1, <3>1
  <2>2. Given(i, m, cur_copy, batch)
    BY <1>1, <2>1 DEF AllReady, AtInputs
  <2>3. ASSUME NEW d, NEW q, Copying(d, q, i, m, cur_copy, batch)
        PROVE  FALSE
    BY <1>2, <2>3 DEF InPlace
  <2> QED BY ONLY <2>2, <2>3 DEF Given
<1>4. hidden'[i] = batch
  BY ONLY <1>1, <1>3
<1>5. \A b, p, s, c, k : s = i => ~Computing(b, p, s, c, k)
  <2>1. \A b, p, s, c, k : Computing(b, p, s, c, k) => Split(s).backend = b /\ b \in Devices
    BY DEF InPlace, Computing
  <2> QED BY <1>1, <2>1
<1> QED BY <1>4, <1>5

LEMMA HostCurrent ==
    ASSUME PipeInv, Host
    PROVE  Current'
<1>1. PipeType /\ InPlace /\ Current /\ AllReady
  BY DEF PipeInv
<1>2. ASSUME NEW b, NEW p, NEW s, NEW m, NEW c, NEW k, Copying(b, p, s, m, c, k)'
      PROVE  Latest(b, p, s - 1, k)'
  <2>1. CASE Copying(b, p, s, m, c, k)
    <3>1. Latest(b, p, s - 1, k) /\ b \in Devices /\ p \in Pending(b)
      BY <1>1, <2>1 DEF Current, Copying
    <3>2. hidden'[s - 1] = hidden[s - 1]
      BY <1>1, <2>1, HostHidden
    <3> QED BY <1>1, <3>1, <3>2, HostLatest
  <2>2. CASE ~Copying(b, p, s, m, c, k)
    <3>1. CopyAsync
      BY <1>1, <1>2, <2>2, HostOps
    <3>2. PICK a, d : a = Source /\ d = Here.backend
      OBVIOUS
    <3>3. b = a /\ p = Len(stream[a]) + 1 /\ s = i /\ k = batch /\ a \in Devices
      BY <1>1, <1>2, <2>2, <3>1, <3>2, CopyAsyncOps
    <3>4. \A e, q, t, f, l : Computing(e, q, t, f, l)' <=> Computing(e, q, t, f, l)
      BY <1>1, <3>1, <3>2, CopyAsyncOps
    <3>5. i > 1
      <4>1. i # 1
        BY <1>1, <3>2, <3>3, WhereIs
      <4> QED BY <1>1, <4>1, SetupIs DEF PipeType, Splits
    <3>6. Source = Split(i - 1).backend /\ AtInputs /\ hidden' = hidden
      BY <1>1, <3>1, <3>5, WhereIs DEF CopyAsync, AtInputs
    <3>7. Fresh(s - 1, k)
      BY <1>1, <3>3, <3>5, <3>6 DEF Current
    <3>8. \A e, q, f, l : Computing(e, q, s - 1, f, l) => e = b /\ q < p
      <4> TAKE e, q, f, l
      <4> HAVE Computing(e, q, s - 1, f, l)
      <4>1. e = b
        BY <1>1, <3>2, <3>3, <3>6 DEF InPlace
      <4>2. q < p
        BY <1>1, <3>3, <4>1, LenProperties DEF Computing, Pending, PipeType, StreamType
      <4> QED BY <4>1, <4>2
    <3>9. Latest(b, p, s - 1, k)
      BY ONLY <3>7, <3>8 DEF Fresh, Latest
    <3> QED BY ONLY <3>4, <3>6, <3>9 DEF Latest
  <2> QED BY <2>1, <2>2
<1>3. CASE CopyUser \/ CopySync \/ BeginHidden \/ CopyAsync
  <2>1. /\ AtInputs /\ UNCHANGED <<i, batch>> /\ hidden' = hidden
        /\ ~(next' \in {"look", "record"})
    BY <1>3 DEF CopyUser, CopySync, BeginHidden, CopyAsync, At, AtInputs, NextInput, Then, Stay
  <2>2. \A b, p, s, c, k : Computing(b, p, s, c, k)' <=> Computing(b, p, s, c, k)
    <3>1. ~ComputeAsync
      BY <2>1 DEF ComputeAsync, Then
    <3> QED BY <1>1, <3>1, HostOps
  <2>3. AtInputs' /\ i' > 1 => Fresh(i - 1, batch)'
    <3> SUFFICES ASSUME i > 1, NEW s, NEW k, s = i' - 1, k = batch' PROVE Fresh(s, k)'
      BY <2>1 DEF Fresh
    <3>1. Fresh(s, k)
      BY <1>1, <2>1 DEF Current
    <3> QED BY <2>1, <2>2, <3>1, HostFresh
  <2> QED BY <1>2, <2>1, <2>3 DEF Current
<1>4. CASE ComputeHere
  <2>1. /\ hidden'[i] = batch /\ UNCHANGED <<i, batch>> /\ ~AtInputs'
        /\ \A b, p, s, c, k : s = i => ~Computing(b, p, s, c, k)
    BY <1>1, <1>4, ComputedHere DEF ComputeHere, Then, Stay, AtInputs
  <2>2. ~ComputeAsync
    BY <1>1, <1>4, WhereIs DEF ComputeHere, ComputeAsync
  <2>3. \A b, p, s, c, k : Computing(b, p, s, c, k)' <=> Computing(b, p, s, c, k)
    BY <1>1, <2>2, HostOps
  <2>4. \A s, k : s = i /\ k = batch => Fresh(s, k)'
    BY ONLY <2>1, <2>3 DEF Fresh
  <2>5. Fresh(i, batch)'
    BY ONLY <2>1, <2>4 DEF Fresh
  <2> QED BY <1>2, <2>1, <2>5 DEF Current
<1>5. CASE ComputeAsync
  <2>1. PICK a : a = Here.backend
    OBVIOUS
  <2>2. \A b, p, s, c, k : Computing(b, p, s, c, k)' <=>
                 \/ Computing(b, p, s, c, k)
                 \/ b = a /\ p = Len(stream[a]) + 1 /\ s = i /\ c = cur_copy /\ k = batch
    BY <1>1, <1>5, <2>1, ComputeAsyncOps
  <2>3. a \in Devices /\ ~AtInputs' /\ UNCHANGED <<i, batch>>
    BY <1>5, <2>1 DEF ComputeAsync, Then, Stay, AtInputs
  <2>4. \A p, s, c, k : Computing(a, p, s, c, k) => p < Len(stream[a]) + 1
    BY <1>1, <2>3, LenProperties DEF Computing, Pending, PipeType, StreamType
  <2>5. \A p, s, c, k : Computing(a, p, s, c, k) => ~(Len(stream[a]) + 1 < p)
    BY <1>1, <2>3, LenProperties DEF Computing, Pending, PipeType, StreamType
  <2>6. Len(stream[a]) + 1 \in Nat
    BY <1>1, <2>3, LenProperties DEF PipeType, StreamType
  <2>7. ASSUME NEW s, NEW k, s = i, k = batch
        PROVE  Fresh(s, k)'
    <3>0. PICK q : q = Len(stream[a]) + 1
      OBVIOUS
    <3>1. \E c : Computing(a, q, s, c, k)'
      BY <2>2, <2>7, <3>0
    <3>2. \A r, e, l : q < r => ~Computing(a, r, s, e, l)'
      BY <2>2, <2>5, <2>6, <3>0
    <3> QED BY ONLY <3>1, <3>2 DEF Fresh
  <2>8. Fresh(i, batch)'
    BY ONLY <2>3, <2>7 DEF Fresh
  <2> QED BY <1>2, <2>3, <2>8 DEF Current
<1>6. CASE Look \/ Record
  <2>1. /\ Fresh(i, batch) /\ hidden' = hidden /\ batch' = batch
        /\ AtInputs' => i' = i + 1
        /\ next' \in {"look", "record"} => i' = i
    BY <1>1, <1>6 DEF Look, Record, Current, Then, Stay, AfterBatch, AtInputs
  <2>2. ~ComputeAsync
    BY <1>6 DEF Look, Record, ComputeAsync
  <2>3. \A b, p, s, c, k : Computing(b, p, s, c, k)' <=> Computing(b, p, s, c, k)
    BY <1>1, <2>2, HostOps
  <2>4. \A s, k : s = i /\ k = batch => Fresh(s, k)'
    BY <2>1, <2>3, HostFresh
  <2>5. next' \in {"look", "record"} => Fresh(i, batch)'
    BY ONLY <2>1, <2>4 DEF Fresh
  <2>6. AtInputs' => Fresh(i - 1, batch)'
    <3> HAVE AtInputs'
    <3>1. i' - 1 = i
      BY <1>1, <2>1 DEF PipeType, Splits
    <3> QED BY ONLY <2>1, <2>4, <3>1 DEF Fresh
  <2> QED BY <1>2, <2>5, <2>6 DEF Current
<1>7. CASE Begin \/ Realloc \/ Fail \/ Results
  <2>1. ~(next' \in {"look", "record"}) /\ (AtInputs' => i' = 1)
    BY <1>7 DEF Begin, Realloc, Fail, Results, Then, AfterBatch, AtInputs
  <2> QED BY <1>2, <2>1 DEF Current
<1> QED BY <1>3, <1>4, <1>5, <1>6, <1>7 DEF Host

LEMMA HostRecorded ==
    ASSUME PipeInv, Host
    PROVE  Recorded'
<1>1. PipeType /\ InPlace /\ Recorded
  BY DEF PipeInv
<1>2. HasEvents' = HasEvents /\ \A s : Inputs(s)' = Inputs(s)
  BY <1>1, HostType, Static
<1> SUFFICES ASSUME HasEvents, NEW b, NEW p, NEW s, NEW c, NEW k,
                    Computing(b, p, s, c, k)', Inputs(s) # <<>>
             PROVE  \/ \E r : p < r /\ Recording(b, r, c)'
                    \/ next' \in {"look", "record"} /\ s = i' /\ k = batch' /\ c = cur_copy'
  BY <1>2 DEF Recorded
<1>3. CASE ~Computing(b, p, s, c, k)
  <2>1. ComputeAsync /\ s = i /\ c = cur_copy /\ k = batch
    BY <1>1, <1>3, QueuedLast
  <2> QED BY <2>1 DEF ComputeAsync, Then, Stay
<1>4. CASE Computing(b, p, s, c, k)
  <2>1. CASE \E r : p < r /\ Recording(b, r, c)
    BY <1>1, <2>1, HostOps
  <2>2. CASE next \in {"look", "record"} /\ s = i /\ k = batch /\ c = cur_copy
    <3>1. CASE Look
      BY <2>2, <3>1 DEF Look, Then, Stay
    <3>2. CASE Record
      <4>1. b \in Devices /\ b = Here.backend /\ Here.inputs # <<>>
        BY <1>1, <1>4, <2>2, WhereIs DEF InPlace, Computing
      <4>0. PICK a : a = Here.backend /\ a \in Devices /\ a = b
        BY <4>1
      <4>2. \A d, q, e : Recording(d, q, e)' <=>
                 Recording(d, q, e) \/ (d = a /\ q = Len(stream[a]) + 1 /\ e = cur_copy)
        BY <1>1, <3>2, <4>0, <4>1, RecordOps
      <4>3. p < Len(stream[b]) + 1
        BY <1>1, <1>4, <4>1, LenProperties DEF Computing, Pending, PipeType, StreamType
      <4> QED BY <2>2, <4>0, <4>2, <4>3
    <3> QED
      BY <2>2, <3>1, <3>2 DEF Host, Begin, Realloc, CopyUser, BeginHidden, CopyAsync, CopySync, At,
         ComputeHere, Fail, ComputeAsync, Results
  <2> QED BY <1>1, <1>4, <2>1, <2>2 DEF Recorded
<1> QED BY <1>3, <1>4

LEMMA HostCounted ==
    ASSUME PipeInv, Host
    PROVE  Counted'
<1>1. PipeType /\ Counted
  BY DEF PipeInv
<1>2. Devices' = Devices /\ Copies' = Copies /\ reached' = reached /\ StreamType
  BY <1>1, HostType, Static DEF PipeType
<1>3. /\ \A b, c, p : p \in Records(b, c) <=> Recording(b, p, c)
      /\ \A b, c, p : p \in Records(b, c)' <=> Recording(b, p, c)'
  BY DEF Records, Recording
<1>4. CASE Record /\ HasEvents /\ Here.inputs # <<>> /\ Here.backend \in Devices
  <2>1. PICK a : a = Here.backend /\ a \in Devices
    BY <1>4
  <2>2. /\ recorded' = [recorded EXCEPT ![<<a, cur_copy>>] = @ + 1]
        /\ \A b, p, c : Recording(b, p, c)' <=>
                 Recording(b, p, c) \/ (b = a /\ p = Len(stream[a]) + 1 /\ c = cur_copy)
    BY <1>1, <1>4, <2>1, RecordOps
  <2>3. PICK l \in Nat : l = Len(stream[a]) + 1
    BY <1>2, <2>1, LenProperties DEF StreamType
  <2> SUFFICES ASSUME NEW b \in Devices, NEW c \in Copies
               PROVE  recorded'[<<b, c>>] = reached[<<b, c>>] + Cardinality(Records(b, c)')
    BY <1>2 DEF Counted
  <2>4. /\ recorded[<<b, c>>] = reached[<<b, c>>] + Cardinality(Records(b, c))
        /\ <<b, c>> \in Backends \X Copies /\ reached[<<b, c>>] \in Nat
        /\ recorded \in [Backends \X Copies -> Nat]
    BY <1>1 DEF Counted, PipeType, Devices
  <2>5. IsFiniteSet(Records(b, c)) /\ Cardinality(Records(b, c)) \in Nat
    BY <1>2, RecordsFinite
  <2>6. CASE b = a /\ c = cur_copy
    <3>1. Records(b, c)' = Records(b, c) \cup {l}
      BY ONLY <1>3, <2>2, <2>3, <2>6
    <3>2. l \notin Records(b, c)
      BY <1>2, <2>3, <2>6, LenProperties DEF Records, Pending, StreamType
    <3>3. Cardinality(Records(b, c)') = Cardinality(Records(b, c)) + 1
      BY <2>5, <3>1, <3>2, FS_AddElement
    <3>4. recorded'[<<b, c>>] = recorded[<<b, c>>] + 1
      BY ONLY <2>2, <2>4, <2>6
    <3> QED BY <2>4, <2>5, <3>3, <3>4
  <2>7. CASE ~(b = a /\ c = cur_copy)
    <3>1. Records(b, c)' = Records(b, c)
      <4>1. \A p : Recording(b, p, c)' <=> Recording(b, p, c)
        BY ONLY <2>2, <2>7
      <4> QED BY ONLY <1>3, <4>1
    <3>2. <<b, c>> # <<a, cur_copy>>
      BY ONLY <2>7
    <3>3. recorded'[<<b, c>>] = recorded[<<b, c>>]
      BY ONLY <2>2, <2>4, <3>2
    <3> QED BY <2>4, <3>1, <3>3
  <2> QED BY <2>6, <2>7
<1>5. CASE ~(Record /\ HasEvents /\ Here.inputs # <<>> /\ Here.backend \in Devices)
  <2>1. recorded' = recorded
    BY <1>5 DEF Host, Begin, Realloc, CopyUser, BeginHidden, CopyAsync, CopySync, ComputeHere, Fail,
       ComputeAsync, Look, Record, Results, queues
  <2>2. \A b, p, c : Recording(b, p, c)' <=> Recording(b, p, c)
    <3>1. CASE Record
      <4>1. UNCHANGED <<setup, stream>>
        BY <1>5, <3>1 DEF Record
      <4> QED BY <4>1, NothingQueued DEF SameOps
    <3>2. CASE ~Record
      BY <1>1, <3>2, HostOps
    <3> QED BY <3>1, <3>2
  <2>3. \A b, c : Records(b, c)' = Records(b, c)
    BY ONLY <1>3, <2>2
  <2> QED BY <1>1, <1>2, <2>1, <2>3 DEF Counted
<1> QED BY <1>4, <1>5

LEMMA HostQuiet ==
    ASSUME PipeInv, Host
    PROVE  Quiet'
<1>1. PipeType
  BY DEF PipeInv
<1> SUFFICES ASSUME next' = "copy", Peers', ~HasEvents' PROVE stream'[Here'.backend] = <<>>
  BY DEF Quiet
<1>2. BeginHidden
  BY DEF Host, Begin, Realloc, CopyUser, BeginHidden, CopyAsync, CopySync, ComputeHere, Fail,
     ComputeAsync, Look, Record, Results, Then, AfterBatch, NextInput
<1>3. UNCHANGED <<setup, i>>
  BY <1>2 DEF BeginHidden, Stay
<1>4. Here' = Here /\ (Peers' <=> Peers) /\ HasEvents' = HasEvents
  BY <1>3, Static DEF Here, Peers, Source
<1>5. Idle(Here.backend) /\ stream' = stream
  BY <1>2, <1>4 DEF BeginHidden
<1>6. Here.backend \in Devices
  BY <1>4 DEF Peers
<1> QED BY <1>4, <1>5, <1>6 DEF Idle

LEMMA NextMod ==
    ASSUME NEW a \in Nat \ {0}, NEW n \in Nat \ {0}, n % a # 0
    PROVE  n % a = ((n - 1) % a) + 1
<1>1. PICK q \in Int, r \in 0 .. a - 1 : n - 1 = q * a + r
  <2>1. n - 1 = ((n - 1) \div a) * a + ((n - 1) % a)
    OBVIOUS
  <2>2. (n - 1) \div a \in Int /\ (n - 1) % a \in 0 .. a - 1
    OBVIOUS
  <2> QED BY <2>1, <2>2
<1>2. (n - 1) % a = r
  BY <1>1
<1>3. CASE r + 1 < a
  <2>1. n = q * a + (r + 1)
    BY <1>1
  <2>2. n % a = r + 1
    BY <1>3, <2>1
  <2> QED BY <1>2, <2>2
<1>4. CASE r + 1 = a
  <2>1. n = (q + 1) * a
    BY <1>1, <1>4
  <2>2. n % a = 0
    BY <2>1
  <2> QED BY <2>2
<1> QED BY <1>1, <1>3, <1>4

LEMMA Wrap ==
    ASSUME NEW n \in Nat \ {0}, NEW c \in 0 .. n - 1
    PROVE  (c + 1) % n = IF c + 1 = n THEN 0 ELSE c + 1
OBVIOUS

\* What is recent stays recent as long as it is at work.
LEMMA RecentStays ==
    ASSUME Unhurried, PipeInv, Host, HasEvents, setup.peers, ~AllIdle,
           NEW c \in Copies, NEW k \in 1 .. batch, Recent(c, k), Fail => k < batch
    PROVE  Recent(c, k)'
<1>1. PipeType /\ Ahead
  BY DEF PipeInv
<1>2. /\ setup.ahead \in Nat \ {0} /\ setup.n_copies \in Nat \ {0} /\ batch \in Nat \ {0}
      /\ cur_copy \in 0 .. setup.n_copies - 1 /\ c \in 0 .. setup.n_copies - 1
      /\ k \in Nat \ {0} /\ k <= batch
  BY <1>1, SetupIs DEF PipeType, Copies
<1>3. setup.ahead <= setup.n_copies /\ setup' = setup
  BY <1>1, UnhurriedIs, HostType DEF PipeType
<1>4. Rotated(c, Since(k)) /\ batch - k <= (batch - 1) % setup.ahead
  BY DEF Recent
<1>5. (batch - 1) % setup.ahead < setup.ahead
  BY <1>2
<1>6. CASE Begin
  <2>1. batch % setup.ahead # 0 /\ batch' = batch + 1 /\ cur_copy' = cur_copy
    BY <1>1, <1>6 DEF Begin, Ahead
  <2>2. batch % setup.ahead = ((batch - 1) % setup.ahead) + 1
    BY <1>2, <2>1, NextMod
  <2>3. batch' - k <= (batch' - 1) % setup'.ahead
    <3>1. batch' - 1 = batch
      BY <1>2, <2>1
    <3> QED BY <1>2, <1>3, <1>4, <2>1, <2>2, <3>1
  <2>4. Since(k) = batch - k + 1 /\ Since(k)' = batch - k + 1
    BY <1>2, <1>6, <2>1 DEF Since, Begin, Then
  <2>5. Rotated(c, batch - k + 1)
    BY <1>4, <2>4
  <2>6. Rotated(c, Since(k))'
    BY <1>3, <2>1, <2>4, <2>5 DEF Rotated
  <2> QED BY <2>3, <2>6 DEF Recent
<1>7. CASE Fail
  <2>1. /\ batch' = batch /\ cur_copy' = cur_copy /\ next = "input"
        /\ next' \in {"next", "results"}
    BY <1>7 DEF Fail, Stay, Then, AfterBatch
  <2>2. Since(k) = batch - k /\ Since(k)' = batch - k + 1 /\ batch - k \in Nat \ {0}
    BY <1>2, <1>7, <2>1 DEF Since
  <2>3. Rotated(c, batch - k)
    BY <1>4, <2>2
  <2>4. PICK d \in 1 .. (batch - k) : cur_copy = c + d \/ cur_copy = c + d - setup.n_copies
    BY <2>2, <2>3 DEF Rotated
  <2>5. d \in 1 .. (batch - k + 1)
    BY <2>2
  <2>6. Rotated(c, Since(k))'
    BY <1>3, <2>1, <2>2, <2>4, <2>5 DEF Rotated
  <2> QED BY <1>3, <1>4, <2>1, <2>6 DEF Recent
<1>8. CASE Record /\ i >= NSplits
  <2>1. /\ batch' = batch /\ cur_copy' = (cur_copy + 1) % setup.n_copies
        /\ next = "record" /\ next' \in {"next", "results"}
    <3>1. ~(i < NSplits)
      BY <1>1, <1>8, SetupIs DEF PipeType, Splits
    <3> QED BY <1>8, <3>1 DEF Record, Then, AfterBatch
  <2>2. Since(k) = batch - k /\ Since(k)' = batch - k + 1
    BY <1>2, <2>1 DEF Since
  <2>3. cur_copy' = IF cur_copy + 1 = setup.n_copies THEN 0 ELSE cur_copy + 1
    BY <1>2, <2>1, Wrap
  <2>4. Rotated(c, batch - k)
    BY <1>4, <2>2
  <2>5. \E d \in 1 .. (batch - k + 1) : cur_copy' = c + d \/ cur_copy' = c + d - setup.n_copies
    <3>1. CASE k = batch
      <4>1. cur_copy = c
        BY <1>2, <2>4, <3>1 DEF Rotated
      <4>2. cur_copy' = c + 1 \/ cur_copy' = c + 1 - setup.n_copies
        BY <1>2, <2>3, <4>1
      <4>3. 1 \in 1 .. (batch - k + 1)
        BY <1>2, <3>1
      <4> QED BY <4>2, <4>3
    <3>2. CASE k # batch
      <4>1. PICK d \in 1 .. (batch - k) : cur_copy = c + d \/ cur_copy = c + d - setup.n_copies
        BY <1>2, <2>4, <3>2 DEF Rotated
      <4>2. d < setup.n_copies /\ d \in Nat \ {0}
        BY <1>2, <1>3, <1>4, <1>5, <4>1
      <4>3. cur_copy' = c + (d + 1) \/ cur_copy' = c + (d + 1) - setup.n_copies
        BY <1>2, <2>3, <4>1, <4>2
      <4>4. d + 1 \in 1 .. (batch - k + 1)
        BY <1>2, <4>1
      <4> QED BY <4>3, <4>4
    <3> QED BY <3>1, <3>2
  <2>6. Rotated(c, Since(k))'
    <3>1. batch - k + 1 # 0
      BY <1>2
    <3> QED BY <1>3, <2>2, <2>5, <3>1 DEF Rotated
  <2> QED BY <1>3, <1>4, <2>1, <2>6 DEF Recent
<1>9. CASE CopyUser \/ BeginHidden \/ CopyAsync \/ CopySync \/ ComputeHere \/ ComputeAsync \/ Look
            \/ (Record /\ i < NSplits)
  <2>1. /\ batch' = batch /\ cur_copy' = cur_copy
        /\ next \notin {"next", "results"} /\ next' \notin {"next", "results"}
    BY <1>9 DEF CopyUser, BeginHidden, CopyAsync, CopySync, ComputeHere, ComputeAsync, Look, Record,
       At, NextInput, Then, Stay
  <2>2. Since(k)' = Since(k)
    BY <2>1 DEF Since
  <2>3. Rotated(c, Since(k))'
    BY <1>3, <1>4, <2>1, <2>2 DEF Rotated
  <2> QED BY <1>3, <1>4, <2>1, <2>3 DEF Recent
<1>10. ~Realloc /\ ~Results
  BY DEF Realloc, Results
<1>11. i \in Nat /\ NSplits \in Nat
  BY <1>1, SetupIs DEF PipeType, Splits
<1> QED BY <1>6, <1>7, <1>8, <1>9, <1>10, <1>11 DEF Host

LEMMA HostAhead ==
    ASSUME Unhurried, PipeInv, Host
    PROVE  Ahead'
<1>1. PipeType /\ InPlace /\ Ahead
  BY DEF PipeInv
<1>2. HasEvents' = HasEvents /\ setup' = setup /\ Devices' = Devices
  BY <1>1, HostType, Static
<1> SUFFICES ASSUME HasEvents, setup.peers PROVE Ahead'
  BY <1>2 DEF Ahead
<1>3. next' = "next" /\ batch' % setup'.ahead = 0 => AllIdle'
  <2>1. CASE Results
    <3>1. AllIdle /\ stream' = stream
      BY <2>1 DEF Results, queues
    <3> QED BY <1>2, <3>1 DEF AllIdle, Idle
  <2>2. CASE ~Results
    <3> SUFFICES ASSUME next' = "next" PROVE batch' % setup'.ahead # 0
      OBVIOUS
    <3>1. Fail \/ Record
      BY <2>2 DEF Host, Begin, Realloc, CopyUser, BeginHidden, CopyAsync, CopySync, ComputeHere,
         ComputeAsync, Look, Then, NextInput
    <3>2. next' = AfterBatch /\ batch' = batch
      BY <3>1 DEF Fail, Record, Then, Stay
    <3> QED BY <1>2, <3>2 DEF AfterBatch
  <2> QED BY <2>1, <2>2
<1>4. Fail => \A s, m, k : s \in Splits => (Early(s, k) /\ k \in 1 .. batch => k < batch)
                 /\ (Before(s, m, k) /\ k \in 1 .. batch /\ s > 1 => k < batch)
  <2> HAVE Fail
  <2>1. Here.backend = 0 /\ AtInputs
    BY DEF Fail, AtInputs
  <2>2. i = 1
    BY <1>1, <2>1, WhereIs, UnhurriedIs DEF PipeType
  <2> QED BY <1>1, <2>1, <2>2 DEF Early, Before, PipeType, Splits
<1>5. ASSUME NEW b, NEW p, NEW s, NEW c, NEW k, Computing(b, p, s, c, k)'
      PROVE  Recent(c, k)'
  <2>1. CASE Computing(b, p, s, c, k)
    <3>1. s \in Splits /\ c \in Copies /\ k \in 1 .. batch /\ Early(s, k)
      BY <1>1, <2>1 DEF InPlace
    <3>2. Recent(c, k)
      BY <1>1, <2>1 DEF Ahead
    <3>3. ~AllIdle
      BY <2>1, NoOps
    <3>4. Fail => k < batch
      BY <1>4, <3>1
    <3> QED BY <3>1, <3>2, <3>3, <3>4, RecentStays
  <2>2. CASE ~Computing(b, p, s, c, k)
    <3>1. ComputeAsync /\ c = cur_copy /\ k = batch
      BY <1>1, <1>5, <2>2, QueuedLast
    <3>2. batch' = batch /\ cur_copy' = cur_copy /\ next' \notin {"next", "results"}
      BY <3>1 DEF ComputeAsync, Stay, Then
    <3>3. batch # 0
      BY <1>1, <3>1 DEF ComputeAsync, PipeType
    <3>4. \A e, l : e = cur_copy /\ l = batch => Recent(e, l)'
      BY <1>1, <1>2, <3>2, <3>3, SetupIs DEF Recent, Rotated, Since, PipeType
    <3> QED BY ONLY <3>1, <3>4
  <2> QED BY <2>1, <2>2
<1>6. ASSUME NEW b, NEW p, NEW s, NEW m, NEW c, NEW k, Copying(b, p, s, m, c, k)'
      PROVE  Recent(c, k)'
  <2>1. CASE Copying(b, p, s, m, c, k)
    <3>1. Async(s, m) /\ c \in Copies /\ k \in 1 .. batch /\ Before(s, m, k)
      BY <1>1, <2>1 DEF InPlace
    <3>2. Recent(c, k)
      BY <1>1, <2>1 DEF Ahead
    <3>3. ~AllIdle
      BY <2>1, NoOps
    <3>4. Fail => k < batch
      BY <1>4, <3>1 DEF Async
    <3> QED BY <3>1, <3>2, <3>3, <3>4, RecentStays
  <2>2. CASE ~Copying(b, p, s, m, c, k)
    <3>0. PICK a, d : a = Source /\ d = Here.backend
      OBVIOUS
    <3>1. CopyAsync
      BY <1>1, <1>6, <2>2, HostOps
    <3>2. c = cur_copy /\ k = batch
      BY <1>1, <1>6, <2>2, <3>0, <3>1, CopyAsyncOps
    <3>3. batch' = batch /\ cur_copy' = cur_copy /\ next' \notin {"next", "results"}
      BY <3>1 DEF CopyAsync, NextInput, Stay, Then
    <3>4. batch # 0
      BY <1>1, <3>1 DEF CopyAsync, PipeType
    <3>5. \A e, l : e = cur_copy /\ l = batch => Recent(e, l)'
      BY <1>1, <1>2, <3>3, <3>4, SetupIs DEF Recent, Rotated, Since, PipeType
    <3> QED BY ONLY <3>2, <3>5
  <2> QED BY <2>1, <2>2
<1> QED BY <1>3, <1>5, <1>6 DEF Ahead

LEMMA HostStep == ASSUME Unhurried, PipeInv, Host PROVE PipeInv'
<1>1. PipeType /\ InPlace
  BY DEF PipeInv
<1>2. PipeType' /\ InPlace' /\ Single' /\ AllReady' /\ Awaited'
  BY <1>1, HostType, HostInPlace, HostSingle, HostAllReady, HostAwaited
<1>3. Current' /\ Recorded' /\ Counted' /\ Quiet' /\ Ahead'
  BY HostCurrent, HostRecorded, HostCounted, HostQuiet, HostAhead
<1> QED BY <1>2, <1>3 DEF PipeInv

-----------------------------------------------------------------------------
(* The theorem.                                                            *)

LEMMA InitInv == PipeInit => PipeInv
<1> SUFFICES ASSUME PipeInit PROVE PipeInv
  OBVIOUS
<1>1. PipeType
  BY InitType
<1>2. AllIdle /\ next = "next" /\ batch = 0 /\ copied = {} /\ \A b \in Devices : ~busy[b]
  BY DEF PipeInit, AllIdle, Idle
<1>3. /\ \A b, p, s, c, k : ~Computing(b, p, s, c, k)
      /\ \A b, p, s, m, c, k : ~Copying(b, p, s, m, c, k)
  BY <1>2, NoOps
<1>4. ~AtInputs
  BY <1>2 DEF AtInputs
<1>5. InPlace /\ Single /\ AllReady /\ Awaited
  BY <1>2, <1>3, <1>4 DEF InPlace, Single, AllReady, Awaited
<1>6. Current /\ Recorded /\ Quiet /\ Ahead
  BY <1>2, <1>3, <1>4 DEF Current, Recorded, Quiet, Ahead
<1>7. Counted
  <2> SUFFICES ASSUME NEW b \in Devices, NEW c \in Copies
               PROVE  recorded[<<b, c>>] = reached[<<b, c>>] + Cardinality(Records(b, c))
    BY DEF Counted
  <2>1. Records(b, c) = {}
    BY <1>2 DEF AllIdle, Idle, Records, Recording, Pending
  <2>2. recorded[<<b, c>>] = 0 /\ reached[<<b, c>>] = 0
    BY DEF PipeInit, Devices
  <2> QED BY <2>1, <2>2, FS_EmptySet
<1> QED BY <1>1, <1>5, <1>6, <1>7 DEF PipeInv

\* The operation at the head of a stream waits for nothing: its inputs are there.
LEMMA InvComputes == PipeInv => ComputesOwnInputs
<1> SUFFICES ASSUME PipeInv, NEW b \in Devices, busy[b],
                    NEW m \in DOMAIN Split(Head(stream[b]).s).inputs
             PROVE  slot[<<Head(stream[b]).s, m, Head(stream[b]).c>>] = Head(stream[b]).k
  BY DEF ComputesOwnInputs
<1>1. PipeType /\ InPlace /\ AllReady /\ StreamType
  BY DEF PipeInv, PipeType
<1>2. PICK s, c, k : Computing(b, 1, s, c, k)
  BY <1>1 DEF InPlace
<1>3. stream[b] # <<>>
  BY <1>1, <1>2, LenProperties, EmptySeq DEF Computing, Pending, StreamType
<1>4. Head(stream[b]) = ComputeOp(s, c, k)
  BY <1>1, <1>2, <1>3, HeadOp DEF Computing
<1>5. Head(stream[b]).s = s /\ Head(stream[b]).c = c /\ Head(stream[b]).k = k
  BY <1>4 DEF ComputeOp
<1>6. Ready(b, 1, s, m, c, k)
  BY <1>1, <1>2, <1>5 DEF AllReady, Inputs
<1>7. \A q : (\E t, n, e, l : Copying(b, q, t, n, e, l)) \/ (\E t, n, l : Awaiting(b, q, t, n, l))
                => ~(q < 1)
  BY <1>1, LenProperties DEF Copying, Awaiting, Pending, StreamType
<1>8. slot[<<s, m, c>>] = k
  BY ONLY <1>6, <1>7 DEF Ready
<1> QED BY <1>5, <1>8

\* From the start of a computation to its end, every input of it holds the data
\* of its batch: ggml_backend_sched never lets a copy be written while a device
\* may still read it, provided the batches are unhurried.
THEOREM DevicesComputeOwnInputs ==
    ASSUME Unhurried PROVE PipeSpec => []ComputesOwnInputs
<1>1. PipeInit => PipeInv
  BY InitInv
<1>2. PipeInv /\ [PipeNext]_pipevars => PipeInv'
  <2> SUFFICES ASSUME PipeInv, [PipeNext]_pipevars PROVE PipeInv'
    OBVIOUS
  <2>1. CASE Host
    BY <2>1, HostStep
  <2>2. CASE \E b \in Devices : Device(b)
    BY <2>2, DeviceStep
  <2>3. CASE UNCHANGED pipevars
    <3>1. /\ UNCHANGED <<setup, cur_copy, i, j, next, batch, stream, busy, recorded, reached,
                         copied, slot, hidden>>
      BY <2>3 DEF pipevars
    <3>2. SameOps
      BY <3>1, NothingQueued
    <3>3. /\ NSplits' = NSplits /\ Splits' = Splits /\ Devices' = Devices /\ Backends' = Backends
          /\ Copies' = Copies /\ HasEvents' = HasEvents
          /\ \A s : Split(s)' = Split(s) /\ Inputs(s)' = Inputs(s) /\ Slots(s)' = Slots(s)
          /\ \A b : Op(b)' = Op(b)
          /\ \A s, m : Async(s, m)' = Async(s, m)
      BY <3>1, Static
    <3>4. /\ \A s, k : Early(s, k)' <=> Early(s, k)
          /\ \A s, m, k : Before(s, m, k)' <=> Before(s, m, k)
          /\ \A c, k : Recent(c, k)' <=> Recent(c, k)
          /\ AtInputs' <=> AtInputs
          /\ Here' = Here /\ (Peers' <=> Peers)
      BY <3>1, HostSame
    <3>5. PipeType'
      BY <3>1, <3>3 DEF PipeInv, PipeType, StreamType, Streams
    <3>6. InPlace'
      BY <3>1, <3>2, <3>3, <3>4 DEF PipeInv, InPlace, SameOps
    <3>7. Single' /\ Awaited'
      BY <3>2, <3>3 DEF PipeInv, Single, Awaited, SameOps
    <3>8. AllReady'
      BY <3>1, <3>2, <3>3, <3>4 DEF PipeInv, AllReady, Ready, Given, SameOps
    <3>9. Current'
      BY <3>1, <3>2, <3>4 DEF PipeInv, Current, Latest, Fresh, SameOps
    <3>10. Recorded'
      BY <3>1, <3>2, <3>3 DEF PipeInv, Recorded, SameOps
    <3>11. Counted'
      BY <3>1, <3>2, <3>3, ZenonT(60) DEF PipeInv, Counted, Records, Pending, SameOps
    <3>12. Quiet' /\ Ahead'
      BY <3>1, <3>2, <3>3, <3>4 DEF PipeInv, Quiet, Ahead, AllIdle, Idle, SameOps
    <3> QED BY <3>5, <3>6, <3>7, <3>8, <3>9, <3>10, <3>11, <3>12 DEF PipeInv
  <2> QED BY <2>1, <2>2, <2>3 DEF PipeNext, Ended
<1>3. PipeInv => ComputesOwnInputs
  BY InvComputes
<1> QED BY <1>1, <1>2, <1>3, PTL DEF PipeSpec

-----------------------------------------------------------------------------
(***************************************************************************)
(* A client of the RPC server reads what it wrote, and the server keeps no *)
(* memory of a connection that has ended: for any number of clients, any   *)
(* addresses and values, and however clients come, wait and go.            *)
(***************************************************************************)

Buffer  == [addr : Addrs, value : Values \cup {Nobody}]
Request == [op : {"alloc", "ask"}] \cup [op : {"free", "get"}, buf : Buffer]
             \cup [op : {"set"}, buf : Buffer, value : Values]
Reply   == {None, Error, Ok} \cup [op : {"ok"}, addr : Addrs \cup {Nobody}]
             \cup [op : {"ok"}, value : Values \cup {Nobody}]

ClientType ==
    /\ request \in Seq(Request \cup {None}) /\ answer \in Seq(Reply)
    /\ Len(answer) = Len(request)
    /\ sock \in [Clients -> 0 .. Len(request)]
    /\ bufs \in [Clients -> SUBSET Buffer]
    /\ waiting \in [Clients -> Request \cup {None}]

ServerType ==
    /\ backlog \in Seq(1 .. Len(request)) /\ serving \in 0 .. Len(request)
    /\ buffers \in SUBSET Addrs /\ heap \in [buffers -> Values \cup {Nobody}]
    /\ serving = 0 => buffers = {}

\* No two clients share a connection.
Apart == \A c, d \in Clients : sock[c] # 0 /\ c # d => sock[c] # sock[d]

Asked(c) ==
    IF sock[c] = 0 THEN waiting[c] = None /\ bufs[c] = {}
    ELSE /\ sock[c] \in up
         /\ request[sock[c]] \in {None, waiting[c]}
         /\ request[sock[c]] # None => answer[sock[c]] = None
         /\ waiting[c] = None => answer[sock[c]] = None
         /\ answer[sock[c]] # None \/ bufs[c] # {} => serving = sock[c]

\* What a client calls with is a buffer of its own.
Own(c) ==
    /\ waiting[c].op \in {"free", "get", "set"} => waiting[c].buf \in bufs[c]
    /\ \A b1, b2 \in bufs[c] : b1.addr = b2.addr => b1 = b2

Replied(c) == sock[c] # 0 /\ answer[sock[c]] # None

\* Its buffers are there with the values it has written, but for the one that
\* the server has already freed or written for the call it waits for.
Holds(c) ==
    \A b \in bufs[c] :
        \/ b.addr \in buffers /\ heap[b.addr] = b.value
        \/ Replied(c) /\ waiting[c].op \in {"free", "set"} /\ waiting[c].buf = b

\* What the server has answered is true of its memory.
Truthful(c) ==
    LET m == waiting[c]
        r == answer[sock[c]]
    IN  Replied(c) =>
        /\ m.op = "alloc" =>
             \E a \in Addrs \cup {Nobody} :
                /\ r = [op |-> "ok", addr |-> a]
                /\ a # Nobody => /\ a \in buffers /\ heap[a] = Nobody
                                 /\ \A b \in bufs[c] : b.addr # a
        /\ m.op = "set" => m.buf.addr \in buffers /\ heap[m.buf.addr] = m.value
        /\ m.op = "get" => r = [op |-> "ok", value |-> m.buf.value]
        /\ r # Error

Mine(c) == Asked(c) /\ Own(c) /\ Holds(c) /\ Truthful(c)

RInv == ClientType /\ ServerType /\ Apart /\ (\A c \in Clients : Mine(c))

----------------------------------------------------------------------------

\* What does not touch a client's connection leaves what it holds: either the
\* server's memory is as before, or another connection is served.
LEMMA Frame ==
    ASSUME NEW d \in Clients, Mine(d),
           sock'[d] = sock[d], waiting'[d] = waiting[d], bufs'[d] = bufs[d],
           sock[d] # 0 => /\ sock[d] \in up'
                          /\ request'[sock[d]] = request[sock[d]]
                          /\ answer'[sock[d]] = answer[sock[d]],
           \/ sock[d] = 0 \/ sock[d] # serving
           \/ serving' = serving /\ buffers' = buffers /\ heap' = heap
    PROVE  Mine(d)'
<1>1. Asked(d)'
  BY DEF Mine, Asked
<1>2. Own(d)'
  BY DEF Mine, Own
<1>3. CASE sock[d] = 0 \/ sock[d] # serving
  <2>1. bufs[d] = {} /\ ~Replied(d)
    BY <1>3 DEF Mine, Asked, Replied
  <2>2. bufs'[d] = {} /\ ~Replied(d)'
    BY <2>1 DEF Replied
  <2> QED BY <1>1, <1>2, <2>2 DEF Mine, Holds, Truthful
<1>4. CASE serving' = serving /\ buffers' = buffers /\ heap' = heap
  <2>1. Replied(d)' = Replied(d)
    BY DEF Replied
  <2>2. Replied(d) => answer'[sock'[d]] = answer[sock[d]]
    BY DEF Replied
  <2>3. Holds(d)'
    BY <1>4, <2>1 DEF Mine, Holds
  <2>4. Truthful(d)'
    BY <1>4, <2>1, <2>2 DEF Mine, Truthful
  <2> QED BY <1>1, <1>2, <2>3, <2>4 DEF Mine
<1> QED BY <1>3, <1>4

LEMMA RpcStart == RpcInit => RInv
<1> SUFFICES ASSUME RpcInit PROVE RInv
  OBVIOUS
<1> USE DEF RpcInit, NobodyConnected
<1>1. ClientType
  BY DEF ClientType
<1>2. ServerType
  BY DEF ServerType
<1>3. Apart
  BY DEF Apart
<1>4. ASSUME NEW c \in Clients PROVE Mine(c)
  BY DEF Mine, Asked, Own, Holds, Truthful, Replied, None
<1> QED BY <1>1, <1>2, <1>3, <1>4 DEF RInv

----------------------------------------------------------------------------
(* Steps of a client.                                                      *)

LEMMA CallTyped ==
    ASSUME RInv, NEW c \in Clients, NEW m \in Calls(c)
    PROVE  /\ m \in Request /\ m # None
           /\ m.op \in {"free", "get", "set"} => m.buf \in bufs[c]
  BY DEF RInv, ClientType, Calls, Request, Buffer, None

LEMMA CallKeeps ==
    ASSUME RInv, NEW c \in Clients, NEW m \in Calls(c), Call(c, m)
    PROVE  RInv'
<1>1. /\ m \in Request /\ m # None
      /\ m.op \in {"free", "get", "set"} => m.buf \in bufs[c]
  BY CallTyped
<1> HIDE DEF Request
<1> USE DEF RInv, server
<1>2. waiting[c] = None /\ UNCHANGED <<bufs, serving, buffers, heap>>
  BY DEF Call
<1>3. waiting' = [waiting EXCEPT ![c] = m] /\ waiting'[c] = m
  BY DEF Call, ClientType
<1>4. Mine(c)
  OBVIOUS
<1>5. CASE sock[c] # 0
  <2>1. /\ request' = [request EXCEPT ![sock[c]] = m]
        /\ UNCHANGED <<sock, up, backlog, answer>>
    BY <1>5 DEF Call
  <2>2. /\ request' \in Seq(Request \cup {None}) /\ Len(request') = Len(request)
        /\ request'[sock[c]] = m
        /\ \A k \in 1 .. Len(request) : k # sock[c] => request'[k] = request[k]
    BY <1>1, <1>5, <2>1 DEF ClientType
  <2>3. ClientType' /\ ServerType' /\ Apart'
    BY <1>1, <1>2, <1>3, <2>1, <2>2 DEF ClientType, ServerType, Apart
  <2>4. ASSUME NEW d \in Clients, d # c PROVE Mine(d)'
    <3>1. sock[d] # 0 => sock[d] \in up /\ sock[d] # sock[c] /\ sock[d] \in 1 .. Len(request)
      BY <2>4 DEF Apart, Mine, Asked, ClientType
    <3>2. waiting'[d] = waiting[d]
      BY <1>3, <2>4 DEF ClientType
    <3> QED BY <1>2, <2>1, <2>2, <3>1, <3>2, Frame
  <2>5. answer[sock[c]] = None /\ ~Replied(c)'
    BY <1>2, <1>4, <1>5, <2>1 DEF Mine, Asked, Replied
  <2>6. Asked(c)'
    BY <1>2, <1>3, <1>4, <1>5, <2>1, <2>2, <2>5 DEF Mine, Asked
  <2>7. Own(c)'
    BY <1>1, <1>2, <1>3, <1>4 DEF Mine, Own
  <2>8. Holds(c)' /\ Truthful(c)'
    BY <1>2, <1>4, <1>5, <2>1, <2>5 DEF Mine, Holds, Truthful, Replied
  <2> QED BY <2>3, <2>4, <2>6, <2>7, <2>8 DEF Mine
<1>6. CASE sock[c] = 0
  <2> DEFINE new == Len(request) + 1
  <2>1. /\ sock' = [sock EXCEPT ![c] = new]
        /\ up' = up \cup {new} /\ backlog' = Append(backlog, new)
        /\ request' = Append(request, m) /\ answer' = Append(answer, None)
    BY <1>6 DEF Call
  <2>2. /\ request' \in Seq(Request \cup {None}) /\ Len(request') = new /\ request'[new] = m
        /\ \A k \in 1 .. Len(request) : request'[k] = request[k]
    BY <1>1, <2>1, AppendProperties DEF ClientType
  <2>3. /\ answer' \in Seq(Reply) /\ Len(answer') = new /\ answer'[new] = None
        /\ \A k \in 1 .. Len(request) : answer'[k] = answer[k]
    <3>1. None \in Reply /\ answer \in Seq(Reply) /\ Len(answer) = Len(request)
      BY DEF Reply, ClientType
    <3> QED BY <2>1, <3>1, AppendProperties
  <2>4. Len(request) \in Nat
    BY DEF ClientType
  <2>5. sock'[c] = new /\ \A d \in Clients \ {c} : sock'[d] = sock[d]
    BY <2>1 DEF ClientType
  <2>6. ClientType'
    BY <1>1, <1>2, <1>3, <2>1, <2>2, <2>3, <2>4 DEF ClientType
  <2>7. ServerType'
    <3>1. backlog \in Seq(1 .. new)
      BY <2>4 DEF ServerType
    <3>2. backlog' \in Seq(1 .. new)
      BY <2>1, <2>4, <3>1, AppendProperties
    <3> QED BY <1>2, <2>2, <2>4, <3>2 DEF ServerType
  <2>8. Apart'
    BY <2>4, <2>5 DEF Apart, ClientType
  <2>9. ASSUME NEW d \in Clients, d # c PROVE Mine(d)'
    <3>1. sock[d] # 0 => sock[d] \in up /\ sock[d] \in 1 .. Len(request)
      BY DEF Mine, Asked, ClientType
    <3>2. waiting'[d] = waiting[d]
      BY <1>3, <2>9 DEF ClientType
    <3> QED BY <1>2, <2>1, <2>2, <2>3, <2>5, <2>9, <3>1, <3>2, Frame
  <2>10. bufs'[c] = {} /\ ~Replied(c)'
    BY <1>2, <1>4, <1>6, <2>3, <2>5 DEF Mine, Asked, Replied
  <2>11. Asked(c)'
    BY <1>3, <2>1, <2>2, <2>3, <2>4, <2>5, <2>10 DEF Asked
  <2>12. Own(c)'
    BY <1>1, <1>2, <1>3, <1>4 DEF Mine, Own
  <2>13. Holds(c)' /\ Truthful(c)'
    BY <2>10 DEF Holds, Truthful
  <2> QED BY <2>6, <2>7, <2>8, <2>9, <2>11, <2>12, <2>13 DEF Mine
<1> QED BY <1>5, <1>6

\* A client that has gone, or whose buffers are all freed, has no connection.
LEMMA LetGo ==
    ASSUME NEW c \in Clients,
           sock'[c] = 0, waiting'[c] = None, bufs'[c] = {}
    PROVE  Mine(c)'
  BY DEF Mine, Asked, Own, Holds, Truthful, Replied, None

LEMMA ExitsKeeps ==
    ASSUME RInv, NEW c \in Clients, Exits(c), UNCHANGED <<request, server>>,
           answer' \in Seq(Reply), Len(answer') = Len(answer),
           \A k \in 1 .. Len(request) : k # sock[c] => answer'[k] = answer[k]
    PROVE  RInv'
<1> USE DEF RInv, server
<1>1. /\ sock' = [sock EXCEPT ![c] = 0] /\ up' = up \ {sock[c]}
      /\ bufs' = [bufs EXCEPT ![c] = {}] /\ waiting' = [waiting EXCEPT ![c] = None]
  BY DEF Exits
<1>2. sock'[c] = 0 /\ bufs'[c] = {} /\ waiting'[c] = None
  BY <1>1 DEF ClientType
<1>3. ClientType'
  BY <1>1 DEF ClientType
<1>4. ServerType' /\ Apart'
  BY <1>1 DEF ServerType, Apart, ClientType
<1>5. ASSUME NEW d \in Clients, d # c PROVE Mine(d)'
  <2>1. sock'[d] = sock[d] /\ bufs'[d] = bufs[d] /\ waiting'[d] = waiting[d]
    BY <1>1, <1>5 DEF ClientType
  <2>2. sock[d] # 0 => sock[d] \in up' /\ sock[d] # sock[c] /\ sock[d] \in 1 .. Len(request)
    BY <1>1, <1>5 DEF Apart, Mine, Asked, ClientType
  <2> QED BY <2>1, <2>2, Frame
<1> QED BY <1>2, <1>3, <1>4, <1>5, LetGo

\* The call a client waits for, and what kind of record it is.
LEMMA Waits ==
    ASSUME RInv, NEW c \in Clients, waiting[c] # None
    PROVE  /\ sock[c] # 0 /\ sock[c] \in 1 .. Len(request) /\ waiting[c] \in Request
           /\ waiting[c].op \in {"alloc", "ask", "free", "get", "set"}
           /\ waiting[c].op \in {"free", "get", "set"} =>
                waiting[c].buf \in Buffer /\ waiting[c].buf \in bufs[c]
           /\ waiting[c].op = "set" => waiting[c].value \in Values
<1>1. waiting[c] \in Request /\ sock[c] \in 0 .. Len(request)
  BY DEF RInv, ClientType
<1>2. sock[c] # 0 /\ Own(c)
  BY DEF RInv, Mine, Asked
<1>3. /\ waiting[c].op \in {"alloc", "ask", "free", "get", "set"}
      /\ waiting[c].op \in {"free", "get", "set"} => waiting[c].buf \in Buffer
      /\ waiting[c].op = "set" => waiting[c].value \in Values
  <2> HIDE DEF Buffer
  <2> QED BY <1>1 DEF Request
<1> QED BY <1>1, <1>2, <1>3 DEF Own

LEMMA ReceiveKeeps ==
    ASSUME RInv, NEW c \in Clients, Receive(c)
    PROVE  RInv'
<1> USE DEF RInv, server
<1>1. /\ waiting[c] # None /\ answer[sock[c]] # None
      /\ answer' = [answer EXCEPT ![sock[c]] = None]
      /\ UNCHANGED <<request, server>>
  BY DEF Receive
<1>2. /\ sock[c] # 0 /\ sock[c] \in 1 .. Len(request) /\ waiting[c] \in Request
      /\ waiting[c].op \in {"alloc", "ask", "free", "get", "set"}
      /\ waiting[c].op \in {"free", "get", "set"} =>
           waiting[c].buf \in Buffer /\ waiting[c].buf \in bufs[c]
      /\ waiting[c].op = "set" => waiting[c].value \in Values
  BY <1>1, Waits
<1>3. /\ answer' \in Seq(Reply) /\ Len(answer') = Len(answer) /\ answer'[sock[c]] = None
      /\ \A k \in 1 .. Len(request) : k # sock[c] => answer'[k] = answer[k]
  <2>1. None \in Reply /\ answer \in Seq(Reply) /\ Len(answer) = Len(request)
    BY DEF Reply, ClientType
  <2> QED BY <1>1, <1>2, <2>1
<1>4. Replied(c) /\ Mine(c) /\ serving = sock[c]
  BY <1>1, <1>2 DEF Replied, Mine, Asked
<1>5. answer[sock[c]] # Error
  BY <1>4 DEF Mine, Truthful
<1> DEFINE B == After(c, waiting[c], answer[sock[c]])
<1>6. /\ bufs' = [bufs EXCEPT ![c] = B]
      /\ waiting' = [waiting EXCEPT ![c] = None]
      /\ IF Kept(B) THEN UNCHANGED <<sock, up>>
         ELSE sock' = [sock EXCEPT ![c] = 0] /\ up' = up \ {sock[c]}
  BY <1>5 DEF Receive
\* What it has afterwards is there, with the values it knows.
<1>7. /\ B \in SUBSET Buffer
      /\ \A b1, b2 \in B : b1.addr = b2.addr => b1 = b2
      /\ \A b \in B : b.addr \in buffers /\ heap[b.addr] = b.value
  <2>1. bufs[c] \in SUBSET Buffer /\ \A b1, b2 \in bufs[c] : b1.addr = b2.addr => b1 = b2
    BY <1>4 DEF Mine, Own, ClientType
  <2>2. \A b \in bufs[c] :
          \/ b.addr \in buffers /\ heap[b.addr] = b.value
          \/ waiting[c].op \in {"free", "set"} /\ waiting[c].buf = b
    BY <1>4 DEF Mine, Holds
  <2>3. CASE waiting[c].op = "alloc"
    <3>1. PICK a \in Addrs \cup {Nobody} :
            /\ answer[sock[c]] = [op |-> "ok", addr |-> a]
            /\ a # Nobody => /\ a \in buffers /\ heap[a] = Nobody
                             /\ \A b \in bufs[c] : b.addr # a
      BY <1>4, <2>3 DEF Mine, Truthful
    <3>2. B = IF a = Nobody THEN bufs[c] ELSE bufs[c] \cup {[addr |-> a, value |-> Nobody]}
      BY <2>3, <3>1 DEF After
    <3>3. a # Nobody => [addr |-> a, value |-> Nobody] \in Buffer
      BY DEF Buffer
    <3> HIDE DEF B, Buffer
    <3> QED BY <2>1, <2>2, <2>3, <3>1, <3>2, <3>3
  <2>4. CASE waiting[c].op = "free"
    <3>1. B = bufs[c] \ {waiting[c].buf}
      BY <2>4 DEF After
    <3> HIDE DEF B, Buffer
    <3> QED BY <2>1, <2>2, <2>4, <3>1
  <2>5. CASE waiting[c].op = "set"
    <3> DEFINE m == waiting[c]
               n == [m.buf EXCEPT !.value = m.value]
    <3>1. B = (bufs[c] \ {m.buf}) \cup {n}
      BY <2>5 DEF After
    <3>2. n \in Buffer /\ n.addr = m.buf.addr /\ n.value = m.value
      BY <1>2, <2>5 DEF Buffer
    <3>3. n.addr \in buffers /\ heap[n.addr] = n.value
      BY <1>4, <2>5, <3>2 DEF Mine, Truthful
    <3>4. \A b \in bufs[c] \ {m.buf} : b.addr \in buffers /\ heap[b.addr] = b.value
      BY <2>2
    <3>5. \A b \in bufs[c] \ {m.buf} : b.addr # n.addr
      BY <1>2, <2>1, <2>5, <3>2
    <3> HIDE DEF B, Buffer, n
    <3> QED BY <2>1, <3>1, <3>2, <3>3, <3>4, <3>5
  <2>6. CASE waiting[c].op \in {"get", "ask"}
    <3>1. B = bufs[c]
      BY <2>6 DEF After
    <3> HIDE DEF B, Buffer
    <3> QED BY <2>1, <2>2, <2>6, <3>1
  <2> QED BY <1>2, <2>3, <2>4, <2>5, <2>6
<1> HIDE DEF B
<1>8. bufs'[c] = B /\ waiting'[c] = None
  BY <1>6 DEF ClientType
<1>9. /\ sock' \in [Clients -> 0 .. Len(request)]
      /\ sock'[c] = IF Kept(B) THEN sock[c] ELSE 0
      /\ \A d \in Clients \ {c} : sock'[d] = sock[d]
  BY <1>6 DEF ClientType
<1>10. ClientType'
  BY <1>1, <1>3, <1>6, <1>7, <1>9 DEF ClientType
<1>11. ServerType'
  BY <1>1 DEF ServerType
<1>12. Apart'
  BY <1>9 DEF Apart, ClientType
<1>13. ASSUME NEW d \in Clients, d # c PROVE Mine(d)'
  <2>1. bufs'[d] = bufs[d] /\ waiting'[d] = waiting[d]
    BY <1>6, <1>13 DEF ClientType
  <2>2. sock[d] # 0 => sock[d] \in up /\ sock[d] # sock[c] /\ sock[d] \in 1 .. Len(request)
    BY <1>13 DEF Apart, Mine, Asked, ClientType
  <2>3. sock[d] # 0 => sock[d] \in up'
    BY <1>6, <2>2
  <2> QED BY <1>1, <1>3, <1>9, <1>13, <2>1, <2>2, <2>3, Frame
<1>14. Mine(c)'
  <2>1. CASE ~Kept(B)
    BY <1>8, <1>9, <2>1, LetGo DEF Kept
  <2>2. CASE Kept(B)
    <3>1. sock'[c] = sock[c] /\ up' = up
      BY <1>6, <1>9, <2>2
    <3>2. ~Replied(c)'
      BY <1>3, <3>1 DEF Replied
    <3>3. request[sock[c]] = None
      BY <1>1, <1>4 DEF Mine, Asked
    <3>4. Asked(c)'
      BY <1>1, <1>2, <1>3, <1>4, <1>8, <3>1, <3>3 DEF Mine, Asked
    <3>5. Own(c)'
      BY <1>7, <1>8 DEF Own, None
    <3> QED BY <1>1, <1>7, <1>8, <3>2, <3>4, <3>5 DEF Mine, Holds, Truthful
  <2> QED BY <2>1, <2>2
<1> QED BY <1>10, <1>11, <1>12, <1>13, <1>14

LEMMA ClientKeeps ==
    ASSUME RInv, NEW c \in Clients, Client(c)
    PROVE  RInv'
<1>1. CASE \E m \in Calls(c) : Call(c, m)
  BY <1>1, CallKeeps
<1>2. CASE Receive(c)
  BY <1>2, ReceiveKeeps
<1>3. CASE Exit(c)
  <2>1. Exits(c) /\ UNCHANGED <<request, answer, server>>
    BY <1>3 DEF Exit
  <2> QED BY <2>1, ExitsKeeps DEF RInv, ClientType
<1> QED BY <1>1, <1>2, <1>3 DEF Client

----------------------------------------------------------------------------
(* Steps of the server.                                                    *)

\* Taking a connection, and ending one that its client has closed: no client
\* that is served has anything to lose.
LEMMA ConnectKeeps == RInv /\ (Accept \/ HangUp) => RInv'
<1> SUFFICES ASSUME RInv, Accept \/ HangUp PROVE RInv'
  OBVIOUS
<1> USE DEF RInv
<1>1. UNCHANGED <<calls, sock, bufs, waiting, up, request, answer>>
  BY DEF Accept, HangUp
<1>2. ClientType' /\ Apart'
  BY <1>1 DEF ClientType, Apart
<1>3. ServerType'
  <2>1. CASE Accept
    BY <2>1 DEF Accept, ServerType
  <2>2. CASE HangUp
    BY <2>2 DEF HangUp, EndService, FreedAll, ServerType
  <2> QED BY <2>1, <2>2
<1>4. ASSUME NEW d \in Clients PROVE Mine(d)'
  <2>1. sock[d] = 0 \/ (sock[d] # serving /\ sock[d] \in up)
    BY DEF Accept, HangUp, Closed, Mine, Asked
  <2> QED BY <1>1, <2>1, Frame
<1> QED BY <1>2, <1>3, <1>4

\* An answer to the connection that is served touches its client only; what is
\* left to show is what that client, if it still waits, is told.
LEMMA AnswerKeeps ==
    ASSUME RInv, NEW r \in Reply, serving # 0, request[serving] # None, Answer(r), ServerType',
           \A c \in Clients : sock[c] = serving /\ waiting[c] = request[serving] =>
               (serving' = serving /\ Holds(c)' /\ Truthful(c)')
    PROVE  RInv'
<1> USE DEF RInv
<1>1. /\ request' = [request EXCEPT ![serving] = None]
      /\ answer' = [answer EXCEPT ![serving] = r]
      /\ UNCHANGED <<calls, sock, bufs, waiting, up, backlog>>
  BY DEF Answer
<1>2. serving \in 1 .. Len(request)
  BY DEF ServerType
<1>3. /\ request' \in Seq(Request \cup {None}) /\ Len(request') = Len(request)
      /\ request'[serving] = None
      /\ \A k \in 1 .. Len(request) : k # serving => request'[k] = request[k]
  <2>1. request \in Seq(Request \cup {None})
    BY DEF ClientType
  <2> HIDE DEF Request
  <2> QED BY <1>1, <1>2, <2>1
<1>4. /\ answer' \in Seq(Reply) /\ Len(answer') = Len(request)
      /\ \A k \in 1 .. Len(request) : k # serving => answer'[k] = answer[k]
  <2>1. answer \in Seq(Reply) /\ Len(answer) = Len(request)
    BY DEF ClientType
  <2> HIDE DEF Reply
  <2> QED BY <1>1, <1>2, <2>1
<1>5. ClientType' /\ Apart'
  BY <1>1, <1>3, <1>4 DEF ClientType, Apart
<1>6. ASSUME NEW c \in Clients PROVE Mine(c)'
  <2>1. CASE sock[c] # serving
    <3>1. sock[c] # 0 => sock[c] \in up /\ sock[c] \in 1 .. Len(request)
      BY DEF Mine, Asked, ClientType
    <3> QED BY <1>1, <1>3, <1>4, <2>1, <3>1, Frame
  <2>2. CASE sock[c] = serving
    <3>1. Asked(c) /\ Own(c)
      BY DEF Mine
    <3>2. waiting[c] = request[serving]
      BY <2>2, <3>1 DEF Asked
    <3>3. Asked(c)'
      BY <1>1, <1>3, <2>2, <3>1, <3>2 DEF Asked
    <3> QED BY <1>1, <2>2, <3>1, <3>2, <3>3 DEF Mine, Own
  <2> QED BY <2>1, <2>2
<1> QED BY <1>5, <1>6
\* A client that is served has all its buffers as it knows them.
LEMMA Served ==
    ASSUME RInv, NEW c \in Clients, serving # 0, request[serving] # None,
           sock[c] = serving, waiting[c] = request[serving]
    PROVE  /\ \A b \in bufs[c] : b.addr \in buffers /\ heap[b.addr] = b.value
           /\ waiting[c] # None /\ Own(c)
  BY DEF RInv, Mine, Asked, Holds, Replied

\* What the server reads is a request.
LEMMA Reads ==
    ASSUME RInv, NEW op \in {"alloc", "ask", "free", "get", "set"}, Serves(op)
    PROVE  /\ serving \in 1 .. Len(request) /\ request[serving] # None
           /\ request[serving] \in Request /\ request[serving].op = op
           /\ op \in {"free", "get", "set"} => request[serving].buf \in Buffer
           /\ op = "set" => request[serving].value \in Values
<1>1. serving \in 1 .. Len(request) /\ request[serving].op = op
  BY DEF RInv, ServerType, Serves
<1>2. request[serving] \in Request \cup {None}
  BY <1>1 DEF RInv, ClientType
<1>3. request[serving] # None
  BY <1>1 DEF None
<1>4. request[serving] \in Request
  BY <1>2, <1>3
<1>5. /\ op \in {"free", "get", "set"} => request[serving].buf \in Buffer
      /\ op = "set" => request[serving].value \in Values
  <2> HIDE DEF Buffer
  <2> QED BY <1>1, <1>4 DEF Request
<1> QED BY <1>1, <1>3, <1>4, <1>5

LEMMA AllocKeeps == RInv /\ AllocBuffer => RInv'
<1> SUFFICES ASSUME RInv, AllocBuffer PROVE RInv'
  OBVIOUS
<1>1. Serves("alloc") /\ serving' = serving
  BY DEF AllocBuffer
<1>2. serving # 0 /\ request[serving] # None /\ request[serving].op = "alloc"
  BY <1>1, Reads
<1>3. ASSUME NEW a \in Addrs \ DOMAIN heap,
             heap' = [x \in DOMAIN heap \cup {a} |-> IF x = a THEN Nobody ELSE heap[x]],
             buffers' = buffers \cup {a},
             Answer([op |-> "ok", addr |-> a])
      PROVE  RInv'
  <2> DEFINE r == [op |-> "ok", addr |-> a]
  <2>1. r \in Reply
    BY DEF Reply
  <2>2. UNCHANGED <<bufs, sock, waiting>> /\ Len(request') = Len(request) /\ UNCHANGED backlog
    BY <1>3 DEF Answer, RInv, ClientType
  <2>3. ServerType'
    BY <1>1, <1>2, <1>3, <2>2 DEF RInv, ServerType
  <2>4. ASSUME NEW c \in Clients, sock[c] = serving, waiting[c] = request[serving]
        PROVE  Holds(c)' /\ Truthful(c)'
    <3>1. \A b \in bufs[c] : b.addr \in buffers /\ heap[b.addr] = b.value
      BY <1>2, <2>4, Served
    <3>2. DOMAIN heap = buffers
      BY DEF RInv, ServerType
    <3>3. \A b \in bufs[c] : b.addr \in buffers' /\ heap'[b.addr] = b.value /\ b.addr # a
      BY <1>3, <3>1, <3>2
    <3>4. a \in buffers' /\ heap'[a] = Nobody
      BY <1>3
    <3>5. answer'[sock[c]] = r
      BY <1>1, <1>3, <2>4, Reads DEF Answer, RInv, ClientType
    <3>6. r # Error /\ waiting[c].op = "alloc"
      BY <1>2, <2>4 DEF Error
    <3> QED BY <2>2, <3>3, <3>4, <3>5, <3>6 DEF Holds, Truthful
  <2> QED BY <1>1, <1>2, <1>3, <2>1, <2>3, <2>4, AnswerKeeps
<1>4. ASSUME UNCHANGED <<heap, buffers>>, Answer([op |-> "ok", addr |-> Nobody])
      PROVE  RInv'
  <2> DEFINE r == [op |-> "ok", addr |-> Nobody]
  <2>1. r \in Reply
    BY DEF Reply
  <2>2. UNCHANGED <<bufs, sock, waiting>> /\ Len(request') = Len(request) /\ UNCHANGED backlog
    BY <1>4 DEF Answer, RInv, ClientType
  <2>3. ServerType'
    BY <1>1, <1>4, <2>2 DEF RInv, ServerType
  <2>4. ASSUME NEW c \in Clients, sock[c] = serving, waiting[c] = request[serving]
        PROVE  Holds(c)' /\ Truthful(c)'
    <3>1. \A b \in bufs[c] : b.addr \in buffers /\ heap[b.addr] = b.value
      BY <1>2, <2>4, Served
    <3>2. answer'[sock[c]] = r
      BY <1>1, <1>4, <2>4, Reads DEF Answer, RInv, ClientType
    <3>3. r # Error /\ waiting[c].op = "alloc"
      BY <1>2, <2>4 DEF Error
    <3> QED BY <1>4, <2>2, <3>1, <3>2, <3>3 DEF Holds, Truthful
  <2> QED BY <1>1, <1>2, <1>4, <2>1, <2>3, <2>4, AnswerKeeps
<1> QED BY <1>3, <1>4 DEF AllocBuffer

\* A request for a buffer that is not of the connection ends it.  No client
\* that still waits has sent it.
LEMMA RefuseKeeps ==
    ASSUME RInv, NEW op \in {"free", "get", "set"}, Serves(op),
           Addr \notin buffers, Answer(Error), EndService
    PROVE  RInv'
<1>1. serving # 0 /\ request[serving] # None /\ request[serving].op = op
  BY Reads
<1>2. ServerType'
  BY DEF EndService, FreedAll, Answer, RInv, ServerType, ClientType
<1>3. ASSUME NEW c \in Clients, sock[c] = serving, waiting[c] = request[serving]
      PROVE  FALSE
  <2>1. waiting[c].buf \in bufs[c]
    BY <1>1, <1>3, Served DEF Own
  <2> QED BY <1>1, <1>3, <2>1, Served DEF Addr
<1>4. Error \in Reply
  BY DEF Reply
<1> QED BY <1>1, <1>2, <1>3, <1>4, AnswerKeeps

LEMMA FreeKeeps == RInv /\ FreeBuffer => RInv'
<1> SUFFICES ASSUME RInv, FreeBuffer PROVE RInv'
  OBVIOUS
<1>1. Serves("free")
  BY DEF FreeBuffer, OnBuffer
<1>2. serving # 0 /\ request[serving] # None /\ request[serving].op = "free"
  BY <1>1, Reads
<1>3. CASE Addr \notin buffers
  BY <1>1, <1>3, RefuseKeeps DEF FreeBuffer, OnBuffer
<1>4. CASE Addr \in buffers
  <2>1. /\ heap' = [a \in DOMAIN heap \ {Addr} |-> heap[a]] /\ buffers' = buffers \ {Addr}
        /\ Answer(Ok) /\ serving' = serving
    BY <1>4 DEF FreeBuffer, OnBuffer
  <2>2. UNCHANGED <<bufs, sock, waiting, backlog>> /\ Len(request') = Len(request)
    BY <2>1 DEF Answer, RInv, ClientType
  <2>3. ServerType'
    BY <1>2, <2>1, <2>2 DEF RInv, ServerType
  <2>4. ASSUME NEW c \in Clients, sock[c] = serving, waiting[c] = request[serving]
        PROVE  Holds(c)' /\ Truthful(c)'
    <3>1. /\ \A b \in bufs[c] : b.addr \in buffers /\ heap[b.addr] = b.value
          /\ Own(c)
      BY <1>2, <2>4, Served
    <3>2. answer'[sock[c]] = Ok
      BY <1>1, <2>1, <2>4, Reads DEF Answer, RInv, ClientType
    <3>3. Ok # Error /\ Ok # None /\ waiting[c].op = "free" /\ waiting[c].buf.addr = Addr
      BY <1>2, <2>4 DEF Error, Ok, None, Addr
    <3>4. Replied(c)'
      BY <1>2, <2>2, <2>4, <3>2, <3>3 DEF Replied
    <3>5. DOMAIN heap = buffers
      BY DEF RInv, ServerType
    <3>6. \A b \in bufs[c] : b # waiting[c].buf => b.addr \in buffers' /\ heap'[b.addr] = b.value
      BY <2>1, <3>1, <3>3, <3>5 DEF Own
    <3> QED BY <2>2, <3>2, <3>3, <3>4, <3>6 DEF Holds, Truthful
  <2>5. Ok \in Reply
    BY DEF Reply
  <2> QED BY <1>2, <2>1, <2>3, <2>4, <2>5, AnswerKeeps
<1> QED BY <1>3, <1>4

LEMMA SetKeeps == RInv /\ SetTensor => RInv'
<1> SUFFICES ASSUME RInv, SetTensor PROVE RInv'
  OBVIOUS
<1>1. Serves("set")
  BY DEF SetTensor, OnBuffer
<1>2. /\ serving # 0 /\ request[serving] # None /\ request[serving].op = "set"
      /\ request[serving].value \in Values
  BY <1>1, Reads
<1>3. CASE Addr \notin buffers
  BY <1>1, <1>3, RefuseKeeps DEF SetTensor, OnBuffer
<1>4. CASE Addr \in buffers
  <2>1. /\ heap' = [heap EXCEPT ![Addr] = request[serving].value] /\ buffers' = buffers
        /\ Answer(Ok) /\ serving' = serving
    BY <1>4 DEF SetTensor, OnBuffer
  <2>2. UNCHANGED <<bufs, sock, waiting, backlog>> /\ Len(request') = Len(request)
    BY <2>1 DEF Answer, RInv, ClientType
  <2>3. ServerType'
    BY <1>2, <2>1, <2>2 DEF RInv, ServerType
  <2>4. ASSUME NEW c \in Clients, sock[c] = serving, waiting[c] = request[serving]
        PROVE  Holds(c)' /\ Truthful(c)'
    <3>1. /\ \A b \in bufs[c] : b.addr \in buffers /\ heap[b.addr] = b.value
          /\ Own(c)
      BY <1>2, <2>4, Served
    <3>2. answer'[sock[c]] = Ok
      BY <1>1, <2>1, <2>4, Reads DEF Answer, RInv, ClientType
    <3>3. /\ Ok # Error /\ Ok # None /\ waiting[c].op = "set" /\ waiting[c].buf.addr = Addr
          /\ waiting[c].value = request[serving].value
      BY <1>2, <2>4 DEF Error, Ok, None, Addr
    <3>4. Replied(c)'
      BY <1>2, <2>2, <2>4, <3>2, <3>3 DEF Replied
    <3>5. DOMAIN heap = buffers
      BY DEF RInv, ServerType
    <3>6. \A b \in bufs[c] : b # waiting[c].buf => b.addr \in buffers' /\ heap'[b.addr] = b.value
      BY <2>1, <3>1, <3>3, <3>5 DEF Own
    <3>7. Addr \in buffers' /\ heap'[Addr] = waiting[c].value
      BY <1>4, <2>1, <3>3, <3>5
    <3> QED BY <2>2, <3>2, <3>3, <3>4, <3>6, <3>7 DEF Holds, Truthful
  <2>5. Ok \in Reply
    BY DEF Reply
  <2> QED BY <1>2, <2>1, <2>3, <2>4, <2>5, AnswerKeeps
<1> QED BY <1>3, <1>4

LEMMA GetKeeps == RInv /\ GetTensor => RInv'
<1> SUFFICES ASSUME RInv, GetTensor PROVE RInv'
  OBVIOUS
<1>1. Serves("get")
  BY DEF GetTensor, OnBuffer
<1>2. serving # 0 /\ request[serving] # None /\ request[serving].op = "get"
  BY <1>1, Reads
<1>3. CASE Addr \notin buffers
  BY <1>1, <1>3, RefuseKeeps DEF GetTensor, OnBuffer
<1>4. CASE Addr \in buffers
  <2> DEFINE r == [op |-> "ok", value |-> heap[Addr]]
  <2>1. UNCHANGED <<heap, buffers, serving>> /\ Answer(r)
    BY <1>4 DEF GetTensor, OnBuffer
  <2>2. UNCHANGED <<bufs, sock, waiting, backlog>> /\ Len(request') = Len(request)
    BY <2>1 DEF Answer, RInv, ClientType
  <2>3. ServerType'
    BY <2>1, <2>2 DEF RInv, ServerType
  <2>4. heap[Addr] \in Values \cup {Nobody}
    BY <1>4 DEF RInv, ServerType
  <2>5. r \in Reply
    BY <2>4 DEF Reply
  <2>6. ASSUME NEW c \in Clients, sock[c] = serving, waiting[c] = request[serving]
        PROVE  Holds(c)' /\ Truthful(c)'
    <3>1. /\ \A b \in bufs[c] : b.addr \in buffers /\ heap[b.addr] = b.value
          /\ Own(c)
      BY <1>2, <2>6, Served
    <3>2. answer'[sock[c]] = r
      BY <1>1, <2>1, <2>6, Reads DEF Answer, RInv, ClientType
    <3>3. /\ r # Error /\ waiting[c].op = "get" /\ waiting[c].buf \in bufs[c]
          /\ waiting[c].buf.addr = Addr
      BY <1>2, <2>6, <3>1 DEF Error, Addr, Own
    <3>4. heap[Addr] = waiting[c].buf.value
      BY <3>1, <3>3
    <3> QED BY <2>1, <2>2, <3>1, <3>2, <3>3, <3>4 DEF Holds, Truthful
  <2> QED BY <1>2, <2>1, <2>3, <2>5, <2>6, AnswerKeeps
<1> QED BY <1>3, <1>4

LEMMA TellKeeps == RInv /\ Tell => RInv'
<1> SUFFICES ASSUME RInv, Tell PROVE RInv'
  OBVIOUS
<1>1. Serves("ask") /\ Answer(Ok) /\ UNCHANGED <<serving, buffers, heap>>
  BY DEF Tell
<1>2. serving # 0 /\ request[serving] # None /\ request[serving].op = "ask"
  BY <1>1, Reads
<1>3. UNCHANGED <<bufs, sock, waiting, backlog>> /\ Len(request') = Len(request)
  BY <1>1 DEF Answer, RInv, ClientType
<1>4. ServerType'
  BY <1>1, <1>3 DEF RInv, ServerType
<1>5. ASSUME NEW c \in Clients, sock[c] = serving, waiting[c] = request[serving]
      PROVE  Holds(c)' /\ Truthful(c)'
  <2>1. \A b \in bufs[c] : b.addr \in buffers /\ heap[b.addr] = b.value
    BY <1>2, <1>5, Served
  <2>2. answer'[sock[c]] = Ok
    BY <1>1, <1>5, Reads DEF Answer, RInv, ClientType
  <2>3. Ok # Error /\ waiting[c].op = "ask"
    BY <1>2, <1>5 DEF Error, Ok
  <2> QED BY <1>1, <1>3, <2>1, <2>2, <2>3 DEF Holds, Truthful
<1>6. Ok \in Reply
  BY DEF Reply
<1> QED BY <1>1, <1>2, <1>4, <1>5, <1>6, AnswerKeeps

----------------------------------------------------------------------------

LEMMA RpcKeeps == RInv /\ [RpcNext]_rpcvars => RInv'
<1> SUFFICES ASSUME RInv, [RpcNext]_rpcvars PROVE RInv'
  OBVIOUS
<1>1. CASE Server
  BY <1>1, ConnectKeeps, AllocKeeps, FreeKeeps, SetKeeps, GetKeeps, TellKeeps DEF Server
<1>2. CASE \E c \in Clients : Client(c)
  BY <1>2, ClientKeeps
<1>3. CASE UNCHANGED rpcvars
  <2>1. ClientType' /\ ServerType' /\ Apart'
    BY <1>3 DEF rpcvars, RInv, ClientType, ServerType, Apart
  <2>2. ASSUME NEW c \in Clients PROVE Mine(c)'
    BY <1>3, Frame DEF rpcvars, RInv, Mine, Asked
  <2> QED BY <2>1, <2>2 DEF RInv
<1> QED BY <1>1, <1>2, <1>3 DEF RpcNext, RpcEnded

LEMMA RpcInvariant == RpcSpec => []RInv
<1>1. RpcInit => RInv
  BY RpcStart
<1>2. RInv /\ [RpcNext]_rpcvars => RInv'
  BY RpcKeeps
<1> QED BY <1>1, <1>2, PTL DEF RpcSpec

\* For any number of clients and calls: what a client gets from a buffer is
\* what it has last written to it, whoever else comes, waits, leaves or dies.
THEOREM ClientsReadTheirWrites == RpcSpec => []ReadsItsWrites
<1>1. RInv => ReadsItsWrites
  <2> SUFFICES ASSUME RInv, NEW c \in Clients, waiting[c].op = "get", answer[sock[c]] # None
               PROVE  answer[sock[c]] = [op |-> "ok", value |-> waiting[c].buf.value]
    BY DEF ReadsItsWrites
  <2>1. waiting[c] # None
    BY DEF None
  <2>2. Replied(c)
    BY <2>1, Waits DEF Replied
  <2> QED BY <2>2 DEF RInv, Mine, Truthful
<1> QED BY <1>1, RpcInvariant, PTL

\* The server's memory is that of the connection it serves, and when it serves
\* none it has none (rpc_server::~rpc_server).
THEOREM MemoryIsOfTheConnection == RpcSpec => []NothingLeaks
<1>1. RInv => NothingLeaks
  BY DEF RInv, ServerType, NothingLeaks
<1> QED BY <1>1, RpcInvariant, PTL

=============================================================================
