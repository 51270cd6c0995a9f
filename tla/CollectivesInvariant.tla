------------------------ MODULE CollectivesInvariant ------------------------
(***************************************************************************)
(* The inductive invariant behind TypeOK and CountsMatch of Collectives.   *)
(* Each group in the stream of a rank gets a label, the call and the step  *)
(* that launched it; what a call owes to a channel in a step (a message to *)
(* or from another rank, a part in an operation of all ranks) is Messages. *)
(* Both ends of a channel have the same calls and steps left: still ahead  *)
(* of the host code, or in the stream.                                     *)
(***************************************************************************)
EXTENDS Collectives, SequenceLemmas, FiniteSetTheorems

\* The channel that an operation belongs to: from or to another rank, or of all
\* ranks; the others are the rank's own.
Channel(op) ==
  IF op.kind \in {"send", "recv"} THEN <<op.kind, op.peer>>
  ELSE IF op.kind \in {"kernel", "rearrange"} THEN <<"own", 0>>
  ELSE <<"all", 0>>

\* How many elements rank s has for rank d in the k-th group of call c; a set of
\* at most one.  A tensor follows its shape, which may be sent or not.
Sizes(c, s, d, k) ==
  CASE c.op = "global_scatter" ->
         IF k < c.experts THEN {c.local[s][k + d * c.experts]} \ {0} ELSE {}
    [] c.op = "all_to_all" -> IF k = 0 THEN {c.numel \div NRanks} ELSE {}
    [] c.op = "all2all" -> IF k = 0 THEN {c.count[s][d]} \ {0} ELSE {}
    [] c.op \in {"p_send", "p_recv"} ->
         IF k = 2 THEN {Product(c.shape)}
         ELSE IF k > 2 \/ ~c.dynamic THEN {}
         ELSE IF k = 0 THEN {1} ELSE {Len(c.shape)}
    [] c.op \in {"p_send_array", "p_recv_array"} ->
         IF k < c.tensors THEN {c.numels[k]} ELSE {}
    [] OTHER -> {}

\* The contents of the tensors by which a shape is sent.
ShapeInfo(c, k) ==
  IF k = 0 THEN <<<<Len(c.shape)>>>> ELSE [d \in DOMAIN c.shape |-> <<c.shape[d]>>]

\* What of call c all ranks do together in its k-th group: of which kind it is and
\* over how many elements or which indices; a set of at most one.
Indices(c, k) ==
  IF c.op = "class_center_sample" THEN Bound
  ELSE IF k = 3 THEN 1..(Len(c.label) * LabelsPerRow(c)) ELSE DOMAIN c.label
TensorOf(c, k) ==
  IF c.op = "class_center_sample" THEN "num_classes_per_device"
  ELSE IF k = 1 THEN "logits_max" ELSE IF k = 3 THEN "predicted_logits" ELSE "sum_exp_logits"
Named(c) == c.type \in McclDataType /\ (c.op = "all_reduce" => c.how \in McclReduceOp)
Together(c, k) ==
  CASE c.op = "partial_allgather" -> IF k = 0 THEN {<<"all_gather", c.numel \div NRanks>>} ELSE {}
    [] c.op = "c_concat" -> IF k = 0 THEN {<<"all_gather", c.rows * c.cols>>} ELSE {}
    [] c.op = "c_scatter" -> IF k = 0 THEN {<<"broadcast", c.numel>>} ELSE {}
    [] c.op \in Wholes ->
         IF k = 0 /\ Named(c)
         THEN {<<IF c.op = "mp_allreduce_sum" THEN "all_reduce" ELSE c.op, c.numel>>} ELSE {}
    [] c.op \in CrossEntropies ->
         IF k \in {1, 3, 5} THEN {<<"all_reduce_in_place", Indices(c, k)>>} ELSE {}
    [] c.op = "class_center_sample" ->
         IF k = 0 /\ NRanks > 1 THEN {<<"all_reduce_in_place", Indices(c, k)>>} ELSE {}
    [] OTHER -> {}

\* The calls of r that concern a channel, and what they have for it.
Concerned(r, channel) ==
  CASE channel[1] = "send" -> Sending(program[r], channel[2])
    [] channel[1] = "recv" -> Receiving(program[r], channel[2])
    [] channel[1] = "all" -> Joining(program[r])
    [] OTHER -> {}
Messages(r, channel, c, k) ==
  IF c \notin Concerned(r, channel) THEN {}
  ELSE CASE channel[1] = "send" -> Sizes(program[r][c], r, channel[2], k)
         [] channel[1] = "recv" -> Sizes(program[r][c], channel[2], r, k)
         [] OTHER -> Together(program[r][c], k)

\* The size of the tensor that call c receives into.
OutSize(c, r) ==
  CASE c.op = "global_scatter" -> Sum(GlobalCount(c, r), c.experts * NRanks)
    [] c.op = "all_to_all" -> c.numel
    [] c.op = "all2all" -> Sum([s \in Rank |-> c.count[s][r]], NRanks)
    [] c.op = "p_recv" -> Product(c.shape)
    [] OTHER -> Sum(c.numels, c.tensors)

ToBuffer0(c, k) == c.op = "p_recv" /\ k < 2

Fits(r, c, k, op) ==
  LET x == program[r][c]
  IN  /\ op.kind \in {"send", "recv"} => op.peer \in Rank
      /\ op.kind = "send" =>
           /\ Messages(r, Channel(op), c, k) = {Len(op.data)}
           /\ x.op = "p_send" /\ k < 2 => op.data = ShapeInfo(x, k)
      /\ op.kind = "recv" =>
           /\ Messages(r, Channel(op), c, k) = {op.count}
           /\ op.at \in Nat /\ op.count \in Nat
           /\ IF ToBuffer0(x, k) THEN op.buffer = 0 /\ op.at = 0
              ELSE op.buffer = c /\ op.at + op.count <= OutSize(x, r)
      /\ op.kind \in {"all_gather", "broadcast", "all_reduce", "reduce_scatter"} =>
           /\ Messages(r, Channel(op), c, k) = {<<op.kind, Len(op.data)>>}
           /\ op.buffer = c
      /\ op.kind = "all_reduce_in_place" =>
           /\ Messages(r, Channel(op), c, k) = {<<op.kind, Indices(x, k)>>}
           /\ op.buffer = c /\ op.tensor = TensorOf(x, k)
      /\ op.kind = "kernel" =>
           /\ x.op \in CrossEntropies /\ op.buffer = c
           /\ op.name = (CASE k = 0 -> "maxima" [] k = 2 -> "targets" [] k = 4 -> "sums"
                           [] OTHER -> "losses")
      /\ op.kind = "rearrange" => x.op \in {"c_concat", "c_scatter"} /\ op.buffer = c
      /\ op.kind \in {"send", "recv", "all_gather", "broadcast", "all_reduce", "reduce_scatter",
                      "all_reduce_in_place", "kernel", "rearrange"}

GroupFits(r, c, k, group) ==
  /\ c \in DOMAIN program[r] /\ k \in Nat
  /\ \A e \in group : Fits(r, c, k, e.op)
  /\ \A e, f \in group : Channel(e.op) = Channel(f.op) => e = f
  /\ \A e \in group : Channel(e.op)[1] \in {"all", "own"} => group = {e}

Before(a, b) == a[1] < b[1] \/ (a[1] = b[1] /\ a[2] < b[2])

Posted(r) == IF Call(r).op = "c_scatter" THEN 2 * step[r] ELSE step[r]
Ahead(r, c, k) == c > call[r] \/ (c = call[r] /\ k >= Posted(r))

Labelled(r, groups, labels) ==
  /\ IsSeq(groups) /\ labels \in Seq(Nat \X Nat) /\ Len(labels) = Len(groups)
  /\ \A i \in 1..Len(groups) : GroupFits(r, labels[i][1], labels[i][2], groups[i])
  /\ \A i, j \in 1..Len(groups) : i < j => Before(labels[i], labels[j])

InStream(groups, labels, channel, c, k) ==
  \E i \in 1..Len(groups) : labels[i] = <<c, k>> /\ \E e \in groups[i] : Channel(e.op) = channel

Left(labels, r, channel, c, k) ==
  /\ Messages(r, channel, c, k) # {}
  /\ Ahead(r, c, k) \/ InStream(stream[r], labels[r], channel, c, k)

Agree(labels, r, channel1, s, channel2) ==
  \A m \in Pairings(program[r], program[s], Concerned(r, channel1), Concerned(s, channel2)) :
     \A c \in Concerned(r, channel1), k \in Nat :
        Left(labels, r, channel1, c, k) <=> Left(labels, s, channel2, m[c], k)

Reductions(r, groups, labels, buffers) ==
  \A i \in 1..Len(groups) : \A e \in groups[i] : e.op.kind = "all_reduce_in_place" =>
    LET c == labels[i][1]
        k == labels[i][2]
    IN  /\ i = 1 \/ program[r][c].op = "class_center_sample"
             => /\ e.op.tensor \in DOMAIN buffers[c]
                /\ DOMAIN buffers[c][e.op.tensor] = Indices(program[r][c], k)
        /\ i # 1 /\ program[r][c].op \in CrossEntropies
             => labels[i - 1] = <<c, k - 1>> /\ \E f \in groups[i - 1] : f.op.kind = "kernel"

Sized(b, n) == n \in Nat /\ IsSeq(b) /\ Len(b) = n

Tensors == {"logits_max", "softmax", "predicted_logits", "sum_exp_logits", "loss"}
IsReceiving(c) == c.op \in Exchanges \cup {"p_recv", "p_recv_array"}
Buffers(r) ==
  \A c \in DOMAIN program[r] :
    /\ /\ IsReceiving(program[r][c])
       /\ c < call[r] \/ (c = call[r] /\ step[r] > 0 /\ program[r][c].op # "p_recv")
       => Sized(received[r][c], OutSize(program[r][c], r))
    /\ program[r][c].op \in CrossEntropies /\ c < call[r] => Tensors \subseteq DOMAIN received[r][c]

Steps(c) ==
  CASE c.op = "global_scatter" -> c.experts
    [] c.op \in {"p_send_array", "p_recv_array"} -> c.tensors
    [] c.op \in {"c_scatter", "class_center_sample"} -> 2
    [] c.op \in {"p_send", "p_recv"} -> IF c.dynamic THEN 3 ELSE 1
    [] OTHER -> 1

Counters(r) ==
  /\ call[r] \in 1..(Len(program[r]) + 1) /\ step[r] \in Nat
  /\ IF Finished(r) THEN step[r] = 0 ELSE step[r] < Steps(Call(r))

\* Buffer 0, while a shape is received.
Shapes(r, labels) ==
  /\ \A i \in 1..Len(stream[r]) : \A e \in stream[r][i] :
       e.op.kind = "recv" /\ e.op.buffer = 0 =>
         /\ ~Finished(r) /\ step[r] > 0 /\ labels[i] = <<call[r], step[r] - 1>>
  /\ ~Finished(r) /\ Call(r).op = "p_recv" /\ step[r] > 0 =>
       /\ Sized(received[r][0], Len(ShapeInfo(Call(r), step[r] - 1)))
       /\ \/ received[r][0] = ShapeInfo(Call(r), step[r] - 1)
          \/ \E i \in 1..Len(stream[r]) : \E e \in stream[r][i] :
               e.op.kind = "recv" /\ e.op.buffer = 0

CountsInv(labels) ==
  /\ program \in Programs
  /\ DOMAIN stream = Rank /\ DOMAIN received = Rank /\ DOMAIN call = Rank /\ DOMAIN step = Rank
  /\ stream = [r \in Rank |-> stream[r]] /\ received = [r \in Rank |-> received[r]]
  /\ \A r \in Rank :
       /\ received[r] = [b \in 0..Len(program[r]) |-> received[r][b]]
       /\ Labelled(r, stream[r], labels[r])
       /\ \A i \in 1..Len(stream[r]) : ~Ahead(r, labels[r][i][1], labels[r][i][2])
       /\ Reductions(r, stream[r], labels[r], received[r])
       /\ Buffers(r) /\ Counters(r) /\ Shapes(r, labels[r])
  /\ \A r, s \in Rank :
       /\ Agree(labels, r, <<"send", s>>, s, <<"recv", r>>)
       /\ Agree(labels, r, <<"all", 0>>, s, <<"all", 0>>)
=============================================================================
