----------------------------- MODULE MCCollectives -----------------------------
(* Programs for three ranks: one collective with many counts, and pipelines. *)
EXTENDS Collectives

Everywhere(calls) == [r \in Rank |-> calls]

Scatter(experts, local) ==
  [op |-> "global_scatter", experts |-> experts, local |-> local]
\* One expert per rank: every row of zeros and ones for two ranks, and the first
\* one backwards for the third.
OneExpert == {Everywhere(<<Scatter(1, local)>>) :
                local \in {[s \in Rank |-> IF s < 2 THEN rows[s]
                                            ELSE [j \in Rank |-> rows[0][NRanks - 1 - j]]] :
                             rows \in [0..1 -> [Rank -> 0..1]]}}
\* Two experts per rank, counts up to two, and another collective behind.
TwoExperts ==
  {Everywhere(<<Scatter(2, [s \in Rank |-> [idx \in 0..(2 * NRanks - 1) |->
                                              (a * s + idx + s * idx) % 3]]),
                [op |-> "all_to_all", numel |-> NRanks]>>) : a \in 1..2}

All2All == {Everywhere(<<[op |-> "all2all",
                          count |-> [s \in Rank |-> [j \in Rank |-> (a * s + b * j) % 3]]]>>) :
              a \in 0..2, b \in 1..2}

Gathers == {Everywhere(<<[op |-> "partial_allgather", numel |-> 2 * NRanks],
                         [op |-> "c_concat", rows |-> rows, cols |-> 2]>>) : rows \in 1..2}
Scatters == {Everywhere(<<[op |-> "c_scatter", root |-> root, numel |-> 2 * NRanks],
                          [op |-> "all_to_all", numel |-> 2 * NRanks]>>) : root \in Rank}

\* Every reduction and gather behind another one, with types and operations that
\* MCCL has and has not.
WholeTensor(op, how, type, numel) ==
  [op |-> op, how |-> how, type |-> type, numel |-> numel, root |-> 1]
WholeTensors ==
  {Everywhere(<<WholeTensor("all_reduce", how, type, 2), WholeTensor(op, "sum", "float32", 2 * NRanks)>>) :
     type \in {"float32", "int16"}, how \in {"max", "any"},
     op \in {"all_gather", "all_reduce", "mp_allreduce_sum", "reduce_scatter", "broadcast"}}
  \cup {Everywhere(<<WholeTensor("all_gather", "sum", "complex64", 1)>>)}

\* Two rows, two classes per rank; a label may be ignored (9).
Logits(a, b) == [r \in Rank |-> [n \in 1..2 |-> [d \in 1..2 |-> (a * r + b * n + r * d) % 3]]]
OneOf(a, label) ==
  [op |-> "c_softmax_with_cross_entropy", logits |-> Logits(a, 1), ignore_index |-> 9,
   label |-> [n \in 1..2 |-> <<label[n]>>]]
ManyOf(a, rows, label, sum) ==
  [op |-> "c_softmax_with_multi_label_cross_entropy", ignore_index |-> 9,
   logits |-> [r \in Rank |-> SubSeq(Logits(a, 2)[r], 1, rows)],
   label |-> [n \in 1..rows |-> IF n = 1 THEN label ELSE Reverse(label)],
   smooth_weight |-> [n \in 1..rows |-> [j \in 1..2 |-> n + j]], sum_multi_label_loss |-> sum]
\* Several rows, each with several losses, are what the kernel gets wrong.
Softmaxes ==
  {Everywhere(<<OneOf(a, label)>>) : a \in 0..2, label \in [1..2 -> {1, 2, 5, 9}]}
  \cup {Everywhere(<<ManyOf(a, IF sum THEN 2 ELSE 1, label, sum)>>) :
          a \in 0..2, label \in [1..2 -> {1, 2, 5, 9}], sum \in BOOLEAN}

\* Two classes per rank, three on the last one.
Samples ==
  {Everywhere(<<[op |-> "class_center_sample", num_samples |-> n, label |-> label,
                 num_classes |-> [r \in Rank |-> IF r = NRanks - 1 THEN 3 ELSE 2]]>>) :
     n \in 1..2, label \in {<<0, 1, 3>>, <<1, 0, 1>>, <<6, 2, 2>>, <<4, 5, 6>>, <<4, 0, 4>>, <<2, 3, 1>>}}

\* A pipeline: every rank but the first receives, every one but the last sends on.
To(r, calls, up) == [k \in DOMAIN calls |-> calls[k] @@ [peer |-> IF up THEN r + 1 ELSE r - 1]]
PSendOf(shape, dynamic) == [op |-> "p_send", shape |-> shape, dynamic |-> dynamic]
PRecvOf(shape, dynamic) == [op |-> "p_recv", shape |-> shape, dynamic |-> dynamic]
Pipelines ==
  {[r \in Rank |->
      (IF r = 0 THEN <<>> ELSE To(r, <<PRecvOf(a, d), PRecvOf(b, ~d)>>, FALSE))
      \o (IF r = NRanks - 1 THEN <<>> ELSE To(r, <<PSendOf(a, d), PSendOf(b, ~d)>>, TRUE))] :
     a, b \in {<<2>>, <<1, 3>>, <<2, 1, 1>>}, d \in BOOLEAN}
  \cup
  {[r \in Rank |->
      (IF r = 0 THEN <<>> ELSE To(r, <<[op |-> "p_recv_array", tensors |-> 2, numels |-> n]>>, FALSE))
      \o (IF r = NRanks - 1 THEN <<>> ELSE To(r, <<[op |-> "p_send_array", tensors |-> 2, numels |-> n]>>, TRUE))] :
     n \in [0..1 -> 1..2]}

AnyProgram == OneExpert \cup TwoExperts \cup All2All \cup Gathers \cup WholeTensors \cup Softmaxes
              \cup Samples \cup Scatters \cup Pipelines
=============================================================================
