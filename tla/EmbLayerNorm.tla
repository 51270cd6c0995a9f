---------------------------- MODULE EmbLayerNorm ----------------------------
(* Sums of embeddings and their layer normalisation in one kernel           *)
(* (emb_eltwise_layer_norm_functor.cu), a block for every token: the ids of *)
(* the token go through shared memory, and the row of sums through the      *)
(* output that it is normalised in.                                         *)
EXTENDS LayerNormKernels

CONSTANT EmbThreads    \* tpb: 256

ASSUME EmbThreadsAssumption == EmbThreads \in Nat

EmbBlock == 0..EmbThreads - 1
Sums == <<"key", "value">>                       \* a kvp: of x / hidden and of x * x / hidden
IdCell(i) == <<"array_id", i>>
IdOf(pos, i) == <<"id", i, pos>>
Embedded(i, it) == <<"emb", i, it>>              \* of the row that the id names
Term(k, pos, it) == <<k, pos, it>>
Normalized(pos, it) == <<"y", pos, it>>

\* Who has a column in round n, and which.
RoundOf(n, hidden) == {t \in EmbBlock : (n - 1) * EmbThreads + t < hidden}
ColumnIn(n, t) == (n - 1) * EmbThreads + t

\* LayerNorm: the sums of the block, then every thread normalises what it
\* has written itself.
NormalizeRow(pos, hidden) ==
  LET Cell(k) == <<IF k = "key" THEN "mu" ELSE "rsigma", 0>>
      Reduce(k) == BlockReduce(Of(k), IF k = "key" THEN "temp_key" ELSE "temp_value", EmbBlock)
      Give(k) == Put(Of(k), [t \in {0} |-> {Cell(k)}])
      Take(k) == Get(Of(k), [t \in EmbBlock |-> Cell(k)])
      Round(n) == LET own == [t \in RoundOf(n, hidden) |-> {Normalized(pos, ColumnIn(n, t))}]
                  IN  Clear(Of("val"), RoundOf(n, hidden)) \o Read(Of("val"), own)
                      \o Store(<<Of("key"), Of("value"), Of("val")>>, own)
  IN  Both(Reduce, Sums) \o Both(Give, Sums) \o Sync(EmbBlock) \o Both(Take, Sums)
      \o Loop(CeilOf(hidden, EmbThreads), Round)

EmbEltwiseLayernormKernel(pos, hidden, input_num) ==
  LET Id(i) == Clear(Of("id"), {0}) \o Load(Of("id"), [t \in {0} |-> {IdOf(pos, i)}])
               \o Put(Of("id"), [t \in {0} |-> {IdCell(i)}])
      Round(n) ==
        LET now == RoundOf(n, hidden)
            Input(i) == Get(Of("id"), [t \in now |-> IdCell(i)])
                        \o LoadUnder(Of("val"), Of("id"), [t \in now |-> {Embedded(i, ColumnIn(n, t))}])
            Count(k) == LoadUnder(Of(k), Of("val"), [t \in now |-> {Term(k, pos, ColumnIn(n, t))}])
        IN  Clear(Of("val"), now) \o Loop(input_num, Input)
            \o Store(<<Of("val")>>, [t \in now |-> {Normalized(pos, ColumnIn(n, t))}]) \o Both(Count, Sums)
  IN  Loop(input_num, Id) \o Sync(EmbBlock) \o Loop(CeilOf(hidden, EmbThreads), Round) \o NormalizeRow(pos, hidden)

EmbeddingsExpected(tokens, hidden, input_num) ==
  LET Val(pos, it) == SetToBag({<<Embedded(i, it), SetToBag({IdOf(pos, i)})>> : i \in 1..input_num})
      Total(k, pos) == SetToBag({<<Term(k, pos, it), Val(pos, it)>> : it \in 0..hidden - 1})
  IN  [o \in {Normalized(pos, it) : pos \in 0..tokens - 1, it \in 0..hidden - 1} |->
         <<Total("key", o[2]), Total("value", o[2]), Val(o[2], o[3])>>]

\* The functor: block <<x, y>> of a grid of seq_len x batch.
EmbEltwiseLayerNormFunctor(batch, seq_len, hidden, input_num) ==
  LET SeqPos(b) == b \div seq_len + (b % seq_len) * batch
  IN  [kernels |-> Kernel(EmbBlock, [b \in 0..seq_len * batch - 1 |-> EmbEltwiseLayernormKernel(SeqPos(b), hidden, input_num)]),
       expected |-> EmbeddingsExpected(seq_len * batch, hidden, input_num), temporaries |-> {}]
=============================================================================
