------------------------------ MODULE MCKernels ------------------------------
EXTENDS SoftmaxKernels, EmbLayerNorm, KVCache, LinearLt, Scatter

SoftmaxShapes == {<<3, d, 1>> : d \in {1, 2, 3, 4, 6, 8, 12, 13, 16}}
                 \cup {<<5, 6, 1>>, <<2, 17, 1>>, <<2, 5, 3>>, <<1, 3, 7>>, <<5, 2, 2>>}

SoftmaxLaunches == {"softmax", "softmax_grad"} \X SoftmaxShapes

\* Rows, columns, vector width.
NormShapes == {<<3, 5, 1>>, <<3, 9, 1>>, <<5, 8, 2>>, <<3, 16, 2>>, <<2, 32, 2>>}
Both2 == {"scale", "bias"}
\* With fast math: rows of whole warps and not, a lane with what is left over,
\* vectors of 1, 2 and 4, a row too wide, a size that has a fast kernel, none.
WelfordShapes == {<<3, 5, 1>>, <<3, 9, 1>>, <<2, 3, 1>>, <<3, 12, 2>>, <<5, 8, 2>>, <<3, 16, 4>>, <<2, 17, 1>>, <<0, 5, 1>>}
NormLaunches ==
  {"layer_norm"} \X NormShapes \X {FALSE} \X {Both2}
  \cup {"layer_norm"} \X {<<3, 5, 1>>, <<5, 8, 2>>} \X {FALSE} \X {{}, {"scale"}, {"bias"}}
  \cup {"layer_norm"} \X WelfordShapes \X {TRUE} \X {{}, {"scale"}, Both2}

AllGradientShapes == {<<18, 6, 4>>, <<5, 3, 4>>, <<66, 2, 2>>, <<5, 16, 2>>, <<1, 10, 1>>}
InputGradientShapes == {<<2, 31, 1>>, <<3, 12, 4>>, <<3, 8, 4>>, <<2, 32, 4>>, <<2, 30, 4>>, <<2, 37, 4>>, <<1, 70, 4>>}
PartShapes == {<<3, 5, 1>>, <<9, 3, 1>>, <<1, 10, 1>>}
\* Whether scale is given, d_x asked for, and which of the other gradients.
\* One row with scale given, d_x asked for and the gradient of scale not is
\* left out: there WhenBatchSizeIsOne computes a d_x without the factor scale.
GradLaunches ==
  {"layer_norm_grad"} \X AllGradientShapes \X {TRUE} \X {TRUE} \X {Both2}
  \cup {"layer_norm_grad"} \X PartShapes \X {TRUE} \X {TRUE} \X {{"scale"}}
  \cup {l \in {"layer_norm_grad"} \X PartShapes \X BOOLEAN \X {TRUE} \X {{}, {"bias"}} : ~(l[2][1] = 1 /\ l[3])}
  \cup {"layer_norm_grad"} \X PartShapes \X {TRUE} \X {FALSE} \X {{"scale"}, Both2}
  \cup {"layer_norm_grad"} \X PartShapes \X BOOLEAN \X {FALSE} \X {{}, {"bias"}}

\* The ways two batches meet: none, one has members only, they agree, they
\* broadcast.
Batches == {<<<<>>, <<>>>>, <<<<>>, <<2>>>>, <<<<2>>, <<>>>>, <<<<2>>, <<2>>>>, <<<<2, 1>>, <<3>>>>, <<<<1, 2>>, <<2, 2>>>>}
\* <<x, y, transpose_x, transpose_y>>, M x 2 by 2 x 3.
Swap(trans, m, n) == IF trans THEN <<n, m>> ELSE <<m, n>>
MatrixShapes(batches, Ms, k, n) ==
  {<<b[1] \o Swap(tx, m, k), b[2] \o Swap(ty, k, n), tx, ty>> : b \in batches, m \in Ms, tx \in BOOLEAN, ty \in BOOLEAN}
VectorShapes(k) ==
  {<<<<k>>, <<k>>, FALSE, FALSE>>}
  \cup {<<<<k>>, b \o Swap(ty, k, 3), FALSE, ty>> : b \in {<<>>, <<2>>}, ty \in BOOLEAN}
  \cup {<<b \o Swap(tx, 3, k), <<k>>, tx, FALSE>> : b \in {<<>>, <<2>>}, tx \in BOOLEAN}
EmptyShapes == {<<<<2, 0>>, <<0, 3>>, FALSE, FALSE>>}

MatmulLaunches ==
  {<<"matmul", impl, T, s>> : impl \in {"blas", "lt"}, T \in {"float"},
     s \in MatrixShapes(Batches, {1, 2}, 2, 3) \cup VectorShapes(2) \cup EmptyShapes}
  \cup {<<"matmul", "blas", T, s>> : T \in {"float16", "bfloat16", "double", "complex64"},
          s \in MatrixShapes({<<<<2>>, <<2>>>>, <<<<2, 1>>, <<2>>>>}, {1}, 2, 3) \cup VectorShapes(2)}
  \cup {<<"matmul", "lt", "int8", s>> : s \in MatrixShapes(Batches, {1, 2}, 4, 3) \cup MatrixShapes({<<<<>>, <<>>>>}, {4}, 3, 4)
                                                \cup VectorShapes(4)}
AddLaunches ==
  {<<"matmul_add", impl, "float", s>> : impl \in {"blas", "lt"}, s \in MatrixShapes({<<<<2, 1>>, <<2>>>>}, {1}, 2, 3)}

\* Sizes the library does not take, shapes that do not agree, an int8 shape
\* that passes one check and fails the next.
RefusedLaunches ==
  {<<"refused", "blas", T, s>> : T \in {"float", "float16", "bfloat16", "complex64", "complex128"},
     s \in {<<<<1, IntMax + 1>>, <<IntMax + 1, 1>>, FALSE, FALSE>>}}
  \cup {<<"refused", "blas", T, <<<<1, 1>>, <<1, MaxGemmN + 1>>, FALSE, FALSE>>>> : T \in {"float16", "bfloat16", "complex64"}}
  \cup {<<"refused", impl, "float", s>> : impl \in {"blas", "lt"},
          s \in {<<<<2, 3>>, <<2, 3>>, FALSE, FALSE>>, <<<<2, 1, 2>>, <<3, 2, 1>>, FALSE, FALSE>>,
                 <<<<2>>, <<3, 1>>, FALSE, FALSE>>, <<<<1, 2>>, <<3>>, FALSE, FALSE>>}}
  \cup {<<"refused", "lt", "int8", <<<<4>>, <<2, 4, 2>>, FALSE, FALSE>>>>}

\* The other entries: float8 (y square and transposed, or one column), the
\* helper, matrices of more than two dims flattened, a product times alpha.
OtherMatmuls ==
  {<<"matmul", "lt", "float8_e4m3fn", s>> : s \in {<<<<1, 16>>, <<16, 1>>, FALSE, FALSE>>, <<<<1, 16>>, <<16, 16>>, FALSE, TRUE>>}}
  \cup {<<"matmul", "blas", T, <<<<2, 3>>, <<3, 2>>, FALSE, FALSE>>>> : T \in {"int32", "int64"}}
  \cup {<<"refused", "lt", "float8_e4m3fn", s>> :
           s \in {<<<<1, 16>>, <<1, 16>>, FALSE, TRUE>>, <<<<1, 8>>, <<8, 1>>, FALSE, FALSE>>, <<<<16>>, <<16, 1>>, FALSE, FALSE>>}}
  \cup {<<"helper", m, 2, n>> : m \in {1, 3}, n \in {1, 2}}
  \cup {<<"flatten", T, <<2, 2, 3>>, y, 2, 1>> : T \in {"float", "bfloat16"}, y \in {<<3, 2>>, <<3, 2, 2>>}}
  \cup {<<"flatten", "float16", <<2, 3, 2>>, <<3, 2, 3>>, 1, 2>>}
  \cup {<<"legacy", impl, <<2, 3>>, <<3, 2>>, alpha>> : impl \in {"blas", "lt"}, alpha \in {1, 2}}

OtherMatmul(l) ==
  CASE l[1] = "helper" -> HelperProduct(l[2], l[3], l[4])
    [] l[1] = "flatten" -> MatmulWithFlattenKernel(l[2], l[3], l[4], l[5], l[6])
    [] l[1] = "legacy" -> LegacyMatmulKernel(l[2], "float", l[3], l[4], FALSE, FALSE, l[5])

\* An index once and twice the same row, from the end too, of one row, of none;
\* dims that are refused; more elements than threads; rows of two coordinates, and of one.
ScatterCall(index, dims, src, output, aligned) ==
  [index |-> index, dims |-> dims, src |-> src, output |-> output, aligned |-> aligned]
RowsCall(index, width, rows, aligned) ==
  ScatterCall(index, <<Len(index)>>, <<Len(index), width>>, <<rows, width>>, aligned)
ScatterLaunches ==
  {"assign"} \X {"float"} \X {RowsCall(index, width, 4, 4) : index \in {<<2, 0>>, <<-1, 1, 0>>}, width \in {1, 2, 3, 12}}
  \cup {"assign", "sum", "add"} \X {"float"} \X {ScatterCall(<<1>>, <<>>, <<3>>, <<2, 3>>, 1), ScatterCall(<<1, -3>>, <<2, 1>>, <<2, 3>>, <<3, 3>>, 1),
                                         ScatterCall(<<>>, <<0>>, <<0, 3>>, <<2, 3>>, 1)}
  \cup {"assign", "sum", "add"} \X {"float"} \X {RowsCall(<<-1, 1, 0>>, 7, 3, 1)}
  \cup {"sum", "add"} \X {"float", "bfloat16"} \X {RowsCall(index, width, 4, 2) : index \in {<<2, 0, 2>>, <<3, 1, -1, 3>>}, width \in {2, 3}}
  \cup {"grad"} \X {"float"} \X {RowsCall(<<2, -2, 0>>, 3, 4, 1), RowsCall(<<>>, 3, 2, 1)}
  \cup {"nd_add"} \X {"float"} \X {ScatterCall(<<<<1, 0>>, <<-1, -2>>, <<0, 1>>>>, <<3, 2>>, <<3, 4>>, <<2, 2, 4>>, 2),
                                   ScatterCall(<<<<2>>, <<0>>, <<-1>>>>, <<3, 1>>, <<3, 3>>, <<3, 3>>, 4)}
  \cup {"untouched"} \X {"float"} \X {ScatterCall(<<1, 0>>, <<1, 2>>, <<2, 3>>, <<2, 3>>, 1), ScatterCall(<<1, 0>>, <<1, 1, 2>>, <<2, 3>>, <<2, 3>>, 1)}

\* Batch, length, columns, embeddings.
EmbeddingShapes == {<<2, 1, 5, 2>>, <<1, 2, 11, 1>>, <<2, 2, 3, 3>>}

GroupedLaunches ==
  {<<"batched_gemm", T, sizes, trans[1], trans[2]>> : T \in {"float", "double", "bfloat16"},
     sizes \in {<<2, 0, 1>>, <<1, 2>>}, trans \in {<<FALSE, FALSE>>, <<FALSE, TRUE>>, <<TRUE, FALSE>>}}

\* The wrappers' other functions: every element type, rows with and without
\* a gap, every kind of triangular system.
Lib == {"float", "double", "complex64", "complex128"}
Types == Lib \cup {"float16", "bfloat16"}
Gemms == {Single(ta, tb, 2, 3, 2, InputX, InputY, adds) : ta \in BOOLEAN, tb \in BOOLEAN, adds \in BOOLEAN}
WithRows(p, by) == p @@ [lda |-> Lda(p) + by, ldb |-> Ldb(p) + by, ldc |-> p.N + by]
Systems(count) ==
  {[left |-> l, lower |-> w, trans |-> t, unit |-> u, M |-> 2, N |-> 3, lda |-> 4, ldb |-> 3 + count,
    A |-> [b \in 0..count-1 |-> Shift(InputX, b * 12)], B |-> [b \in 0..count-1 |-> Shift(Output, b * 12)]] :
     l \in BOOLEAN, w \in BOOLEAN, t \in BOOLEAN, u \in BOOLEAN}
BlasLaunches ==
  {"gemm"} \X Types \X Gemms \cup {"gemm_rows"} \X Types \X {WithRows(p, by) : p \in Gemms, by \in 0..1}
  \cup {"strided"} \X Types \X {p \in Gemms : ~p.adds}
  \cup {"trsm"} \X Lib \X Systems(1) \cup {"trsm_batch"} \X {"float", "complex64"} \X Systems(2)
  \cup {"axpy"} \X Lib \X {5} \cup {"scal", "vcopy"} \X {"float", "double"} \X {5}
  \cup {"lu"} \X Lib \X {"GETRF", "GETRI", "MATINV", "GETRS"}

BlasCall(kind, T, p) ==
  CASE kind = "gemm" -> GEMMCall(T, p)
    [] kind = "gemm_rows" -> GEMMRowsCall(T, p)
    [] kind = "strided" -> StridedCall(T, p, 2, p.M * p.K, 0)
    [] kind = "trsm" -> TRSMCall(T, p)
    [] kind = "trsm_batch" -> BatchedTRSMCall(T, p)
    [] kind = "axpy" -> AXPYCall(T, p)
    [] kind = "scal" -> SCALCall(T, p)
    [] kind = "vcopy" -> VCOPYCall(T, p)
    [] kind = "lu" -> LUCall(p, T, 2, 2)

SmallTiles == <<[above |-> 8, x |-> 8, y |-> 2], [above |-> 4, x |-> 4, y |-> 2], [above |-> 2, x |-> 2, y |-> 4]>>

\* Heads of q, of k and v, head_dim, and the first rows of the sequences.
Varlen(heads, heads_k, dim, q, k) ==
  LET batch == Len(q) - 1
      cu(s) == [b \in 0..batch |-> s[b + 1]]
      longest(s) == Max({s[i + 1] - s[i] : i \in 1..batch})
  IN  [batch |-> batch, heads |-> heads, heads_k |-> heads_k, dim |-> dim,
       cu_q |-> cu(q), cu_k |-> cu(k), max_q |-> longest(q), max_k |-> longest(k)]
Full(batch, L, S, heads, heads_k, dim) ==
  Varlen(heads, heads_k, dim, [b \in 1..batch + 1 |-> (b - 1) * L], [b \in 1..batch + 1 |-> (b - 1) * S])

\* An empty sequence of queries, queries that share the heads of k, causal
\* attention of a sequence to itself.
VarlenCalls ==
  {<<Varlen(1, 1, d, <<0, 3, 5>>, <<0, 2, 5>>), FALSE>> : d \in {4, 6, 10}}
  \cup {<<Varlen(2, 1, 4, <<0, 1, 1, 3>>, <<0, 1, 2, 5>>), FALSE>>, <<Varlen(2, 2, 4, <<0, 1, 4>>, <<0, 1, 4>>), TRUE>>}

MaskOf(dims) == [binary |-> FALSE, dims |-> dims]
MaskShapes == {<<3, 4>>, <<2, 4>>, <<2, 3, 4>>, <<1, 3, 4>>, <<2, 2, 3, 4>>, <<2, 1, 1, 4>>, <<1, 1, 3, 4>>}
FlashCalls ==
  {<<Full(2, 3, 4, 2, 1, 2), FALSE, mask>> : mask \in {NoMask} \cup {MaskOf(dims) : dims \in MaskShapes}}
  \cup {<<Full(1, 3, 3, 1, 1, 2), TRUE, NoMask>>}
RefusedMasks == {<<3>>, <<3, 3>>, <<2, 3, 3>>, <<3, 2, 3, 4>>}

AttentionLaunches ==
  {"varlen", "varlen_grad"} \X VarlenCalls \cup {"flash", "flash_grad"} \X FlashCalls
  \cup {"varlen_refused"} \X {Varlen(1, 1, 2, <<0, 1>>, <<0, 1>>)} \cup {"flash_refused"} \X RefusedMasks

AttentionLaunch(kind, c) ==
  CASE kind = "varlen" -> VarlenAttention(c[1], c[2])
    [] kind = "varlen_grad" -> VarlenAttentionGrad(c[1], c[2])
    [] kind = "flash" -> FlashAttention(c[1], c[2], c[3])
    [] kind = "flash_grad" -> FlashAttentionGrad(c[1], c[2], c[3])
    [] kind = "varlen_refused" -> AttentionRefused(FlashAttnUnpaddedKernel(c, FALSE))
    [] kind = "flash_refused" -> AttentionRefused(FlashAttnKernel(Full(2, 3, 4, 2, 1, 2), FALSE, MaskOf(c)))

\* Calls of the cache: tensors of their own or parts of one, sequences that
\* are packed or not, pages in any order.
TensorAt(n, at, dims, strides) == [dtype |-> "bfloat16", at |-> <<n, at>>, dims |-> dims, strides |-> strides]
Whole(n, dims) == TensorAt(n, 0, dims, StridesOf(dims))
CacheCall(q, k, v) ==
  [q |-> q, k |-> k, v |-> v, out |-> Absent, cu_q |-> Absent, cu_k |-> Absent, page_table |-> Absent, used_k |-> Absent,
   max_q |-> -1, max_k |-> -1, causal |-> FALSE, attention_chunk |-> 0, others |-> {}]
BatchCall(b, L, S, heads, heads_k, dim) ==
  CacheCall(Whole("q", <<b, L, heads, dim>>), Whole("k", <<b, S, heads_k, dim>>), Whole("v", <<b, S, heads_k, 2>>))
PackedCall(cu_q, cu_k, longest_q, longest_k) ==
  [CacheCall(Whole("q", <<Last(cu_q), 2, 2>>), Whole("k", <<Last(cu_k), 1, 2>>), Whole("v", <<Last(cu_k), 1, 2>>))
     EXCEPT !.cu_q = cu_q, !.cu_k = cu_k, !.max_q = longest_q, !.max_k = longest_k]
\* q, k and v are the columns of a projection; so is the output.
FusedCall ==
  [CacheCall(TensorAt("qkv", 0, <<2, 3, 2, 2>>, <<24, 8, 2, 1>>), TensorAt("qkv", 4, <<2, 3, 1, 2>>, <<24, 8, 2, 1>>),
             TensorAt("qkv", 6, <<2, 3, 1, 2>>, <<24, 8, 2, 1>>)) EXCEPT !.out = TensorAt("out", 1, <<2, 3, 2, 2>>, <<30, 10, 5, 1>>)]
PagedCall(L, table, used) ==
  [CacheCall(Whole("q", <<2, L, 2, 2>>), Whole("k", <<4, 2, 1, 2>>), Whole("v", <<4, 2, 1, 2>>))
     EXCEPT !.page_table = table, !.used_k = used]
CacheCalls ==
  {[c EXCEPT !.causal = causal] : causal \in BOOLEAN,
     c \in {BatchCall(2, 2, 3, 2, 1, 2), BatchCall(1, 1, 3, 2, 2, 2), BatchCall(1, 2, 2, 4, 2, 3), FusedCall,
            PackedCall(<<0, 2, 3>>, <<0, 3, 4>>, 2, 3), PackedCall(<<0, 1, 1, 2>>, <<0, 2, 2, 3>>, 1, 2),
            PagedCall(2, <<<<2, 0>>, <<1, 3>>>>, <<4, 3>>), PagedCall(1, <<<<3, 1>>, <<0, 3>>>>, <<1, 2>>)}}
\* What one check each refuses.
RefusedCalls ==
  LET c == BatchCall(2, 2, 3, 2, 1, 2)
      p == PackedCall(<<0, 2, 3>>, <<0, 3, 4>>, 2, 3)
      g == PagedCall(2, <<<<2, 0>>, <<1, 3>>>>, <<4, 3>>)
  IN  {[c EXCEPT !.q.dtype = "float32"], [c EXCEPT !.k.dtype = "float16"], [c EXCEPT !.q.dtype = "int8"],
       [c EXCEPT !.v.strides = <<12, 4, 4, 2>>], [p EXCEPT !.max_q = -1], [p EXCEPT !.max_k = 0],
       [p EXCEPT !.page_table = <<<<0>>, <<1>>>>], [g EXCEPT !.used_k = Absent], [g EXCEPT !.k.dims = <<2, 4, 1, 2>>],
       [c EXCEPT !.q.strides = <<10, 5, 3, 1>>], [c EXCEPT !.k.dims = <<1, 3, 1, 2>>], [c EXCEPT !.v.dims = <<2, 2, 1, 2>>],
       [c EXCEPT !.out = Whole("out", <<2, 2, 1, 2>>)], [c EXCEPT !.others = {"leftpad_k"}],
       [c EXCEPT !.attention_chunk = 1], BatchCall(1, 2, 2, 3, 2, 2),
       [g EXCEPT !.q = Whole("q", <<2, 2, 2, 3>>), !.k = Whole("k", <<4, 2, 1, 3>>)]}
CacheLaunches == {"kvcache"} \X CacheCalls \cup {"kvcache_refused"} \X RefusedCalls

\* Two layers of the same sizes one after the other: the second may find what
\* autotuning kept of the first.
Untuned == [autotune |-> FALSE, times |-> 0, results |-> 1, global |-> FALSE, selected |-> FALSE]
Tuned == [Untuned EXCEPT !.autotune = TRUE, !.results = 2]
Tunings == {Untuned, Tuned, [Tuned EXCEPT !.times = 2]}
Globally(tuning) == {[tuning EXCEPT !.global = TRUE, !.selected = b] : b \in BOOLEAN}
Layer(at, size, trans, T) ==
  [at |-> at, M |-> size[1], N |-> size[2], K |-> size[3], TransX |-> trans[1], TransY |-> trans[2], dtype |-> T]
Layers(T, size) ==
  {<<Layer(0, size, first, T), Layer(20, size, second, T)>> : first \in BOOLEAN \X BOOLEAN, second \in BOOLEAN \X BOOLEAN}
Fused == {"kMatmul", "kMatmulRelu", "kMatmulBias", "kMatmulBiasRelu", "kMatmulBiasGelu",
          "kMatmulBiasReluWithReservedData", "kMatmulBiasGeluWithReservedData"}
LinearLaunches ==
  {"linear"} \X Tunings \X Layers("float", <<2, 3, 2>>) \X {"kMatmulBiasReluWithReservedData"}
  \cup {"linear"} \X {Tuned} \X {q \in Layers("float", <<1, 2, 3>>) : q[1].TransX = q[2].TransX} \X Fused
  \cup {<<"tuned_matmul", t, q>> : t \in Globally(Untuned) \cup Globally(Tuned), q \in Layers("int8", <<1, 4, 4>>)}
  \cup {"linear_grad"} \X Tunings \X Layers("float", <<2, 3, 2>>) \X {FALSE} \X BOOLEAN \X {FALSE}
  \cup {"linear_grad"} \X {Tuned} \X Layers("float", <<2, 2, 2>>) \X BOOLEAN \X BOOLEAN \X BOOLEAN

LinearLaunch(l) ==
  CASE l[1] = "linear" -> Linears(l[2], l[3], l[4])
    [] l[1] = "tuned_matmul" -> TunedMatmuls(l[2], l[3])
    [] l[1] = "linear_grad" -> LinearGrads(l[2], l[3], l[4], l[5], l[6])

AllLaunches ==
  LET chosen == SoftmaxLaunches \cup NormLaunches \cup GradLaunches \cup {"layer_norm_dx"} \X InputGradientShapes
                \cup MatmulLaunches \cup AddLaunches \cup RefusedLaunches \cup GroupedLaunches
                \cup OtherMatmuls \cup {"embeddings"} \X EmbeddingShapes
                \cup AttentionLaunches \cup BlasLaunches \cup LinearLaunches \cup CacheLaunches
                \cup ScatterLaunches
  IN  [l \in chosen |->
         LET s == l[2]
         IN  CASE l[1] = "softmax" -> SoftmaxForward(s[1], s[2], s[3])
               [] l[1] = "softmax_grad" -> SoftmaxBackward(s[1], s[2], s[3])
               [] l[1] = "layer_norm" -> LayerNorm(l[3], l[4], s[1], s[2], s[3])
               [] l[1] = "layer_norm_grad" -> LayerNormBackward(l[3], l[4], l[5], s[1], s[2], s[3])
               [] l[1] = "layer_norm_dx" ->
                    [kernels |-> InputGradient(s[1], s[2], s[3]),
                     expected |-> LayerNormBackwardExpected(TRUE, {}, s[1], s[2], "loss1", "loss2"),
                     temporaries |-> {}]
               [] l[1] = "matmul" -> MatmulKernel(l[2], l[3], l[4][1], l[4][2], l[4][3], l[4][4])
               [] l[1] = "matmul_add" -> MatmulAddTo(l[2], l[3], l[4][1], l[4][2], l[4][3], l[4][4])
               [] l[1] = "refused" -> MatmulRefused(l[2], l[3], l[4][1], l[4][2], l[4][3], l[4][4], {Output})
               [] l[1] = "batched_gemm" -> BatchedGemmLaunch(l[2], 2, 3, l[3], l[4], l[5])
               [] l \in AttentionLaunches -> AttentionLaunch(l[1], s)
               [] l[1] \in {"linear", "tuned_matmul", "linear_grad"} -> LinearLaunch(l)
               [] l[1] \in {"helper", "flatten", "legacy"} -> OtherMatmul(l)
               [] l[1] = "embeddings" -> EmbEltwiseLayerNormFunctor(s[1], s[2], s[3], s[4])
               [] l[1] = "kvcache" -> KVCacheAttention(s)
               [] l[1] = "kvcache_refused" -> AttentionRefused(FlashAttnKernelKVCacheMate(s))
               [] l[1] \in {"assign", "sum", "add", "grad", "nd_add", "untouched"} -> ScatterLaunch(l[1], l[2], l[3])
               [] OTHER -> BlasCall(l[1], l[2], l[3])]

\* code is a function of launch.
View == <<launch, kernel, block, pc, turn, reg, shared, touched, out>>
=============================================================================
