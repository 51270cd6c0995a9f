------------------------------- MODULE LinearLt -------------------------------
(* Products with an epilogue, and the gradients of out = op(x) op(y) + bias *)
(* (blaslt_impl.mu.h), called one after the other: what autotuning finds    *)
(* for a call is kept, descriptors and all, for later ones with its key.    *)
EXTENDS BlasCalls

None == <<>>     \* a null pointer
-----------------------------------------------------------------------------
(* Epilogues: which data take part besides the product.                     *)

ConvertFusedType(fused_type) ==
  CASE fused_type \in {"kMatmul", "kMatmulGrad", "kMatmulGradWithoutBias", "kMatmulRelu"} -> {}
    [] fused_type \in {"kMatmulBias", "kMatmulBiasRelu", "kMatmulBiasGelu"} -> {"bias"}
    [] fused_type \in {"kMatmulBiasReluWithReservedData", "kMatmulBiasGeluWithReservedData"} -> {"bias", "aux"}
    [] fused_type \in {"kMatmulReluGrad", "kMatmulGeluGrad"} -> {"daux"}
    [] fused_type = "kMatmulBiasGradToA" -> {"bgrada"}
    [] fused_type = "kMatmulBiasGradToB" -> {"bgradb"}

\* Which operands the gradients of x and of y have, and which are transposed.
FusedGEMMGradTrait(TransX, TransY) ==
  CASE ~TransX /\ ~TransY -> [xa |-> "dz", xb |-> "dy", xta |-> FALSE, xtb |-> TRUE,
                              ya |-> "dx", yb |-> "dz", yta |-> TRUE, ytb |-> FALSE]
    [] TransX /\ ~TransY -> [xa |-> "dy", xb |-> "dz", xta |-> FALSE, xtb |-> TRUE,
                             ya |-> "dx", yb |-> "dz", yta |-> FALSE, ytb |-> FALSE]
    [] ~TransX /\ TransY -> [xa |-> "dz", xb |-> "dy", xta |-> FALSE, xtb |-> FALSE,
                             ya |-> "dz", yb |-> "dx", yta |-> TRUE, ytb |-> FALSE]
    [] TransX /\ TransY -> [xa |-> "dy", xb |-> "dz", xta |-> TRUE, xtb |-> TRUE,
                            ya |-> "dz", yb |-> "dx", yta |-> TRUE, ytb |-> TRUE]

\* The library's work on an element of the product, by columns: the row's bias
\* is added, the reserved data are written or take part.
EpilogueOf(op, rows, cols, o) ==
  LET who == 0..rows * cols - 1
      Aux(t) == Shift(op.aux, (t % rows) + (t \div rows) * op.aux_ld)
      LoadIf(on, at) == IF on THEN Load(Product, at) ELSE <<>>
  IN  IF op.epilogue \cap {"bias", "aux", "daux"} = {} THEN <<>>
      ELSE <<[threads |-> who,
              blocks |-> 0 :> Read(Product, [t \in who |-> {Shift(o, t)}])
                              \o LoadIf("bias" \in op.epilogue, [t \in who |-> {Shift(op.bias, t % rows)}])
                              \o LoadIf("daux" \in op.epilogue, [t \in who |-> {Aux(t)}])
                              \o Store(<<Product>>, [t \in who |->
                                   {Shift(o, t)} \cup (IF "aux" \in op.epilogue THEN {Aux(t)} ELSE {})])]>>

\* A gradient of the bias: the sums of the rows of op(A), or of the columns of
\* op(B), whose other side is k.
BiasGradient(op, d, A, B) ==
  LET toA == "bgrada" \in op.epilogue
      who == 0..(IF toA THEN d.o.rows ELSE d.o.cols) - 1
      k == IF op.transA THEN d.y.rows ELSE d.y.cols
      Term(t, l) == IF toA THEN Element(A, d.y.ld, op.transA, t, l) ELSE Element(B, d.x.ld, op.transB, l, t)
  IN  IF op.epilogue \cap {"bgrada", "bgradb"} = {} THEN <<>>
      ELSE <<[threads |-> who,
              blocks |-> 0 :> Load(Product, [t \in who |-> {Term(t, l) : l \in 0..k-1}])
                              \o Store(<<Product>>, [t \in who |-> {Shift(op.bias, t)}])]>>

FusedMatmul(d, x, y, o, adds) ==
  LET product == RunImpl(d, x, y, o, adds)
  IN  IF product = <<>> THEN <<>>
      ELSE product \o EpilogueOf(d.op, d.o.rows, d.o.cols, o) \o BiasGradient(d.op, d, y, x)
-----------------------------------------------------------------------------
(* Descriptors.  A call c has its planner's fields (x_dims, y_dims, bias    *)
(* and aux among them), M, N, K and the operands x, y and o.                *)

\* A mutant of PlannerKey: without no_exchange.
PlannerKeyWithoutExchange(c) == <<c.x_dims, c.y_dims, c.trans_x, c.trans_y, c.dtype, c.fused_type, c.use_addto>>

PlannerKey(c) == <<c.x_dims, c.y_dims, c.trans_x, c.trans_y, c.dtype, c.fused_type, c.use_addto, c.no_exchange>>

SetFusedEpilogueOpDescriptor(c, lead_dim) ==
  [transA |-> c.trans_y, transB |-> c.trans_x,
   epilogue |-> IF c.fused_type = "kMatmul" THEN {} ELSE ConvertFusedType(c.fused_type),
   bias |-> None, aux |-> None, aux_ld |-> IF c.aux # None THEN lead_dim ELSE 0]

MatmulDescriptor(c) ==
  [CreateDescriptor(c.M, c.N, c.K, c.trans_x, c.trans_y, 1, NoStride)
     EXCEPT !.op = SetFusedEpilogueOpDescriptor(c, c.N)]

\* x_desc is always that of the gradient of out.
MatmulGradDescriptor(c) ==
  [op |-> SetFusedEpilogueOpDescriptor(c, IF c.TransX THEN c.M ELSE c.K),
   x |-> CreateMatrixLayout(c.N, c.M, TRUE, 1, 0),
   y |-> IF c.grad_for_dx THEN CreateMatrixLayout(c.K, c.N, c.TransY, 1, 0) ELSE CreateMatrixLayout(c.M, c.K, c.TransX, 1, 0),
   o |-> IF c.grad_for_dx THEN CreateMatrixLayout(c.M, c.K, c.TransX, 1, 0) ELSE CreateMatrixLayout(c.K, c.N, c.TransY, 1, 0)]

ExchangeXYDesc(d, no_exchange) == IF no_exchange THEN d ELSE [d EXCEPT !.x = d.y, !.y = d.x]

\* Pointers of the call replace those of the call the descriptor is from.
SetFusedEpiloguePtr(d, c) ==
  [d EXCEPT !.op.bias = IF c.bias # None THEN c.bias ELSE @, !.op.aux = IF c.aux # None THEN c.aux ELSE @]

\* tuning: whether autotuning is on, FLAGS_cublaslt_exhaustive_search_times,
\* the number of algorithms the library proposes, and whether an int8 product
\* is searched globally and has a result there.
FindDescriptor(tuning, cache, c) ==
  SetFusedEpiloguePtr(
    IF tuning.autotune /\ PlannerKey(c) \in DOMAIN cache THEN cache[PlannerKey(c)]
    ELSE IF c.grad THEN ExchangeXYDesc(MatmulGradDescriptor(c), c.no_exchange) ELSE MatmulDescriptor(c), c)

\* Every proposed algorithm computes the product a number of times.
RunAndMeasureAlgo(tuning, run) == Loop(tuning.times, LAMBDA i : run)
SearchBestAlgo(tuning, run) ==
  IF tuning.results = 1 \/ tuning.times <= 0 THEN <<>>
  ELSE Loop(tuning.results, LAMBDA i : RunAndMeasureAlgo(tuning, run))

\* int8 has its own copies, and a global search before them.
RunAndMeasureAlgoInt8(tuning, run) == RunAndMeasureAlgo(tuning, run)
SearchBestAlgoInt8(tuning, run) ==
  IF tuning.results = 1 \/ tuning.times <= 0 THEN <<>>
  ELSE Loop(tuning.results, LAMBDA i : RunAndMeasureAlgoInt8(tuning, run))
SearchBestAlgoGlobal(tuning, run) == IF tuning.selected THEN <<>> ELSE SearchBestAlgoInt8(tuning, run)

\* The kernels of a call, and the cache after it; the cached descriptor and
\* the call's are one.
SearchedRun(tuning, cache, c) ==
  LET d == FindDescriptor(tuning, cache, c)
      run == FusedMatmul(d, c.x, c.y, c.o, c.use_addto)
      is_cached == tuning.autotune /\ PlannerKey(c) \in DOMAIN cache
      search == tuning.autotune /\ ~is_cached
  IN  [kernels |-> (IF search THEN SearchBestAlgo(tuning, run) ELSE <<>>) \o run,
       cache |-> IF search \/ is_cached THEN PlannerKey(c) :> d @@ cache ELSE cache]

\* int8: a descriptor found globally is kept, but looked for only by autotuning.
SearchedRunInt8(tuning, cache, c) ==
  LET d == FindDescriptor(tuning, cache, c)
      run == FusedMatmul(d, c.x, c.y, c.o, c.use_addto)
      is_cached == tuning.autotune /\ PlannerKey(c) \in DOMAIN cache
      search == (tuning.global \/ tuning.autotune) /\ ~is_cached
      Searched == IF tuning.global THEN SearchBestAlgoGlobal(tuning, run) ELSE SearchBestAlgoInt8(tuning, run)
  IN  IF ~Int8Sizes(c.M, c.N, c.K, c.trans_x, c.trans_y) THEN [kernels |-> <<>>, cache |-> cache]
      ELSE [kernels |-> (IF search THEN Searched ELSE <<>>) \o run,
            cache |-> IF search \/ is_cached THEN PlannerKey(c) :> d @@ cache ELSE cache]

RunCalls(tuning, calls) ==
  FoldLeft(LAMBDA before, c :
             LET r == IF c.dtype = "int8" THEN SearchedRunInt8(tuning, before.cache, c) ELSE SearchedRun(tuning, before.cache, c)
             IN  [kernels |-> before.kernels \o r.kernels, cache |-> r.cache],
           [kernels |-> <<>>, cache |-> <<>>], calls).kernels
-----------------------------------------------------------------------------
(* Calls.  A layer s has the sizes M, N and K, TransX and TransY, and in    *)
(* every tensor its part, which begins at s.at.                             *)

Tensor(s, n) == <<n, s.at>>
Sides(trans, m, n) == IF trans THEN <<n, m>> ELSE <<m, n>>

\* What the calls have in common.
PlannerOf(s, x_dims, y_dims, trans_x, trans_y, fused_type, bias, aux, use_addto, no_exchange) ==
  [x_dims |-> x_dims, y_dims |-> y_dims, trans_x |-> trans_x, trans_y |-> trans_y, dtype |-> s.dtype,
   fused_type |-> fused_type, bias |-> bias, aux |-> aux, use_addto |-> use_addto, no_exchange |-> no_exchange,
   M |-> s.M, N |-> s.N, K |-> s.K, TransX |-> s.TransX, TransY |-> s.TransY]

LinearWithCublasLt(s, fused_type, bias, aux) ==
  PlannerOf(s, Sides(s.TransX, s.M, s.K), Sides(s.TransY, s.K, s.N), s.TransX, s.TransY, fused_type, bias, aux, FALSE, TRUE)
  @@ [grad |-> FALSE, grad_for_dx |-> FALSE, x |-> Tensor(s, "x"), y |-> Tensor(s, "y"), o |-> Tensor(s, "out")]

\* MatmulWithCublasLt's planner is that of a layer without a bias.
TunedMatmul(s) == LinearWithCublasLt(s, "kMatmul", None, None)

\* x is the gradient of out, y the other operand.
LinearGradWithCublasLt(s, x, y, y_dims, target, bias, aux, fused_type, trans_x, trans_y, use_addto, no_exchange, grad_for_dx) ==
  PlannerOf(s, <<s.M, s.N>>, y_dims, trans_x, trans_y, fused_type, bias, aux, use_addto, no_exchange)
  @@ [grad |-> TRUE, grad_for_dx |-> grad_for_dx, x |-> IF no_exchange THEN x ELSE y, y |-> IF no_exchange THEN y ELSE x, o |-> target]

\* Paddle's gradient of the layer.
LinearBackward(s, aux, has_bias, use_addto) ==
  LET trait == FusedGEMMGradTrait(s.TransX, s.TransY)
      dz == Tensor(s, "dout")
  IN  <<LinearGradWithCublasLt(s, dz, Tensor(s, "y"), Sides(s.TransY, s.K, s.N), Tensor(s, "dx"), None, aux,
          IF aux = None THEN "kMatmulGrad" ELSE "kMatmulReluGrad", trait.xta, trait.xtb, use_addto, trait.xa = "dz", TRUE),
        LinearGradWithCublasLt(s, dz, Tensor(s, "x"), Sides(s.TransX, s.M, s.K), Tensor(s, "dy"),
          IF has_bias THEN Tensor(s, "dbias") ELSE None, None,
          IF ~has_bias THEN "kMatmulGradWithoutBias" ELSE IF s.TransY THEN "kMatmulBiasGradToB" ELSE "kMatmulBiasGradToA",
          trait.yta, trait.ytb, use_addto, trait.ya = "dz", FALSE)>>
-----------------------------------------------------------------------------
(* What they have to compute.                                               *)

\* n elements of a tensor, each the bag of these.
Contents(s, tensor, n, Terms(_), adds) ==
  [o \in {Shift(Tensor(s, tensor), e) : e \in 0..n-1} |->
     <<SetToBag(Terms(o[2] - s.at)) (+) (IF adds THEN SetToBag({o}) ELSE EmptyBag)>>]

LinearExpected(s, bias, aux) ==
  LET Terms(e) == LET i == e \div s.N
                      j == e % s.N
                  IN  {Times(ByRows(Tensor(s, "x"), IF s.TransX THEN s.M ELSE s.K, s.TransX, i, l),
                             ByRows(Tensor(s, "y"), IF s.TransY THEN s.K ELSE s.N, s.TransY, l, j)) : l \in 0..s.K-1}
                      \cup (IF bias THEN {Shift(Tensor(s, "bias"), j)} ELSE {})
      Out(n) == Contents(s, n, s.M * s.N, Terms, FALSE)
  IN  IF aux THEN Out("out") @@ Out("aux") ELSE Out("out")

LinearBackwardExpected(s, aux, has_bias, adds) ==
  LET Dz(i, j) == Shift(Tensor(s, "dout"), i * s.N + j)
      XAt(i, l) == ByRows(Tensor(s, "x"), IF s.TransX THEN s.M ELSE s.K, s.TransX, i, l)
      YAt(l, j) == ByRows(Tensor(s, "y"), IF s.TransY THEN s.K ELSE s.N, s.TransY, l, j)
      OfX(e) == LET i == IF s.TransX THEN e % s.M ELSE e \div s.K
                    l == IF s.TransX THEN e \div s.M ELSE e % s.K
                IN  {Times(Dz(i, j), YAt(l, j)) : j \in 0..s.N-1} \cup (IF aux THEN {Shift(Tensor(s, "mask"), e)} ELSE {})
      OfY(e) == LET l == IF s.TransY THEN e % s.K ELSE e \div s.N
                    j == IF s.TransY THEN e \div s.K ELSE e % s.N
                IN  {Times(XAt(i, l), Dz(i, j)) : i \in 0..s.M-1}
      OfBias(j) == {Dz(i, j) : i \in 0..s.M-1}
  IN  Contents(s, "dx", s.M * s.K, OfX, adds) @@ Contents(s, "dy", s.K * s.N, OfY, adds)
      @@ (IF has_bias THEN Contents(s, "dbias", s.N, OfBias, FALSE) ELSE <<>>)

\* Layers one after the other, forward or backward, sharing the cache.
Linears(tuning, layers, fused_type) ==
  LET epilogue == ConvertFusedType(fused_type)
      CallOf(s) == LinearWithCublasLt(s, fused_type, IF "bias" \in epilogue THEN Tensor(s, "bias") ELSE None,
                                      IF "aux" \in epilogue THEN Tensor(s, "aux") ELSE None)
  IN  Called(RunCalls(tuning, [i \in DOMAIN layers |-> CallOf(layers[i])]),
             FoldLeft(LAMBDA f, s : LinearExpected(s, "bias" \in epilogue, "aux" \in epilogue) @@ f, <<>>, layers))

TunedMatmuls(tuning, layers) ==
  Called(RunCalls(tuning, [i \in DOMAIN layers |-> TunedMatmul(layers[i])]),
         FoldLeft(LAMBDA f, s : LinearExpected(s, FALSE, FALSE) @@ f, <<>>, layers))

LinearGrads(tuning, layers, aux, has_bias, adds) ==
  Called(RunCalls(tuning, FoldLeft(LAMBDA q, s : q \o LinearBackward(s, IF aux THEN Tensor(s, "mask") ELSE None, has_bias, adds), <<>>, layers)),
         FoldLeft(LAMBDA f, s : LinearBackwardExpected(s, aux, has_bias, adds) @@ f, <<>>, layers))
=============================================================================
