-------------------------- MODULE LayerNormKernels --------------------------
(* The kernels of layer normalisation (layer_norm_impl.mu.h): mean and      *)
(* variance of every row forward; backward the gradients of scale and bias, *)
(* which are sums over a column, and that of x, which needs two sums over   *)
(* its row.  What register k sums is the set of the elements <<k, row, col>>. *)
EXTENDS WarpReductions

CONSTANTS
  MaxBlockDim,    \* 512
  MaxBlockNum,    \* 128 columns to a launch
  CtaWarps,       \* 4 warps to a block of the fast kernels
  WideRow,        \* 1024: from here on several warps share a row
  RowPerBlock,    \* 4 rows, a warp each, to a block of the Welford kernel
  FinalWarps,     \* 16: rows of the partial sums added at a time
  FastGrid,       \* twice the number of multiprocessors
  FastForward, FastBackward,   \* the feature sizes that have a fast kernel
  VPT,            \* 4, values per thread, and as many rows of threads
  PartSize,       \* 16 partial sums of a column
  BDIMY2, BDIMY3, \* 8 and 4 rows of threads
  PerThread,      \* 8 elements a thread can hold
  SmallFeature,   \* 2048
  MaxBlockDimY    \* 8

ASSUME LayerNormSizes ==
  /\ MaxBlockDim \in Nat /\ MaxBlockNum \in Nat /\ CtaWarps \in Nat /\ WideRow \in Nat
  /\ RowPerBlock \in Nat
  /\ FinalWarps \in Nat /\ FastGrid \in Nat /\ VPT \in Nat /\ PartSize \in Nat
  /\ BDIMY2 \in Nat /\ BDIMY3 \in Nat /\ PerThread \in Nat /\ SmallFeature \in Nat
  /\ MaxBlockDimY \in Nat /\ FastForward \subseteq Nat /\ FastBackward \subseteq Nat

Lane(t) == t % WarpSize
CeilOf(a, b) == (a + b - 1) \div b
Every(first, last, step) == {i \in first..last : (i - first) % step = 0}

\* The elements of register k in row r, and in column c.
OfRow(k, r, columns) == {<<k, r, c>> : c \in columns}
OfColumn(k, rows, c) == {<<k, r, c>> : r \in rows}

\* Scale and bias go together through the kernels below, and so do the two
\* sums of a row.
Both(f(_), pair) == f(pair[1]) \o f(pair[2])
Gradients == <<"scale", "bias">>
Losses == <<"loss1", "loss2">>

\* The register in which a thread sums k, and the buffers of partial sums.
Of(k) == <<k, 0>>
Cta == [scale |-> "cta_dgamma_sum", bias |-> "cta_dbeta_sum"]
Temp == [scale |-> "dscale_temp", bias |-> "dbias_temp"]
PartGrad == [scale |-> "part_grad_gamma", bias |-> "part_grad_beta"]
-----------------------------------------------------------------------------
\* A mutant of BlockReduceSum: the first warp does not wait for the sums.
BlockReduceSumUnsynced(r, smem, who) ==
  LET warps == Cardinality(who) \div WarpSize
  IN  DownReduce(r, who)
      \o Put(r, [t \in {u \in who : Lane(u) = 0} |-> {<<smem, Warp(t)>>}])
      \o Clear(r, {t \in who : t >= warps})
      \o Get(r, [t \in {u \in who : u < warps} |-> <<smem, Lane(t)>>])
      \o DownReduce(r, {t \in who : Warp(t) = 0})

BlockReduceSum(r, smem, who) ==
  LET warps == Cardinality(who) \div WarpSize
  IN  DownReduce(r, who)
      \o Put(r, [t \in {u \in who : Lane(u) = 0} |-> {<<smem, Warp(t)>>}])
      \o Sync(who)
      \o Clear(r, {t \in who : t >= warps})
      \o Get(r, [t \in {u \in who : u < warps} |-> <<smem, Lane(t)>>])
      \o DownReduce(r, {t \in who : Warp(t) = 0})

GetDesiredBlockDim(n) == IF n >= MaxBlockDim THEN MaxBlockDim ELSE WarpSize

\* Forward, a block of bd threads per row.
LayerNormForward(bd, row, cols) ==
  LET who == 0..bd - 1
      At(k) == [t \in who |-> OfRow(k, row, Every(t, cols - 1, bd))]
      first(x) == [t \in {0} |-> {x}]
  IN  Load(Of("mean"), At("mean")) \o Load(Of("var"), At("var"))
      \o BlockReduceSum(Of("mean"), "shared_mean", who) \o BlockReduceSum(Of("var"), "shared_var", who)
      \o Store(<<Of("mean")>>, first(<<"mean", row, 0>>)) \o Put(Of("mean"), first(<<"mean_share", 0>>))
      \o Put(Of("var"), first(<<"var_share", 0>>)) \o Store(<<Of("mean"), Of("var")>>, first(<<"var", row, 0>>))
      \o Sync(who)
      \o Get(Of("mean"), [t \in who |-> <<"mean_share", 0>>]) \o Get(Of("var"), [t \in who |-> <<"var_share", 0>>])
      \o Store(<<Of("mean"), Of("var")>>, At("y"))

\* Forward, M rows to a block and N warps to a row; vectors of V elements.
\* A grid of ceil(rows / M) blocks leaves each warp one row.
FastRows(M, N, V, b, rows, cols) ==
  LET perRow == N * WarpSize
      who == {t \in 0..M * perRow - 1 : b * M + Warp(t) \div N < rows}
      loads == cols \div (perRow * V)
  IN  [who |-> who, warps |-> N, leaders |-> {t \in who : Lane(t) = 0}, firsts |-> {t \in who : t % perRow = 0},
       row |-> [t \in who |-> b * M + Warp(t) \div N],
       columns |-> [t \in who |-> {((t % perRow) + it * perRow) * V + j : it \in 0..loads - 1, j \in 0..V - 1}]]

\* Register r of a warp, and of the warps that share a row.
FastRowSum(g, r) ==
  LET Level(k) == CudaShuffleXorSync(r, g.who, 2^(k - 1))
      first(t) == (Warp(t) \div g.warps) * g.warps
      cell(n) == <<"smem", n>>
  IN  Loop(Log2Ceil(WarpSize), Level)
      \o IF g.warps = 1 THEN <<>>
         ELSE Put(r, [t \in g.leaders |-> {cell(Warp(t))}]) \o Sync(g.who)
              \o Clear(r, g.firsts) \o Add(r, [t \in g.firsts |-> {cell(first(t) + n) : n \in 0..g.warps - 1}])
              \o Put(r, [t \in g.firsts |-> {cell(first(t))}]) \o Sync(g.who)
              \o Get(r, [t \in g.who |-> cell(first(t))])

\* The second sum waits until every warp has the first one.
FastLnFwd(g) ==
  LET At(k) == [t \in g.who |-> OfRow(k, g.row[t], g.columns[t])]
      OnePer(k) == [t \in g.leaders |-> {<<k, g.row[t], 0>>}]
  IN  Load(Of("mean"), At("mean")) \o FastRowSum(g, Of("mean")) \o Store(<<Of("mean")>>, OnePer("mean"))
      \o LoadUnder(Of("var"), Of("mean"), At("var"))
      \o (IF g.warps > 1 THEN Sync(g.who) ELSE <<>>)
      \o FastRowSum(g, Of("var"))
      \o Store(<<Of("mean"), Of("var")>>, OnePer("var")) \o Store(<<Of("mean"), Of("var")>>, At("y"))

(* Forward with fast math: mean and variance in one pass (Welford), a warp  *)
(* to a row.                                                                *)

\* The columns that lane l keeps in a buffer of WarpSize values: vectors a
\* warp apart or, one by one, every last-th; lane last gets what is left over.
WelfordColumns(l, cols, perThread, V) ==
  LET last == cols \div perThread
      taken == IF V > 1 \/ l < last THEN perThread ELSE IF l = last THEN cols - perThread * last ELSE 0
      Slot(i) == IF V > 1 THEN (l + (i \div V) * WarpSize) * V + (i % V)
                 ELSE IF l < last THEN l + last * i ELSE perThread * last + i
  IN  {Slot(i) : i \in {i \in 0..taken - 1 : i < WarpSize}}

\* Growing deltas leave the total with the first lane, which all then take.
WelfordWarpAllReduce(r, who) ==
  LET Level(k) == CudaShuffleDownSync(r, who, 2^(k - 1))
      others == {t \in who : Lane(t) # 0}
  IN  Loop(Log2Ceil(WarpSize), Level)
      \o Clear(r, others) \o Combine(r, [t \in others |-> Warp(t) * WarpSize])

LayerNormFwdWithWelford(b, rows, cols, perThread, V) ==
  LET row(t) == b * RowPerBlock + Warp(t)
      who == {t \in 0..RowPerBlock * WarpSize - 1 : row(t) < rows}
      At(k) == [t \in who |-> OfRow(k, row(t), WelfordColumns(Lane(t), cols, perThread, V))]
      first(k) == [t \in {t \in who : Lane(t) = 0} |-> {<<k, row(t), 0>>}]
  IN  Load(Of("mean"), At("mean")) \o Load(Of("var"), At("var"))
      \o WelfordWarpAllReduce(Of("mean"), who) \o WelfordWarpAllReduce(Of("var"), who)
      \o Store(<<Of("mean")>>, first("mean")) \o Store(<<Of("mean"), Of("var")>>, first("var"))
      \o Store(<<Of("mean"), Of("var")>>, At("y"))
-----------------------------------------------------------------------------
(* Backward, the fast kernels: partial sums of a column per block, and d_x; *)
(* then the sums over the blocks.                                           *)

\* Element j of a vector's worth of its columns that a thread has.
FusedColumn(V, t, j) == (Lane(t) + ((j - 1) \div V) * WarpSize) * V + ((j - 1) % V)

\* One round: a row to each warp, its d_x and its part of every column.
FusedLnBwdRows(V, each, row, now) ==
  LET At(k) == [t \in now |-> OfRow(k, row[t], {FusedColumn(V, t, j) : j \in 1..each})]
      Level(k, i) == CudaShuffleXorSync(Of(k), now, 2^(i - 1))
      Sum(k) == LET L(i) == Level(k, i)
                IN  Clear(Of(k), now) \o Load(Of(k), At(k)) \o Loop(Log2Ceil(WarpSize), L)
      Columns(k) == LET C(j) == Load(<<k, j>>, [t \in now |-> {<<k, row[t], FusedColumn(V, t, j)>>}]) IN Loop(each, C)
  IN  Both(Columns, Gradients) \o Both(Sum, Losses) \o Store(<<Of("loss1"), Of("loss2")>>, At("d_x"))

\* The columns over the warps of the block, through the same shared memory
\* for bias and then for scale.
FusedLnBwdColumns(V, each, b, who, cols) ==
  LET threads == Cardinality(who)
      parts == cols \div threads
      Spread(k) == LET P(j) == Put(<<k, j>>, [t \in who |-> {<<"smem", Warp(t) * cols + FusedColumn(V, t, j)>>}])
                   IN  Loop(each, P)
      Gather(k) == LET A(j) == Add(<<Cta[k], j>>, [t \in who |-> {<<"smem", m * cols + t + (j - 1) * threads>> : m \in 0..CtaWarps-1}])
                   IN  Loop(parts, A)
      Write(k) == LET S(j) == Store(<<<<Cta[k], j>>>>, [t \in who |-> {<<Temp[k], b, t + (j - 1) * threads>>}])
                  IN  Loop(parts, S)
  IN  Spread("bias") \o Sync(who) \o Gather("bias") \o Sync(who)
      \o Spread("scale") \o Sync(who) \o Gather("scale") \o Both(Write, Gradients)

FusedLnBwdFast(V, b, rows, cols) ==
  LET M == CtaWarps
      who == 0..M * WarpSize - 1
      each == cols \div WarpSize
      Round(n) ==
        LET row == [t \in who |-> b * M + Warp(t) + (n - 1) * FastGrid * M]
        IN  FusedLnBwdRows(V, each, row, {t \in who : row[t] < rows})
  IN  Loop(CeilOf(rows - b * M, FastGrid * M), Round) \o FusedLnBwdColumns(V, each, b, who, cols)

\* Each block sums WarpSize columns over the FastGrid partial sums.
LnBwdFastFinal(b, cols) ==
  LET M == FinalWarps
      who == {t \in 0..M * WarpSize - 1 : b * WarpSize + Lane(t) < cols}
      col(t) == b * WarpSize + Lane(t)
      Partial(k) == Read(Of(k), [t \in who |-> OfColumn(Temp[k], Every(Warp(t), FastGrid - 1, M), col(t))])
      lowest == {t \in who : Warp(t) = 0}
      cell(m, t) == <<"smem", m * WarpSize + Lane(t)>>
      Give(k) == Put(Of(k), [t \in who \ lowest |-> {cell(Warp(t) - 1, t)}])
      Take(k) == Add(Of(k), [t \in lowest |-> {cell(m, t) : m \in 0..M-2}])
      Write(k) == Store(<<Of(k)>>, [t \in lowest |-> {<<k, 0, col(t)>>}])
  IN  Both(Partial, Gradients)
      \o Give("scale") \o Sync(who) \o Take("scale") \o Sync(who)
      \o Give("bias") \o Sync(who) \o Take("bias") \o Both(Write, Gradients)
-----------------------------------------------------------------------------
(* Backward, any other feature size: columns in two steps, then the rows.   *)

\* The cell of warp_buf1, for bias, or warp_buf2, for scale.
PartCell(k, row, col) ==
  LET stride == WarpSize + 1
  IN  <<"buf", (IF k = "bias" THEN 0 ELSE VPT * VPT * stride) + row * stride + col>>

\* VPT * VPT rows from i1_block on are added to the sums: VPT columns of one
\* row to a thread.
cuLoadAddStridedInputs(i1_block, bx, who, n1, n2) ==
  LET loadCol(t) == (Lane(t) * VPT) % WarpSize
      loadRow(t) == (Lane(t) * VPT) \div WarpSize + Warp(t) * VPT
      i1(t) == i1_block + loadRow(t)
      i2(t, j) == bx * WarpSize + loadCol(t) + j
  IN  Accumulate([t \in {t \in who : i1(t) < n1} |->
        {<<PartCell(k, loadRow(t), loadCol(t) + j), <<k, i1(t), i2(t, j)>>>> :
           k \in {"bias", "scale"}, j \in {j \in 0..VPT-1 : i2(t, j) < n2}}])

\* Block <<bx, by>> sums, for WarpSize columns, every PartSize-th group of
\* VPT * VPT rows.
PartGradGammaBeta(bx, by, n1, n2) ==
  LET who == 0..WarpSize * VPT - 1
      x(t) == Lane(t)
      y(t) == Warp(t)
      cell(k, row, col) == PartCell(k, row, col)
      group == VPT * VPT
      Group(n) == cuLoadAddStridedInputs((by + (n - 1) * PartSize) * group, bx, who, n1, n2)
      Own(k) == Add(Of(k), [t \in who |-> {cell(k, y(t) + j * VPT, x(t)) : j \in 0..VPT-1}])
      Back(k) == Put(Of(k), [t \in who |-> {cell(k, y(t), x(t))}])
      lower(j) == {t \in who : y(t) < VPT \div 2^j}
      Halve(k, j) == Clear(Of(k), lower(j))
                     \o Add(Of(k), [t \in lower(j) |-> {cell(k, y(t), x(t)), cell(k, y(t) + VPT \div 2^j, x(t))}])
                     \o Put(Of(k), [t \in lower(j) |-> {cell(k, y(t), x(t))}])
      Halving(j) == LET H(k) == Halve(k, j) IN Both(H, Gradients) \o Sync(who)
      last == {t \in who : y(t) = 0 /\ bx * WarpSize + x(t) < n2}
      Write(k) == Clear(Of(k), last) \o Add(Of(k), [t \in last |-> {cell(k, 0, x(t)), cell(k, 1, x(t))}])
                  \o Store(<<Of(k)>>, [t \in last |-> {<<PartGrad[k], by, bx * WarpSize + x(t)>>}])
  IN  Put(Of("zero"), [t \in who |-> {<<"buf", i>> : i \in Every(t, 2 * group * (WarpSize + 1) - 1, WarpSize * VPT)}])
      \o Sync(who)
      \o Loop(CeilOf(n1 - by * group, group * PartSize), Group)
      \o Sync(who)
      \o Both(Own, Gradients) \o Both(Back, Gradients) \o Sync(who)
      \o Loop(Log2Ceil(VPT) - 1, Halving)
      \o Both(Write, Gradients)

\* The threads beyond the last column leave the barriers out.
SumGradGammaBeta(bx, n2) ==
  LET who == {t \in 0..WarpSize * BDIMY2 - 1 : bx * WarpSize + Lane(t) < n2}
      y(t) == Warp(t)
      i2(t) == bx * WarpSize + Lane(t)
      each == PartSize \div BDIMY2
      base(k) == IF k = "scale" THEN 0 ELSE (WarpSize * BDIMY2) \div 2
      cell(k, row, t) == <<"buf", base(k) + row * WarpSize + Lane(t)>>
      Sum(k) == Read(Of(k), [t \in who |-> OfColumn(PartGrad[k], y(t) * each..(y(t) + 1) * each - 1, i2(t))])
      Halving(j) ==
        LET offset == BDIMY2 \div 2^j
            Give(k) == Put(Of(k), [t \in {t \in who : y(t) \in offset..2 * offset - 1} |-> {cell(k, y(t) - offset, t)}])
            Take(k) == Add(Of(k), [t \in {t \in who : y(t) < offset} |-> {cell(k, y(t), t)}])
        IN  Both(Give, Gradients) \o Sync(who) \o Both(Take, Gradients) \o Sync(who)
      Write(k) == Store(<<Of(k)>>, [t \in {t \in who : y(t) = 0} |-> {<<k, 0, i2(t)>>}])
  IN  Both(Sum, Gradients) \o Loop(Log2Ceil(BDIMY2), Halving) \o Both(Write, Gradients)

\* Both sums of a row from the warps of by rows of threads to all of them.
BlockTotals(who, by) ==
  LET y(t) == Warp(t)
      cell(k, row, t) == <<"buf", 2 * (row * WarpSize + Lane(t)) + IF k = "loss1" THEN 0 ELSE 1>>
      Halving(j) ==
        LET offset == by \div 2^j
            Give(k) == Put(Of(k), [t \in {t \in who : y(t) \in offset..2 * offset - 1} |-> {cell(k, y(t) - offset, t)}])
            Take(k) == Add(Of(k), [t \in {t \in who : y(t) < offset} |-> {cell(k, y(t), t)}])
        IN  Both(Give, Losses) \o Sync(who) \o Both(Take, Losses) \o Sync(who)
      Publish(k) == Put(Of(k), [t \in {t \in who : y(t) = 0} |-> {cell(k, 0, t)}])
      Learn(k) == Get(Of(k), [t \in {t \in who : y(t) # 0} |-> cell(k, 0, t)])
  IN  IF by = 1 THEN <<>>
      ELSE Loop(Log2Ceil(by), Halving) \o Both(Publish, Losses) \o Sync(who) \o Both(Learn, Losses)

\* Vectors of four, then what is left of the row.
ComputeGradInput(row, n2) ==
  LET who == 0..WarpSize * BDIMY3 - 1
      starts(t) == {l \in Every(4 * t, n2 - 1, 4 * Cardinality(who)) : l + 3 < n2}
      tail(t) == 4 * t + 4 * Cardinality(who) * Cardinality(starts(t))
      Visited(t) == {l + j : l \in starts(t), j \in 0..3} \cup tail(t)..n2 - 1
      Sum(k) == Load(Of(k), [t \in who |-> OfRow(k, row, Visited(t))]) \o ButterflyReduce(Of(k), who, WarpSize)
  IN  Both(Sum, Losses) \o BlockTotals(who, BDIMY3)
      \o Store(<<Of("loss1"), Of("loss2")>>, [t \in who |-> OfRow("d_x", row, Every(t, n2 - 1, Cardinality(who)))])

\* Every thread keeps what it has read, PerThread elements and no more, for
\* the second use of them.
SmallComputeGradInput(row, n2, V, by) ==
  LET who == 0..WarpSize * by - 1
      Vectors(t) == Every(t, n2 \div V - 1, Cardinality(who))
      Visited(t) == {V * l + j : l \in Vectors(t), j \in 0..V-1}
      Kept(t) == {c \in Visited(t) : V * ((c \div V) \div Cardinality(who)) + (c % V) < PerThread}
      Sum(k) == Load(Of(k), [t \in who |-> OfRow(k, row, Kept(t))]) \o ButterflyReduce(Of(k), who, WarpSize)
  IN  Both(Sum, Losses) \o BlockTotals(who, by)
      \o Store(<<Of("loss1"), Of("loss2")>>, [t \in who |-> OfRow("d_x", row, Kept(t))])
-----------------------------------------------------------------------------
(* Backward when not all three gradients are asked for.                     *)

\* cub::BlockReduce: thread 0 gets the sum over the block.
BlockReduce(r, smem, who) ==
  DownReduce(r, who)
  \o Put(r, [t \in {u \in who : Lane(u) = 0} |-> {<<smem, Warp(t)>>}])
  \o Sync(who)
  \o Add(r, [t \in {0} |-> {<<smem, w>> : w \in 1..Cardinality(who) \div WarpSize - 1}])

\* d_x before the sums over its row are taken away, with the factor scale or
\* without it.  It is kept in d_x itself, each element overwritten by the one
\* thread that reads it, and goes by a name of its own here.
Factor(hasScale) == IF hasScale THEN "d_x_scaled" ELSE "d_x_unscaled"

\* Block b has column col.
GradientAll(bd, col, rows) ==
  LET who == 0..bd - 1
      At(k) == [t \in who |-> OfColumn(k, Every(t, rows - 1, bd), col)]
      Sum(k) == Load(Of(k), At(k))
      Reduce(k) == BlockReduceSum(Of(k), IF k = "scale" THEN "shared_scale" ELSE "shared_bias", who)
      Write(k) == Store(<<Of(k)>>, [t \in {0} |-> {<<k, 0, col>>}])
  IN  Both(Sum, Gradients) \o Both(Reduce, Gradients) \o Both(Write, Gradients)

GradientScaleOrBias(k, hasDx, hasScale, bd, col, rows) ==
  LET who == 0..bd - 1
      At(e) == [t \in who |-> OfColumn(e, Every(t, rows - 1, bd), col)]
  IN  Load(Of(k), At(k)) \o (IF hasDx THEN Store(<<<<>>>>, At(Factor(hasScale))) ELSE <<>>)
      \o BlockReduce(Of(k), "temp_storage", who) \o Store(<<Of(k)>>, [t \in {0} |-> {<<k, 0, col>>}])

\* The sums over the row of what fill leaves in the two registers, then d_x.
FinishDX(bd, row, cols, fill) ==
  LET who == 0..bd - 1
      Reduce(k) == BlockReduce(Of(k), IF k = "loss1" THEN "first_" ELSE "second_", who)
      cell(k) == <<"d_x_reduce_tmp", IF k = "loss1" THEN 0 ELSE 1>>
      Give(k) == Put(Of(k), [t \in {0} |-> {cell(k)}])
      Take(k) == Get(Of(k), [t \in who |-> cell(k)])
  IN  fill \o Both(Reduce, Losses) \o Both(Give, Losses) \o Sync(who) \o Both(Take, Losses)
      \o Store(<<Of("loss1"), Of("loss2")>>, [t \in who |-> OfRow("d_x", row, Every(t, cols - 1, bd))])

PostProcessToCalculateDX(bd, row, cols, left) ==
  LET Fill(k) == Read(Of(k), [t \in 0..bd - 1 |-> OfRow(left, row, Every(t, cols - 1, bd))])
  IN  FinishDX(bd, row, cols, Both(Fill, Losses))

GradientOnlyDX(bd, row, cols, hasScale) ==
  LET Fill(k) == Load(Of(k), [t \in 0..bd - 1 |-> OfRow(Factor(hasScale), row, Every(t, cols - 1, bd))])
  IN  FinishDX(bd, row, cols, Both(Fill, Losses))

\* Every thread has a column of the only row.  The factor scale is taken when
\* its gradient is asked for, not when it is given.
WhenBatchSizeIsOne(b, hasDx, gradients, cols) ==
  LET who == {t \in 0..MaxBlockDim - 1 : b * MaxBlockDim + t < cols}
      col(t) == b * MaxBlockDim + t
      Own(e, r) == Store(<<r>>, [t \in who |-> {<<e, 0, col(t)>>}])
      Gradient(k) == IF k \in gradients
                     THEN Load(Of(k), [t \in who |-> {<<k, 0, col(t)>>}]) \o Own(k, Of(k)) ELSE <<>>
  IN  (IF hasDx THEN Own(Factor("scale" \in gradients), <<>>) ELSE <<>>) \o Both(Gradient, Gradients)
-----------------------------------------------------------------------------
(* The drivers.                                                             *)

Kernel(threads, blocks) == <<[threads |-> threads, blocks |-> blocks]>>

LayerNormForwardExpected(rows, cols, fast) ==
  LET Total(k, row) == SetToBag(OfRow(k, row, 0..cols - 1))
      Mean(row) == Total("mean", row)
      Var(row) == IF fast THEN SetToBag({<<e, Mean(row)>> : e \in OfRow("var", row, 0..cols - 1)})
                  ELSE Total("var", row)
  IN  [o \in {<<"y", r, c>> : r \in 0..rows-1, c \in 0..cols-1} \cup {"mean", "var"} \X (0..rows-1) \X {0} |->
         IF o[1] = "mean" THEN <<Mean(o[2])>> ELSE <<Mean(o[2]), Var(o[2])>>]

FastKernel(rows, cols, V) ==
  LET N == IF cols < WideRow THEN 1 ELSE cols \div WideRow
      M == CtaWarps \div N
  IN  Kernel(0..M * N * WarpSize - 1, [b \in 0..CeilOf(rows, M) - 1 |-> FastLnFwd(FastRows(M, N, V, b, rows, cols))])

\* Vectors only for rows of whole warps, and only with scale or bias; V is
\* what the alignment of the tensors allows.
LaunchLayerNormKernel(affine, rows, cols, V) ==
  LET perThread == CeilOf(cols, WarpSize)
      vectors == IF perThread > 1 /\ cols % WarpSize = 0 /\ affine # {}
                 THEN {size \in {1, 2, 4} : size <= V /\ perThread % size = 0} ELSE {1}
      vec == CHOOSE size \in vectors : \A other \in vectors : other <= size
  IN  Kernel(0..RowPerBlock * WarpSize - 1,
             [b \in 0..CeilOf(rows, RowPerBlock) - 1 |-> LayerNormFwdWithWelford(b, rows, cols, perThread, vec)])

BlockKernel(rows, cols) ==
  LET bd == GetDesiredBlockDim(cols)
  IN  Kernel(0..bd - 1, [b \in 0..rows - 1 |-> LayerNormForward(bd, b, cols)])

\* Of scale and bias, those in affine are given; fastMath is the flag.  An
\* input without elements starts nothing.
LayerNorm(fastMath, affine, rows, cols, V) ==
  LET fast == cols \in FastForward /\ affine = {"scale", "bias"}
  IN  [kernels |-> IF rows * cols = 0 THEN <<>>
                   ELSE IF fast THEN FastKernel(rows, cols, V)
                   ELSE IF fastMath /\ cols <= WideRow THEN LaunchLayerNormKernel(affine, rows, cols, V)
                   ELSE BlockKernel(rows, cols),
       expected |-> LayerNormForwardExpected(rows, cols, fast), temporaries |-> {}]

\* Flags, who asks for what: d_x, and the gradients of scale and bias.
LayerNormBackwardExpected(hasDx, gradients, rows, cols, loss1, loss2) ==
  LET Row(k, row) == SetToBag(OfRow(k, row, 0..cols - 1))
      Column(k, col) == SetToBag(OfColumn(k, 0..rows - 1, col))
  IN  [o \in (gradients \X {0} \X (0..cols-1)) \cup (IF hasDx THEN {"d_x"} \X (0..rows-1) \X (0..cols-1) ELSE {}) |->
         IF o[1] = "d_x" THEN <<Row(loss1, o[2]), Row(loss2, o[2])>> ELSE <<Column(o[1], o[3])>>]

\* The buffers of partial sums, rows x cols; d_x before it is finished.
Buffers(names, rows, cols) == names \X (0..rows-1) \X (0..cols-1)

VecSizeJudgeForeGradInput(n, vec) ==
  IF n % vec = 0 THEN vec ELSE IF vec = 4 /\ n % 2 = 0 THEN 2 ELSE 1

\* d_x and the sums of each block, then the sums over the blocks.
LnBwdFastParts(rows, cols, V) ==
  Kernel(0..CtaWarps * WarpSize - 1, [b \in 0..FastGrid - 1 |-> FusedLnBwdFast(V, b, rows, cols)])

LnBwdFastSums(cols) ==
  Kernel(0..FinalWarps * WarpSize - 1, [b \in 0..CeilOf(cols, WarpSize) - 1 |-> LnBwdFastFinal(b, cols)])

\* The columns in groups of at most MaxBlockNum, a launch each.
ColumnKernels(bd, cols, programs) ==
  LET Group(i) == LET offset == (i - 1) * MaxBlockNum
                      blocks == IF cols - offset < MaxBlockNum THEN cols - offset ELSE MaxBlockNum
                  IN  Kernel(0..bd - 1, [b \in 0..blocks - 1 |-> programs[offset + b]])
  IN  Loop(CeilOf(cols, MaxBlockNum), Group)

ColumnGradients(rows, cols) ==
  LET groups == CeilOf(cols, WarpSize)
  IN  Kernel(0..WarpSize * VPT - 1, [b \in 0..groups * PartSize - 1 |->
                                       PartGradGammaBeta(b % groups, b \div groups, rows, cols)])
      \o Kernel(0..WarpSize * BDIMY2 - 1, [b \in 0..groups - 1 |-> SumGradGammaBeta(b, cols)])

InputGradient(rows, cols, vec) ==
  LET V == VecSizeJudgeForeGradInput(cols, vec)
      warps == IF cols < WarpSize * V THEN 1 ELSE cols \div (WarpSize * V)
      by == CHOOSE d \in {2^k : k \in 0..Log2Ceil(MaxBlockDimY)} :
              d <= warps /\ (d = MaxBlockDimY \/ warps < 2 * d)
  IN  IF cols <= SmallFeature
      THEN Kernel(0..WarpSize * by - 1, [b \in 0..rows - 1 |-> SmallComputeGradInput(b, cols, V, by)])
      ELSE Kernel(0..WarpSize * BDIMY3 - 1, [b \in 0..rows - 1 |-> ComputeGradInput(b, cols)])

\* d_x as its own kernel finishes it, from what the one before has left.
Finish(rows, cols, left) ==
  LET bx == GetDesiredBlockDim(cols)
  IN  Kernel(0..bx - 1, [b \in 0..rows - 1 |-> PostProcessToCalculateDX(bx, b, cols, left)])

OneRow(hasDx, gradients, cols) ==
  Kernel(0..MaxBlockDim - 1, [b \in 0..CeilOf(cols, MaxBlockDim) - 1 |-> WhenBatchSizeIsOne(b, hasDx, gradients, cols)])
  \o (IF hasDx THEN Finish(1, cols, Factor("scale" \in gradients)) ELSE <<>>)

\* Scale or bias or both, without d_x.
ParameterGradients(gradients, rows, cols) ==
  LET bd == GetDesiredBlockDim(rows)
      k == CHOOSE k \in gradients : TRUE
  IN  ColumnKernels(bd, cols, IF Cardinality(gradients) = 2 THEN [col \in 0..cols - 1 |-> GradientAll(bd, col, rows)]
                              ELSE [col \in 0..cols - 1 |-> GradientScaleOrBias(k, FALSE, FALSE, bd, col, rows)])

OnlyInputGradient(hasScale, rows, cols) ==
  LET bx == GetDesiredBlockDim(cols)
  IN  Kernel(0..bx - 1, [b \in 0..rows - 1 |-> GradientOnlyDX(bx, b, cols, hasScale)])

\* One of scale and bias, and d_x.
OneParameterAndInput(k, hasScale, rows, cols) ==
  LET bd == GetDesiredBlockDim(rows)
  IN  ColumnKernels(bd, cols, [col \in 0..cols - 1 |-> GradientScaleOrBias(k, TRUE, hasScale, bd, col, rows)])
      \o Finish(rows, cols, Factor(hasScale))

AllGradients(rows, cols, vec) ==
  IF cols \in FastBackward THEN LnBwdFastParts(rows, cols, vec) \o LnBwdFastSums(cols)
  ELSE ColumnGradients(rows, cols) \o InputGradient(rows, cols, vec)

\* d_x has the factor scale exactly when scale is given, and the gradient of
\* scale is asked for only then.
LayerNormBackward(hasScale, hasDx, gradients, rows, cols, vec) ==
  LET all == hasDx /\ Cardinality(gradients) = 2 /\ rows > 1
      loss == IF all THEN <<"loss1", "loss2">> ELSE <<Factor(hasScale), Factor(hasScale)>>
  IN  [kernels |->
         CASE ~hasDx /\ gradients = {} -> <<>>
           [] rows = 1 /\ (hasDx \/ gradients # {}) -> OneRow(hasDx, gradients, cols)
           [] all -> AllGradients(rows, cols, vec)
           [] rows > 1 /\ ~hasDx /\ gradients # {} -> ParameterGradients(gradients, rows, cols)
           [] rows > 1 /\ hasDx /\ gradients = {} -> OnlyInputGradient(hasScale, rows, cols)
           [] OTHER -> OneParameterAndInput(CHOOSE k \in gradients : TRUE, hasScale, rows, cols),
       expected |-> LayerNormBackwardExpected(hasDx, gradients, rows, cols, loss[1], loss[2]),
       temporaries |-> IF all THEN IF cols \in FastBackward THEN Buffers(Range(Temp), FastGrid, cols)
                                   ELSE Buffers(Range(PartGrad), PartSize, cols)
                       ELSE IF hasDx /\ (rows = 1 \/ gradients # {}) THEN Buffers({Factor(TRUE), Factor(FALSE)}, rows, cols) ELSE {}]
=============================================================================
