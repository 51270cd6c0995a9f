------------------------------- MODULE Scatter -------------------------------
(* Scattering rows of updates over an output by index: put there, added up *)
(* there, with atomics (scatter.cu.h) or by a thread per element of the     *)
(* output (ScatterKernel), or only zeroed for the gradient.  The checks of  *)
(* the index that Paddle has are commented out: an index is one the output  *)
(* has, or negative and counted from its end.                               *)
EXTENDS WarpReductions

CONSTANTS ScatterBlock,    \* block: 512; threads: 256
          ScatterGrid,     \* the most blocks of a grid
          ScatterLoop      \* loop_count: 4

ASSUME ScatterAssumption ==
  ScatterBlock \in Nat \ {0} /\ ScatterGrid \in Nat \ {0} /\ ScatterLoop \in Nat \ {0}

Moved == <<"moved">>     \* the register of a value on its way
BlockThreads == 0..ScatterBlock - 1
OfTensor(tensor, at) == [t \in DOMAIN at |-> {<<tensor, at[t]>>}]

\* The product of dims from the first one on.
SliceSize(dims, first) == FoldLeft(LAMBDA a, b : a * b, 1, SubSeq(dims, first, Len(dims)))

\* Where element i of the updates goes.
OutOf(index, count, slice, i) ==
  LET row == index[i \div slice + 1]
  IN  (IF row < 0 THEN row + count ELSE row) * slice + (i % slice)

\* ... when a row of the index has a coordinate for each of the first dims.
NdOutOf(index, dims, slice, i) ==
  LET row == index[i \div slice + 1]
      Outwards(j, sum) ==
        [gather |-> sum.gather + (IF row[j] < 0 THEN row[j] + dims[j] ELSE row[j]) * sum.stride,
         stride |-> sum.stride * dims[j]]
  IN  FoldRight(Outwards, [j \in 1..Len(row) |-> j], [gather |-> 0, stride |-> slice]).gather + (i % slice)

\* Who takes part in round k of block b of a loop that goes over total elements,
\* a vector of vsize at a time with a stride of the whole grid, and at which
\* element.
GridPlaces(grid, total, vsize, b, k) ==
  LET Place(t) == ((b + (k - 1) * grid) * ScatterBlock + t) * vsize
  IN  [t \in {t \in BlockThreads : Place(t) < total} |-> Place(t)]

\* The kernel that is such a loop with Body.
GridLoop(grid, total, vsize, Body(_)) ==
  LET stride == grid * ScatterBlock * vsize
      Rounds(b) == LET Round(k) == Body(GridPlaces(grid, total, vsize, b, k))
                   IN  Loop((total + stride - 1) \div stride, Round)
  IN  <<[threads |-> BlockThreads, blocks |-> [b \in 0..grid - 1 |-> Rounds(b)]]>>

ScatterInitCUDAKernel(grid, index, output, count, slice) ==
  LET Zero(at) == Clear(Moved, DOMAIN at)
                  \o Store(<<Moved>>, OfTensor(output, [t \in DOMAIN at |-> OutOf(index, count, slice, at[t])]))
  IN  GridLoop(grid, Len(index) * slice, 1, Zero)

\* Lane s of a vector of params; those of an earlier kernel are read from its
\* output.
Param(params, s, at) ==
  LET from == OfTensor(params, [t \in DOMAIN at |-> at[t] + s])
  IN  Clear(Moved, DOMAIN at) \o IF params = "updates" THEN Load(Moved, from) ELSE Read(Moved, from)

ScatterCUDAKernel(grid, params, index, output, count, slice, overwrite, vsize) ==
  LET Vector(at) ==
        LET to(s) == OfTensor(output, [t \in DOMAIN at |-> OutOf(index, count, slice, at[t]) + s])
            Lane(s) == Param(params, s - 1, at)
                       \o IF overwrite THEN Store(<<Moved>>, to(s - 1)) ELSE AtomicAdd(Moved, to(s - 1))
        IN  IF overwrite THEN Loop(vsize, Lane) ELSE Lane(1)
  IN  GridLoop(grid, Len(index) * slice, vsize, Vector)

ScatterNdCUDAKernel(grid, index, dims, slice, vsize) ==
  LET Vector(at) ==
        LET to(s) == OfTensor("out", [t \in DOMAIN at |-> NdOutOf(index, dims, slice, at[t]) + s])
            Lane(s) == Param("updates", s - 1, at) \o AtomicAdd(Moved, to(s - 1))
        IN  Loop(vsize, Lane)
  IN  GridLoop(grid, Len(index) * slice, vsize, Vector)

\* phi::Copy of x to the output, before the scattering.
CopyOfX(count) ==
  <<[threads |-> {0}, blocks |-> [b \in {0} |-> Store(<<<<>>>>, [t \in {0} |-> {<<"out", k>> : k \in 0..count - 1}])]]>>

\* phi::CastKernel of n elements.
CastKernel(from, to, n) ==
  LET each == [t \in 0..n - 1 |-> t]
  IN  <<[threads |-> 0..n - 1, blocks |-> [b \in {0} |-> Param(from, 0, each) \o Store(<<Moved>>, OfTensor(to, each))]]>>

\* Blocks for n elements of which every thread takes some: LimitGridDim,
\* GetGpuLaunchConfig1D.
GridFor(n, each) == Min({(n + ScatterBlock * each - 1) \div (ScatterBlock * each), ScatterGrid})

\* A vector is no longer than the tensors are aligned and divides a slice.
VecSize(aligned, slice) == Max({v \in {1, 2, 4, 8} : v <= aligned /\ slice % v = 0})

\* c: the values and the dims of the index, the dims of src and output, the
\* elements the tensors are aligned to.
GPUScatterAssign(T, c, overwrite) ==
  LET slice == SliceSize(c.src, IF c.dims = <<>> THEN 1 ELSE 2)
      count == c.output[1]
      n == Len(c.index) * slice
      all == SliceSize(c.output, 1)
      vsize == VecSize(c.aligned, slice)
      Added(params, output) ==
        ScatterInitCUDAKernel(GridFor(n, 1), c.index, output, count, slice)
        \o ScatterCUDAKernel(GridFor(n, 1), params, c.index, output, count, slice, FALSE, 1)
      takes == SliceSize(c.src, 1) # 0 /\ c.index # <<>> /\ Len(c.dims) <= 2 /\ (Len(c.dims) = 2 => c.dims[2] = 1)
  IN  CASE ~takes -> <<>>
        [] takes /\ overwrite ->
             ScatterCUDAKernel(GridFor(n, vsize * ScatterLoop), "updates", c.index, "out", count, slice, TRUE, vsize)
        [] takes /\ ~overwrite /\ T = "bfloat16" ->
             CastKernel("updates", "src_fp32", SliceSize(c.src, 1)) \o CastKernel("out", "out_fp32", all)
             \o Added("src_fp32", "out_fp32") \o CastKernel("out_fp32", "out", all)
        [] takes /\ ~overwrite /\ T # "bfloat16" -> Added("updates", "out")

GPUScatterGradForX(c) ==
  LET slice == SliceSize(c.output, 2)
  IN  IF c.index = <<>> THEN <<>>
      ELSE ScatterInitCUDAKernel(GridFor(slice * Len(c.index), 1), c.index, "out", c.output[1], slice)

GPUScatterNdAdd(c) ==
  LET slice == SliceSize(c.output, Len(c.index[1]) + 1)
      vsize == VecSize(c.aligned, slice)
  IN  ScatterNdCUDAKernel(GridFor(Len(c.index) * slice, vsize * ScatterLoop), c.index, c.output, slice, vsize)
\* Every element of a row that the index names is the sum of its updates.
ScatterAddNoAtomicKernel(grid, index, total, slice) ==
  LET Named(row) == {p \in DOMAIN index : index[p] = row \/ index[p] + (total \div slice) = row}
      Element(at) ==
        LET from == [t \in DOMAIN at |-> {<<"updates", (p - 1) * slice + (at[t] % slice)>> : p \in Named(at[t] \div slice)}]
            matched == {t \in DOMAIN at : from[t] # {}}
        IN  Clear(Moved, matched) \o Load(Moved, Restrict(from, matched))
            \o Store(<<Moved>>, OfTensor("out", Restrict(at, matched)))
  IN  GridLoop(grid, total, 1, Element)

ScatterKernel(T, c, overwrite) ==
  LET total == SliceSize(c.output, 1)
      updates == SliceSize(c.src, 1)
      n == Len(c.index)
      Sums == IF updates % n # 0 THEN <<>>
              ELSE ScatterAddNoAtomicKernel(GridFor(total, 1), c.index, total, updates \div n)
  IN  IF n # 0 /\ total = 0 THEN <<>>
      ELSE CopyOfX(total) \o IF n = 0 THEN <<>> ELSE IF overwrite THEN GPUScatterAssign(T, c, TRUE) ELSE Sums
-----------------------------------------------------------------------------
\* The rows of the index that name a row of the output.
Naming(c, row) ==
  {p \in DOMAIN c.index : c.index[p] \in {row, row - c.output[1]}}

\* A row that the index names holds the sum of its updates, or zeros; any
\* other one is as it was.
ScatterExpected(c, zeroed) ==
  LET slice == SliceSize(c.output, 2)
  IN  [o \in {"out"} \X (0..SliceSize(c.output, 1) - 1) |->
         LET rows == Naming(c, o[2] \div slice)
         IN  <<IF rows = {} THEN SetToBag({o})
               ELSE SetToBag(IF zeroed THEN {} ELSE {<<"updates", (p - 1) * slice + (o[2] % slice)>> : p \in rows})>>]

\* The coordinates of element k of a tensor of one or two outer dims.
Coordinates(dims, outer, k) ==
  LET row == k \div SliceSize(dims, outer + 1)
  IN  IF outer = 1 THEN <<row>> ELSE <<row \div dims[2], row % dims[2]>>

\* The updates of all the rows of the index come on top.
ScatterNdExpected(c) ==
  LET outer == Len(c.index[1])
      slice == SliceSize(c.output, outer + 1)
      Same(p, k) == \A j \in 1..outer : c.index[p][j] \in {Coordinates(c.output, outer, k)[j],
                                                           Coordinates(c.output, outer, k)[j] - c.output[j]}
  IN  [o \in {"out"} \X (0..SliceSize(c.output, 1) - 1) |->
         <<SetToBag({o} \cup {<<"updates", (p - 1) * slice + (o[2] % slice)>> : p \in {p \in DOMAIN c.index : Same(p, o[2])}})>>]

Scattered(c, kernels, expected) ==
  [kernels |-> kernels, expected |-> expected,
   temporaries |-> {"src_fp32", "out_fp32"} \X (0..Max({SliceSize(c.src, 1), SliceSize(c.output, 1)}) - 1)]

\* ScatterKernel, the functions of scatter.cu.h on an output that has been
\* written before, and what is refused.
ScatterLaunch(kind, T, c) ==
  LET x == CopyOfX(SliceSize(c.output, 1))
  IN  CASE kind = "assign" -> Scattered(c, ScatterKernel(T, c, TRUE), ScatterExpected(c, FALSE))
        [] kind = "sum" -> Scattered(c, ScatterKernel(T, c, FALSE), ScatterExpected(c, FALSE))
        [] kind = "add" -> Scattered(c, x \o GPUScatterAssign(T, c, FALSE), ScatterExpected(c, FALSE))
        [] kind = "grad" -> Scattered(c, x \o GPUScatterGradForX(c), ScatterExpected(c, TRUE))
        [] kind = "nd_add" -> Scattered(c, x \o GPUScatterNdAdd(c), ScatterNdExpected(c))
        [] kind = "untouched" -> Scattered(c, ScatterKernel(T, c, TRUE), ScatterExpected([c EXCEPT !.index = <<>>], FALSE))
=============================================================================
