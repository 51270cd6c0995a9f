--------------------------- MODULE SoftmaxKernels ---------------------------
(* The softmax kernels that replace those of Paddle (softmax_musadnn.h): a  *)
(* warp per one or two short rows, a block per column group otherwise, and  *)
(* the drivers that choose a kernel, its grid and its vector width.  Tensor *)
(* dims are N x dim x D; the maximum and the sum are taken over dim.        *)
EXTENDS WarpReductions

CONSTANTS
  ThreadsPerBlock,   \* 128
  MaxThreads,        \* 1024 threads of a block
  MaxLog2,           \* 10: longest row of a warp is 2^10
  PairRows,          \* 128: rows up to here are done in pairs, backward
  ResidentThreads    \* threads the device runs at a time

ASSUME SoftmaxSizes ==
  /\ ThreadsPerBlock \in Nat /\ MaxThreads \in Nat /\ ResidentThreads \in Nat
  /\ MaxLog2 \in Nat /\ PairRows \in Nat

\* The maximum and the sum of the k-th row a thread works on.
MaxOf(k) == <<"max", k>>
SumOf(k) == <<"sum", k>>

X(t, bx) == t % bx
Y(t, bx) == t \div bx
CeilDiv(a, b) == (a + b - 1) \div b
Least(a, b) == IF a < b THEN a ELSE b
Steps(first, last, step) == {i \in first..last : (i - first) % step = 0}

\* Element (n, m, d) of the tensor.
Row(n, d, dim) == {<<n, m, d>> : m \in 0..dim-1}
-----------------------------------------------------------------------------
(* One warp per one or two rows: dim <= 2^MaxLog2, D = 1.                   *)

\* kps::ReadData and WriteData with a boundary: what a thread of the warp
\* reads of a row of dim elements, loops vectors of vsize at a stride of width.
Vectors(x, dim, width, loops, vsize) ==
  {vsize * (x + j * width) + s : j \in {j \in 0..loops-1 : x + j * width < dim \div vsize}, s \in 0..vsize-1}

\* The geometry both kernels derive from Log2Elements and the vector width.
WarpRows(dim, vsize, pairUpTo) ==
  LET ceil == 2^Log2Ceil(dim)
      width == Least(ceil, WarpSize)
      loops == ceil \div width
  IN  [width |-> width,
       rows |-> IF ceil <= pairUpTo THEN 2 ELSE 1,
       loops |-> IF loops >= vsize THEN loops \div vsize ELSE 1,
       warps |-> ThreadsPerBlock \div width]

\* A mutant of Held: the last warps take rows beyond the last one.
HeldUnbounded(g, b, t, i, N, dim, vsize) ==
  LET row == (g.warps * b + Y(t, g.width)) * g.rows + i
  IN  {<<row, m, 0>> : m \in Vectors(X(t, g.width), dim, g.width, g.loops, vsize)}

\* The elements of its i-th row that thread t of block b holds.
Held(g, b, t, i, N, dim, vsize) ==
  LET row == (g.warps * b + Y(t, g.width)) * g.rows + i
  IN  {<<row, m, 0>> : m \in IF row < N THEN Vectors(X(t, g.width), dim, g.width, g.loops, vsize) ELSE {}}

WarpReduceMax(r, who, width) == ButterflyReduce(r, who, width)
WarpReduceSum(r, who, width) == ButterflyReduce(r, who, width)

WarpSoftmaxForward(g, b, N, dim, vsize) ==
  LET who == 0..g.width * g.warps - 1
      At(i) == [t \in who |-> Held(g, b, t, i, N, dim, vsize)]
      Maximum(k) == Load(MaxOf(k), At(k - 1)) \o WarpReduceMax(MaxOf(k), who, g.width)
      Total(k) == LoadUnder(SumOf(k), MaxOf(k), At(k - 1)) \o WarpReduceSum(SumOf(k), who, g.width)
      Write(k) == Store(<<MaxOf(k), SumOf(k)>>, At(k - 1))
  IN  Loop(g.rows, Maximum) \o Loop(g.rows, Total) \o Loop(g.rows, Write)

WarpSoftmaxBackward(g, b, N, dim, vsize) ==
  LET who == 0..g.width * g.warps - 1
      At(i) == [t \in who |-> Held(g, b, t, i, N, dim, vsize)]
      first(t) == (g.warps * b + Y(t, g.width)) * g.rows
      Local(i) == {t \in who : i < Least(N - first(t), g.rows)}
      Total(k) == Load(SumOf(k), [t \in Local(k - 1) |-> At(k - 1)[t]])
                  \o WarpReduceSum(SumOf(k), who, g.width)
      Write(k) == Store(<<SumOf(k)>>, [t \in Local(k - 1) |-> At(k - 1)[t]])
  IN  Loop(g.rows, Total) \o Loop(g.rows, Write)
-----------------------------------------------------------------------------
(* Any other shape: threads x stand for columns d, threads y share the rows *)
(* m of a column.                                                           *)

\* A mutant of Reduce: the barrier is inside the branch of the lower half.
ReduceSyncInside(r, who, bx, by) ==
  LET cell(t) == <<"kps", t>>
      lower(k) == {u \in who : Y(u, bx) < by \div 2^k}
      Half(k) == Sync(lower(k)) \o Add(r, [t \in lower(k) |-> {cell(t + (by \div 2^k) * bx)}])
                 \o Put(r, [t \in lower(k) |-> {cell(t)}])
  IN  Sync(who) \o Put(r, [t \in who |-> {cell(t)}]) \o Loop(Log2Ceil(by), Half)
      \o Sync(who) \o Get(r, [t \in who |-> cell(X(t, bx))])

\* kps::Reduce in its global mode: every thread gets its column's result.
Reduce(r, who, bx, by) ==
  LET cell(t) == <<"kps", t>>
      Half(k) == LET s == by \div 2^k
                 IN  Sync(who) \o Add(r, [t \in {u \in who : Y(u, bx) < s} |-> {cell(t + s * bx)}])
                     \o Put(r, [t \in {u \in who : Y(u, bx) < s} |-> {cell(t)}])
  IN  Sync(who) \o Put(r, [t \in who |-> {cell(t)}]) \o Loop(Log2Ceil(by), Half)
      \o Sync(who) \o Get(r, [t \in who |-> cell(X(t, bx))])

GetBlockDim(mid, low) ==
  LET x == 2^Log2Ceil(low)
      y == Least(2^Log2Ceil(mid), MaxThreads \div Least(x, WarpSize))
  IN  [x |-> Least(x, MaxThreads \div y), y |-> y]

GetGridDim(high, low, bd) ==
  LET most == ResidentThreads \div (bd.x * bd.y)
      x == Least(CeilDiv(low, bd.x), most)
  IN  [x |-> x, y |-> Least(CeilDiv(most, x), high)]

\* The rounds of block <<bX, bY>>: every high_id with every low_base.
Rounds(bd, gd, bX, bY, high, low) ==
  LET lows == CeilDiv(low - bX * bd.x, bd.x * gd.x)
  IN  [k \in 1..lows * CeilDiv(high - bY, gd.y) |->
         <<bY + gd.y * ((k - 1) \div lows), bd.x * (bX + gd.x * ((k - 1) % lows))>>]

\* The elements of its column that thread t visits.
Column(t, bd, n, base, mid) ==
  {<<n, m, base + X(t, bd.x)>> : m \in Steps(Y(t, bd.x), mid - 1, bd.y)}

NormalSoftmaxForward(bd, gd, bX, bY, high, mid, low) ==
  LET who == 0..bd.x * bd.y - 1
      rounds == Rounds(bd, gd, bX, bY, high, low)
      Round(k) ==
        LET n == rounds[k][1]
            base == rounds[k][2]
            active == {t \in who : base + X(t, bd.x) < low}
            at == [t \in active |-> Column(t, bd, n, base, mid)]
            All(r) == IF bd.y > 1 THEN Reduce(r, who, bd.x, bd.y) ELSE <<>>
        IN  Clear(MaxOf(1), who) \o Load(MaxOf(1), at) \o All(MaxOf(1))
            \o Clear(SumOf(1), who) \o LoadUnder(SumOf(1), MaxOf(1), at) \o All(SumOf(1))
            \o Store(<<MaxOf(1), SumOf(1)>>, at)
  IN  Loop(Len(rounds), Round)

\* Here the loop over low_id leaves the threads beyond the last column out,
\* of the reduction's barriers too.
NormalSoftmaxBackward(bd, gd, bX, bY, high, mid, low) ==
  LET who == 0..bd.x * bd.y - 1
      rounds == Rounds(bd, gd, bX, bY, high, low)
      Round(k) ==
        LET n == rounds[k][1]
            base == rounds[k][2]
            active == {t \in who : base + X(t, bd.x) < low}
            at == [t \in active |-> Column(t, bd, n, base, mid)]
        IN  Clear(SumOf(1), active) \o Load(SumOf(1), at)
            \o (IF bd.y > 1 THEN Reduce(SumOf(1), active, bd.x, bd.y) ELSE <<>>)
            \o Store(<<SumOf(1)>>, at)
  IN  Loop(Len(rounds), Round)
-----------------------------------------------------------------------------
(* The drivers.                                                             *)

\* Forward: the maximum over the row and the sum of exponents against it.
ForwardExpected(N, dim, D) ==
  [o \in {<<n, m, d>> : n \in 0..N-1, m \in 0..dim-1, d \in 0..D-1} |->
     LET max == SetToBag(Row(o[1], o[3], dim))
     IN  <<max, SetToBag({<<e, max>> : e \in Row(o[1], o[3], dim)})>>]

BackwardExpected(N, dim, D) ==
  [o \in {<<n, m, d>> : n \in 0..N-1, m \in 0..dim-1, d \in 0..D-1} |->
     <<SetToBag(Row(o[1], o[3], dim))>>]

SwitchWarpSoftmax(forward, pairUpTo, N, dim) ==
  LET vsize == IF dim % 4 = 0 THEN 4 ELSE IF dim % 2 = 0 THEN 2 ELSE 1
      g == WarpRows(dim, vsize, pairUpTo)
      Body(b) == IF forward THEN WarpSoftmaxForward(g, b, N, dim, vsize) ELSE WarpSoftmaxBackward(g, b, N, dim, vsize)
  IN  <<[threads |-> 0..g.width * g.warps - 1, blocks |-> [b \in 0..CeilDiv(N, g.warps * g.rows) - 1 |-> Body(b)]]>>

LaunchNormalSoftmax(forward, high, mid, low) ==
  LET bd == GetBlockDim(mid, low)
      gd == GetGridDim(high, low, bd)
      Body(bX, bY) == IF forward THEN NormalSoftmaxForward(bd, gd, bX, bY, high, mid, low)
                      ELSE NormalSoftmaxBackward(bd, gd, bX, bY, high, mid, low)
  IN  <<[threads |-> 0..bd.x * bd.y - 1, blocks |-> [b \in 0..gd.x * gd.y - 1 |-> Body(b % gd.x, b \div gd.x)]]>>

SoftmaxForward(N, dim, D) ==
  [kernels |-> IF D = 1 /\ Log2Ceil(dim) <= MaxLog2 THEN SwitchWarpSoftmax(TRUE, WarpSize, N, dim)
               ELSE LaunchNormalSoftmax(TRUE, N, dim, D),
   expected |-> ForwardExpected(N, dim, D), temporaries |-> {}]

SoftmaxBackward(N, dim, D) ==
  [kernels |-> IF D = 1 /\ Log2Ceil(dim) <= MaxLog2 THEN SwitchWarpSoftmax(FALSE, PairRows, N, dim)
               ELSE LaunchNormalSoftmax(FALSE, N, dim, D),
   expected |-> BackwardExpected(N, dim, D), temporaries |-> {}]
=============================================================================
