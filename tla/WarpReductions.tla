--------------------------- MODULE WarpReductions ---------------------------
(* The reductions kernels share (cuda_hack/musa_device_function.h), as      *)
(* instructions of ThreadBlock.                                             *)
EXTENDS ThreadBlock, SequencesExt

\* f(1), ..., f(n) one after the other: an unrolled loop.
Loop(n, f(_)) == FlattenSeq([k \in 1..n |-> f(k)])

\* The k with 2^(k-1) < value <= 2^k.
Log2Ceil(value) == CHOOSE k \in 0..value : 2^k >= value /\ \A j \in 0..k-1 : 2^j < value

\* Register r of all the threads who, combined with that of the lane whose
\* number differs in one bit: offset is a power of two.
CudaShuffleXorSync(r, who, offset) ==
  Combine(r, [t \in who |-> IF (t \div offset) % 2 = 0 THEN t + offset ELSE t - offset])

\* ... with the lane delta above; beyond the warp a lane gets its own value.
CudaShuffleDownSync(r, who, delta) ==
  Combine(r, [t \in who |-> IF (t % WarpSize) + delta < WarpSize THEN t + delta ELSE t])

\* Halving offsets: every lane ends with the sum over its group of width lanes.
ButterflyReduce(r, who, width) ==
  LET Level(k) == CudaShuffleXorSync(r, who, width \div 2^k) IN Loop(Log2Ceil(width), Level)

\* Halving deltas: the first lane of a warp ends with the sum over the warp.
DownReduce(r, who) ==
  LET Level(k) == CudaShuffleDownSync(r, who, WarpSize \div 2^k) IN Loop(Log2Ceil(WarpSize), Level)
=============================================================================
