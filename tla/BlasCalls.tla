------------------------------ MODULE BlasCalls ------------------------------
(* Calls of the wrappers of Blas that the kernels of this repository leave  *)
(* to those of Paddle, and what they have to compute by rows.               *)
EXTENDS Matmul

\* Outputs hold their own element before the call, and still do after a
\* refused one.
Called(kernels, expected) == [kernels |-> Fill(DOMAIN expected) \o kernels, expected |-> expected, temporaries |-> {}]
Kept(outputs) == [o \in outputs |-> <<SetToBag({o})>>]
RefusedCall(kernels, outputs) == Called(kernels, Kept(outputs))

\* Row i and column j of the matrix at p whose rows are ld elements apart.
ByRows(p, ld, trans, i, j) == Shift(p, IF trans THEN j * ld + i ELSE i * ld + j)

\* Every member of a call's batch, its operands lda, ldb and ldc elements
\* by row.
ProductsOf(p, lda, ldb, ldc) ==
  LET cells == (DOMAIN p.C) \X (0..p.M-1) \X (0..p.N-1)
      To(c) == Shift(p.C[c[1]], c[2] * ldc + c[3])
      Terms(c) == {Times(ByRows(p.A[c[1]], lda, p.transA, c[2], l), ByRows(p.B[c[1]], ldb, p.transB, l, c[3])) : l \in 0..p.K-1}
      Value(c) == SetToBag(Terms(c)) (+) (IF p.adds THEN SetToBag({To(c)}) ELSE EmptyBag)
  IN  [o \in {To(c) : c \in cells} |-> <<Value(CHOOSE c \in cells : To(c) = o)>>]

GEMMCall(T, p) == Called(GEMMFloat(T, p), ProductsOf(p, Lda(p), Ldb(p), p.N))
GEMMRowsCall(T, p) == Called(GEMMRows(T, p), ProductsOf(p, p.lda, p.ldb, p.ldc))

\* The overloads with an alpha of another type.
StridedCall(T, p, count, strideA, strideB) ==
  Called(IF T = "bfloat16" THEN StridedBatchedGEMMBfloatOfFloat(p, count, strideA, strideB)
         ELSE StridedBatchedGEMMOfScalar(T, p, count, strideA, strideB),
         ProductsOf(BatchOf(p, count, strideA, strideB), Lda(p), Ldb(p), p.N))

\* y has n elements; what each is computed from.
VectorCall(kernels, n, marks, olds) ==
  Called(kernels, [o \in {Shift(Output, t) : t \in 0..n-1} |->
                     <<SetToBag({IF m = Alpha THEN m ELSE Shift(m, o[2]) : m \in marks}
                                \cup {Shift(m, o[2]) : m \in olds})>>])
AXPYCall(T, n) == VectorCall(AXPY(T, n, InputX, Output), n, {InputX}, {Output})
SCALCall(T, n) == VectorCall(SCAL(T, n, Output), n, {Alpha}, {Output})
VCOPYCall(T, n) == VectorCall(VCOPY(T, n, InputX, Output), n, {InputX}, {})

\* Element (i, j) of the M x N solution: with A on the left column j of B
\* counts, on the right row i; a system with op(A) or with its transpose.
SolutionOf(p) ==
  LET cells == (DOMAIN p.B) \X (0..p.M-1) \X (0..p.N-1)
      size == IF p.left THEN p.M ELSE p.N
      lower == IF p.left THEN p.lower # p.trans ELSE p.lower = p.trans
      To(c) == Shift(p.B[c[1]], c[2] * p.ldb + c[3])
      From(c, i) == To(IF p.left THEN <<c[1], i, c[3]>> ELSE <<c[1], c[2], i>>)
      k(c) == IF p.left THEN c[2] ELSE c[3]
      Entry(c, e) == IF p.left THEN ByRows(p.A[c[1]], p.lda, p.trans, e[1], e[2])
                     ELSE ByRows(p.A[c[1]], p.lda, p.trans, e[2], e[1])
      Value(c) == SetToBag({From(c, i) : i \in Needed(lower, k(c), size)}
                           \cup {Entry(c, e) : e \in Entries(lower, p.unit, k(c), size)})
  IN  [o \in {To(c) : c \in cells} |-> <<Value(CHOOSE c \in cells : To(c) = o)>>]

TRSMCall(T, p) == Called(TRSM(T, p), SolutionOf(p))
BatchedTRSMCall(T, p) == Called(BatchedTRSM(T, p), SolutionOf(p))

Members(p, n, count) == [b \in 0..count-1 |-> Shift(p, b * n * n)]
LUCall(function, T, n, count) ==
  LET a == Members(Output, n, count)
      b == Members(Shift(Output, count * n * n), n, count)
  IN  RefusedCall(CASE function = "GETRF" -> BatchedGETRF(T, n, a)
                    [] function = "GETRI" -> BatchedGETRI(T, n, a, b)
                    [] function = "MATINV" -> BatchedMatInv(T, n, a, b)
                    [] function = "GETRS" -> BatchedGETRS(T, n, a, b),
                  {Shift(Output, e) : e \in 0..2 * count * n * n - 1})
=============================================================================
