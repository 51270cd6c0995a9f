-------------------------------- MODULE Blas --------------------------------
(* The BLAS wrappers that replace those of Paddle (blas_impl.mu.h): row-    *)
(* major products computed by a column-major library, with the overload     *)
(* that every element type takes and the library functions that type has.   *)
(* A call yields the kernels it starts, none if it throws before the first. *)
(* A pointer is a pair <<tensor, offset>>, and a product records which two  *)
(* elements were multiplied, whichever of them came first.                  *)
EXTENDS WarpReductions

CONSTANTS
  IntMax,               \* INT_MAX_VALUE: 2^31 - 1
  MaxGemmN,             \* kMaxN of CheckGEMMNSize: 2^30 - 1
  EnableTensorOpMath    \* FLAGS_enable_cublas_tensor_op_math

ASSUME BlasSizes == IntMax \in Nat /\ MaxGemmN \in 0..IntMax /\ EnableTensorOpMath \in BOOLEAN

Shift(p, n) == <<p[1], p[2] + n>>
AtLeastOne(n) == IF n > 1 THEN n ELSE 1
Times(p, q) == <<"times", {p, q}>>
Product == <<"product", 0>>
-----------------------------------------------------------------------------
(* The library: block b of the grid computes C[b] = op(A[b]) op(B[b]), or   *)
(* adds it to C[b].                                                         *)

\* Element (i, j) of op(matrix at p), stored by columns ld apart.
Element(p, ld, trans, i, j) == Shift(p, IF trans THEN j + i * ld ELSE i + j * ld)

MublasGemm(transa, transb, m, n, k, A, lda, B, ldb, adds, C, ldc) ==
  LET who == 0..m * n - 1
      To(b, t) == Shift(C[b], (t % m) + (t \div m) * ldc)
      Terms(b, t) == {Times(Element(A[b], lda, transa, t % m, l), Element(B[b], ldb, transb, l, t \div m)) : l \in 0..k-1}
      Multiply(b) == (IF adds THEN Read(Product, [t \in who |-> {To(b, t)}]) ELSE <<>>)
                     \o Load(Product, [t \in who |-> Terms(b, t)])
                     \o Store(<<Product>>, [t \in who |-> {To(b, t)}])
      fits == /\ lda >= AtLeastOne(IF transa THEN k ELSE m)
              /\ ldb >= AtLeastOne(IF transb THEN n ELSE k)
              /\ ldc >= AtLeastOne(m)
  IN  IF m \in Nat /\ n \in Nat /\ k \in Nat /\ fits
      THEN <<[threads |-> who, blocks |-> [b \in DOMAIN C |-> Multiply(b)]]>> ELSE <<>>

\* y = op(A) x, A stored as m x n.
MublasGemv(trans, m, n, A, lda, x, adds, y) ==
  LET rows == IF trans THEN n ELSE m
      cols == IF trans THEN m ELSE n
  IN  MublasGemm(trans, FALSE, rows, 1, cols, A, lda, x, AtLeastOne(cols), adds, y, AtLeastOne(rows))
-----------------------------------------------------------------------------
(* What CUBlas<T> does not throw Unimplemented for.                         *)

FloatProducts == {"GEMM", "AXPY", "SCAL", "VCOPY", "GEMV", "GEMM_BATCH", "GEMM_STRIDED_BATCH"}
FloatSolvers == {"TRSM", "TRSM_BATCH"}
CUBlasDouble == {"GEMM", "AXPY", "SCAL", "VCOPY", "GEMV", "GEMM_BATCH", "GEMM_STRIDED_BATCH", "TRSM", "TRSM_BATCH"}
HalfBatches == {"GEMM_BATCH"}
HalfEx == {"GEMM_EX"}
Complex64Products == {"GEMV", "AXPY", "GEMM_STRIDED_BATCH", "GEMM"}
Complex64Ex == {"TRSM", "GEMM_EX"}
Complex64Batches == {"TRSM_BATCH"}
Complex128Products == {"GEMV", "AXPY", "GEMM_STRIDED_BATCH", "GEMM"}
Complex128Solvers == {"TRSM", "TRSM_BATCH"}
Complex128Ex == {"GEMM_EX"}

CUBlas(T) == CASE T = "float" -> FloatProducts \cup FloatSolvers
               [] T = "double" -> CUBlasDouble
               [] T = "float16" -> HalfBatches \cup HalfEx
               [] T = "complex64" -> Complex64Products \cup Complex64Ex \cup Complex64Batches
               [] T = "complex128" -> Complex128Products \cup Complex128Solvers \cup Complex128Ex

\* Throws unless CUBlas<T> implements the function.
Call(T, function, kernels) == IF function \in CUBlas(T) THEN kernels ELSE <<>>
-----------------------------------------------------------------------------
(* Row-major products.  A call p has transA, transB, M, N, K, the pointers  *)
(* A, B, C of every member of its batch, and adds: whether beta is 1.       *)

Lda(p) == IF p.transA THEN p.M ELSE p.K
Ldb(p) == IF p.transB THEN p.K ELSE p.N

\* mublas follows fortran order: the operands change places.
Exchanged(p) ==
  MublasGemm(p.transB, p.transA, p.N, p.M, p.K, p.B, Ldb(p), p.A, Lda(p), p.adds, p.C, p.N)

\* static_cast<int>
AsInt(n) == LET r == n % (2 * (IntMax + 1)) IN IF r > IntMax THEN r - 2 * (IntMax + 1) ELSE r

InInts(p) == [p EXCEPT !.M = AsInt(@), !.N = AsInt(@), !.K = AsInt(@)]

TooWide(p) == p.M > IntMax \/ p.N > IntMax \/ p.K > IntMax
CheckGEMMNSize(p, kernels) == IF p.N > MaxGemmN THEN <<>> ELSE kernels

GEMMGeneric(T, p) ==
  IF TooWide(p) THEN <<>>
  ELSE IF EnableTensorOpMath /\ T = "float" THEN CheckGEMMNSize(p, Call(T, "GEMM_EX", Exchanged(p)))
  ELSE Call(T, "GEMM", Exchanged(p))

GEMMHalf(p) == IF TooWide(p) THEN <<>> ELSE CheckGEMMNSize(p, Call("float16", "GEMM_EX", Exchanged(p)))
GEMMBfloat(p) == IF TooWide(p) THEN <<>> ELSE CheckGEMMNSize(p, Exchanged(p))
GEMMComplex64(p) == IF TooWide(p) THEN <<>> ELSE CheckGEMMNSize(p, Call("complex64", "GEMM_EX", Exchanged(p)))
GEMMComplex128(p) == IF TooWide(p) THEN <<>> ELSE CheckGEMMNSize(p, Call("complex128", "GEMM_EX", Exchanged(p)))

GEMM(T, p) ==
  CASE T = "float16" -> GEMMHalf(p)
    [] T = "bfloat16" -> GEMMBfloat(p)
    [] T = "complex64" -> GEMMComplex64(p)
    [] T = "complex128" -> GEMMComplex128(p)
    [] OTHER -> GEMMGeneric(T, p)

\* alpha and beta of another type than the elements' are converted first.
GEMMOfScalar(T, p) == GEMMGeneric(T, p)
GEMMHalfOfFloat(p) == GEMMHalf(p)
GEMMBfloatOfFloat(p) == GEMMBfloat(p)

GEMMFloat(T, p) ==
  CASE T = "float16" -> GEMMHalfOfFloat(p)
    [] T = "bfloat16" -> GEMMBfloatOfFloat(p)
    [] OTHER -> GEMMOfScalar(T, p)

\* Rows p.lda, p.ldb and p.ldc elements apart; the sizes are ints.
Strided(p) == MublasGemm(p.transB, p.transA, p.N, p.M, p.K, p.B, p.ldb, p.A, p.lda, p.adds, p.C, p.ldc)

GEMMRowsGeneric(T, p) ==
  IF EnableTensorOpMath /\ T = "float" THEN CheckGEMMNSize(p, Call(T, "GEMM_EX", Strided(p)))
  ELSE Call(T, "GEMM", Strided(p))
GEMMRowsHalf(p) == CheckGEMMNSize(p, Strided(p))
GEMMRowsBfloat(p) == CheckGEMMNSize(p, Strided(p))

GEMMRows(T, p) ==
  CASE T = "float16" -> GEMMRowsHalf(p)
    [] T = "bfloat16" -> GEMMRowsBfloat(p)
    [] OTHER -> GEMMRowsGeneric(T, p)

\* The M x N matrix A, or its transpose, times the vector B.
GEMVGeneric(T, trans_a, M, N, A, B, adds, C) ==
  Call(T, "GEMV", MublasGemv(~trans_a, N, M, A, N, B, adds, C))

\* There is no half gemv: the vector is a matrix of one row or column.
GEMVAsGEMM(T, trans_a, M, N, A, B, adds, C) ==
  GEMM(T, [transA |-> FALSE, transB |-> FALSE, M |-> IF trans_a THEN 1 ELSE M, N |-> IF trans_a THEN N ELSE 1,
           K |-> IF trans_a THEN M ELSE N, A |-> IF trans_a THEN B ELSE A, B |-> IF trans_a THEN A ELSE B,
           adds |-> adds, C |-> C])

GEMV(T, trans_a, M, N, A, B, adds, C) ==
  IF T \in {"float16", "bfloat16"} THEN GEMVAsGEMM(T, trans_a, M, N, A, B, adds, C)
  ELSE GEMVGeneric(T, trans_a, M, N, A, B, adds, C)

\* The members of a batch strideA, strideB and M * N elements apart.
BatchOf(p, count, strideA, strideB) ==
  [p EXCEPT !.A = [b \in 0..count-1 |-> Shift(p.A[0], b * strideA)],
            !.B = [b \in 0..count-1 |-> Shift(p.B[0], b * strideB)],
            !.C = [b \in 0..count-1 |-> Shift(p.C[0], b * p.M * p.N)]]

StridedBatchedGEMMGeneric(T, p, count, strideA, strideB) ==
  LET batch == BatchOf(p, AsInt(count), strideA, strideB)
  IN  IF (EnableTensorOpMath /\ T = "float") \/ T = "float16"
      THEN IF TooWide(p) THEN <<>> ELSE Exchanged(batch)
      ELSE Call(T, "GEMM_STRIDED_BATCH", Exchanged(InInts(batch)))

\* Only with tensor cores is the count of the batch compared with IntMax.
StridedBatchedGEMMOfScalar(T, p, count, strideA, strideB) ==
  IF ((EnableTensorOpMath /\ T = "float") \/ T = "float16") /\ count > IntMax THEN <<>>
  ELSE StridedBatchedGEMMGeneric(T, p, count, strideA, strideB)

StridedBatchedGEMMBfloat(p, count, strideA, strideB) ==
  IF TooWide(p) \/ count > IntMax THEN <<>> ELSE Exchanged(BatchOf(p, count, strideA, strideB))

StridedBatchedGEMMBfloatOfFloat(p, count, strideA, strideB) == StridedBatchedGEMMBfloat(p, count, strideA, strideB)

StridedBatchedGEMM(T, p, count, strideA, strideB) ==
  IF T = "bfloat16" THEN StridedBatchedGEMMBfloat(p, count, strideA, strideB)
  ELSE StridedBatchedGEMMGeneric(T, p, count, strideA, strideB)

\* Where there is no batched function for the type: one product at a time.
BatchedGEMMInTurn(T, p) ==
  LET Member(k) == GEMM(T, [InInts(p) EXCEPT !.A = 0 :> p.A[k - 1], !.B = 0 :> p.B[k - 1], !.C = 0 :> p.C[k - 1]])
  IN  Loop(Cardinality(DOMAIN p.C), Member)

\* The host's arrays of pointers are copied to the device.
BatchedGEMMFloat(p) == Call("float", "GEMM_BATCH", Exchanged(InInts(p)))
BatchedGEMMHalf(p) == Call("float16", "GEMM_BATCH", Exchanged(InInts(p)))
BatchedGEMMBfloat(p) == Exchanged(InInts(p))

BatchedGEMM(T, p) ==
  CASE T = "float" -> BatchedGEMMFloat(p)
    [] T = "float16" -> BatchedGEMMHalf(p)
    [] T = "bfloat16" -> BatchedGEMMBfloat(p)
    [] OTHER -> BatchedGEMMInTurn(T, p)
-----------------------------------------------------------------------------
(* Vectors.                                                                 *)

Alpha == <<"alpha", 0>>
Vector(n, terms, olds, y) ==
  LET who == 0..n-1
  IN  <<[threads |-> who,
         blocks |-> 0 :> Read(Product, [t \in who |-> {Shift(p, t) : p \in olds}])
                         \o Load(Product, [t \in who |-> {Shift(p, t) : p \in terms} \cup (IF terms = {} THEN {Alpha} ELSE {})])
                         \o Store(<<Product>>, [t \in who |-> {Shift(y, t)}])]>>

AXPY(T, n, x, y) == Call(T, "AXPY", Vector(n, {x}, {y}, y))
SCAL(T, n, x) == Call(T, "SCAL", Vector(n, {}, {x}, x))
VCOPY(T, n, x, y) == Call(T, "VCOPY", Vector(n, {x}, {}, y))
-----------------------------------------------------------------------------
(* Triangular systems and inverses.                                         *)

\* What component i of the solution x of the n x n triangular system A x = b
\* needs: components of b, and entries of A.
Needed(lower, i, n) == IF lower THEN 0..i ELSE i..n-1
Entries(lower, unit, i, n) ==
  {e \in Needed(lower, i, n) \X Needed(lower, i, n) :
     /\ IF lower THEN e[2] <= e[1] ELSE e[1] <= e[2]
     /\ unit => e[1] # e[2]}

\* op(A) X = B, or X op(A) = B if A is on the right: the columns, or the rows,
\* of the m x n matrix B are replaced by the solutions of a system with op(A),
\* or its transpose.
MublasTrsm(left, lower, trans, unit, m, n, A, lda, B, ldb) ==
  LET op == IF left THEN trans ELSE ~trans
      low == lower # op
      size == IF left THEN m ELSE n
      BAt(b, i, j) == Shift(B[b], IF left THEN i + j * ldb ELSE j + i * ldb)
      Line(e) == e \div size
      Term(b, c) == Element(A[b], lda, op, c[1], c[2])
      Solve(b, k) ==
        LET e == k - 1
        IN  Read(<<"x", e>>, 0 :> {BAt(b, i, Line(e)) : i \in Needed(low, e % size, size)})
            \o Load(<<"x", e>>, 0 :> {Term(b, c) : c \in Entries(low, unit, e % size, size)})
      Replace(b, k) == Store(<<<<"x", k - 1>>>>, 0 :> {BAt(b, (k - 1) % size, Line(k - 1))})
      SolveAll(b) ==
        LET SolveOne(k) == Solve(b, k)
            ReplaceOne(k) == Replace(b, k)
        IN  Loop(m * n, SolveOne) \o Loop(m * n, ReplaceOne)
  IN  IF lda >= AtLeastOne(size) /\ ldb >= AtLeastOne(m)
      THEN <<[threads |-> {0}, blocks |-> [b \in DOMAIN B |-> SolveAll(b)]]>> ELSE <<>>

\* Row-major: the sides and the triangles change places.  A call p has left,
\* lower, trans, unit, M, N, lda, ldb and the pointers A and B.
TRSMOf(p) == MublasTrsm(~p.left, ~p.lower, p.trans, p.unit, p.N, p.M, p.A, p.lda, p.B, p.ldb)
TRSM(T, p) == Call(T, "TRSM", TRSMOf(p))
BatchedTRSM(T, p) == Call(T, "TRSM_BATCH", TRSMOf(p))

\* LU factors, and solutions and inverses from them: every element of the
\* n x n matrix b depends on all of a.
Dense(n, a, b) ==
  LET who == 0..n * n - 1
  IN  <<[threads |-> who,
         blocks |-> [i \in DOMAIN b |->
           Load(Product, [t \in who |-> {Shift(a[i], e) : e \in who}])
           \o Store(<<Product>>, [t \in who |-> {Shift(b[i], t)}])]]>>

BatchedGETRF(T, n, a) == Call(T, "GETRF_BATCH", Dense(n, a, a))
BatchedGETRI(T, n, a, a_inv) == IF a = a_inv THEN <<>> ELSE Call(T, "GETRI_BATCH", Dense(n, a, a_inv))
BatchedMatInv(T, n, a, a_inv) == Call(T, "MATINV_BATCH", Dense(n, a, a_inv))
BatchedGETRS(T, n, a, b) == Call(T, "GETRS_BATCH", Dense(n, a, b))
=============================================================================
