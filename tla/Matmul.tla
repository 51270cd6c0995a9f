------------------------------- MODULE Matmul -------------------------------
(* The matrix product of tensors of any rank (musa_matmul_kernel_impl.h):   *)
(* which of the wrappers' products a pair of shapes comes to, with BLAS or  *)
(* with cublasLt, and int8 products; and batched_gemm, one product for each *)
(* group of rows.  Shapes are tuples, and tensors are stored by rows.       *)
EXTENDS MublasLt

FromEnd(dims, k) == dims[Len(dims) - k]
Numel(dims) == FoldLeft(LAMBDA a, b : a * b, 1, dims)
Greater(a, b) == IF a > b THEN a ELSE b
InputX == <<"x", 0>>
InputY == <<"y", 0>>
Output == <<"out", 0>>
-----------------------------------------------------------------------------
(* Broadcasting of the dims before the last two.                            *)

GetBroadcastFromDims(x, y) ==
  LET n == Greater(Len(x), Len(y))
      xs == [i \in 1..n - Len(x) |-> 1] \o x
      ys == [i \in 1..n - Len(y) |-> 1] \o y
  IN  [x |-> xs, y |-> ys,
       agree |-> \A i \in 1..n : xs[i] = ys[i] \/ xs[i] <= 1 \/ ys[i] <= 1,
       out |-> [i \in 1..n |-> IF xs[i] = 0 \/ ys[i] = 0 THEN 0 ELSE Greater(xs[i], ys[i])]]

\* The position of the member at index in a tensor of these dims.
GetIndexMessage(dims, index) ==
  FoldLeftDomain(LAMBDA sum, i : IF dims[i] > 1 THEN sum * dims[i] + index[i] ELSE sum, 0, dims)

\* An odometer's step: dims after the last that does not carry turn over.
IndexIncreaseFromDims(dims, index) ==
  LET Over(i) == index[i] + 1 >= dims[i]
      Turns(i) == \A j \in i+1..Len(dims) : Over(j)
  IN  [i \in DOMAIN dims |-> IF ~Turns(i) THEN index[i]
                             ELSE IF Over(i) THEN index[i] + 1 - dims[i] ELSE index[i] + 1]

\* What is computed from the shapes before a case is chosen.
Geometry(x_dims, y_dims, trans_x, trans_y) ==
  LET Batch(dims) == SubSeq(dims, 1, Len(dims) - 2)
      bd == GetBroadcastFromDims(Batch(x_dims), Batch(y_dims))
      M == IF trans_x THEN FromEnd(x_dims, 0) ELSE FromEnd(x_dims, 1)
      K == IF trans_x THEN FromEnd(x_dims, 1) ELSE FromEnd(x_dims, 0)
      N == IF trans_y THEN FromEnd(y_dims, 1) ELSE FromEnd(y_dims, 0)
      Index[i \in 0..Numel(bd.out)] ==
        IF i = 0 THEN [d \in DOMAIN bd.out |-> 0] ELSE IndexIncreaseFromDims(bd.out, Index[i - 1])
      Pointers(p, dims, step) ==
        [i \in 0..Numel(bd.out)-1 |-> Shift(p, GetIndexMessage(dims, Index[i]) * step)]
  IN  [agree |-> bd.agree /\ K = FromEnd(y_dims, IF trans_y THEN 0 ELSE 1),
       M |-> M, N |-> N, K |-> K, x |-> Numel(bd.x), y |-> Numel(bd.y), o |-> Numel(bd.out),
       broadcasts |-> bd.x # bd.y,
       x_ptr |-> Pointers(InputX, bd.x, M * K), y_ptr |-> Pointers(InputY, bd.y, K * N),
       out_ptr |-> [i \in 0..Numel(bd.out)-1 |-> Shift(Output, i * M * N)]]
-----------------------------------------------------------------------------
(* MatMulFunctionImplWithBlas.                                              *)

Single(transA, transB, M, N, K, A, B, flag) ==
  [transA |-> transA, transB |-> transB, M |-> M, N |-> N, K |-> K,
   A |-> 0 :> A, B |-> 0 :> B, C |-> 0 :> Output, adds |-> flag]

TimesVector(T, trans_a, M, N, A, B, flag) == GEMV(T, trans_a, M, N, 0 :> A, 0 :> B, flag, 0 :> Output)

\* A vector x.
BlasRowVector(T, N, y_dims, trans_y, flag) ==
  LET M == FromEnd(y_dims, 0)
      count == Numel(y_dims) \div (M * N)
  IN  IF FromEnd(y_dims, IF trans_y THEN 0 ELSE 1) # N THEN <<>>
      ELSE IF trans_y THEN TimesVector(T, FALSE, Numel(y_dims) \div N, N, InputY, InputX, flag)
      ELSE IF count = 1 THEN TimesVector(T, TRUE, N, M, InputY, InputX, flag)
      ELSE StridedBatchedGEMM(T, Single(TRUE, FALSE, M, 1, N, InputY, InputX, flag), count, M * N, 0)

\* A vector y.
BlasColumnVector(T, N, x_dims, trans_x, flag) ==
  LET M == FromEnd(x_dims, 0)
      count == Numel(x_dims) \div (M * N)
  IN  IF FromEnd(x_dims, IF trans_x THEN 1 ELSE 0) # N THEN <<>>
      ELSE IF ~trans_x THEN TimesVector(T, FALSE, Numel(x_dims) \div N, N, InputX, InputY, flag)
      ELSE IF count = 1 THEN TimesVector(T, TRUE, N, M, InputX, InputY, flag)
      ELSE StridedBatchedGEMM(T, Single(TRUE, FALSE, M, 1, N, InputX, InputY, flag), count, M * N, 0)

BlasMatrices(T, g, trans_x, trans_y, flag) ==
  LET p == Single(trans_x, trans_y, g.M, g.N, g.K, InputX, InputY, flag)
  IN  CASE ~g.agree \/ g.o = 0 -> <<>>
        [] g.agree /\ g.o > 0 /\ g.x = 1 /\ g.y = 1 -> GEMM(T, p)
        [] g.agree /\ g.o > 0 /\ g.x = 1 /\ g.y # 1 ->
             IF g.M = 1 /\ trans_y THEN TimesVector(T, FALSE, g.y * g.N, g.K, InputY, InputX, flag)
             ELSE StridedBatchedGEMM(T, p, g.o, 0, g.K * g.N)
        [] g.agree /\ g.o > 0 /\ g.x # 1 /\ g.y = 1 ->
             IF ~trans_x THEN GEMM(T, [p EXCEPT !.M = g.x * g.M])
             ELSE StridedBatchedGEMM(T, p, g.o, g.M * g.K, 0)
        [] g.agree /\ g.o > 0 /\ g.x # 1 /\ g.y # 1 ->
             IF ~g.broadcasts THEN StridedBatchedGEMM(T, p, g.o, g.M * g.K, g.K * g.N)
             ELSE BatchedGEMM(T, [p EXCEPT !.A = g.x_ptr, !.B = g.y_ptr, !.C = g.out_ptr])

MatMulFunctionImplWithBlas(T, x_dims, y_dims, trans_x, trans_y, flag) ==
  CASE Len(x_dims) = 1 /\ Len(y_dims) = 1 ->
         IF x_dims # y_dims THEN <<>> ELSE GEMM(T, Single(FALSE, TRUE, 1, 1, x_dims[1], InputY, InputX, flag))
    [] Len(x_dims) = 1 /\ Len(y_dims) > 1 -> BlasRowVector(T, x_dims[1], y_dims, trans_y, flag)
    [] Len(x_dims) > 1 /\ Len(y_dims) = 1 -> BlasColumnVector(T, y_dims[1], x_dims, trans_x, flag)
    [] OTHER -> BlasMatrices(T, Geometry(x_dims, y_dims, trans_x, trans_y), trans_x, trans_y, flag)
-----------------------------------------------------------------------------
(* MatMulFunctionImplWithCublasLt.                                          *)

LtRowVector(T, N, y_dims, trans_y, flag) ==
  LET M == FromEnd(y_dims, 0)
      count == Numel(y_dims) \div (M * N)
  IN  IF FromEnd(y_dims, IF trans_y THEN 0 ELSE 1) # N THEN <<>>
      ELSE IF trans_y THEN RunOne(T, InputY, InputX, Output, Numel(y_dims) \div N, 1, N, FALSE, FALSE, flag)
      ELSE IF count = 1 THEN RunOne(T, InputY, InputX, Output, M, 1, N, TRUE, FALSE, flag)
      ELSE RunWithBatch(T, InputY, InputX, Output, M, 1, N, TRUE, FALSE, count, M * N, 0, M, flag)

LtColumnVector(T, N, x_dims, trans_x, flag) ==
  LET M == FromEnd(x_dims, 0)
      count == Numel(x_dims) \div (M * N)
  IN  IF FromEnd(x_dims, IF trans_x THEN 1 ELSE 0) # N THEN <<>>
      ELSE IF ~trans_x THEN RunOne(T, InputX, InputY, Output, Numel(x_dims) \div N, 1, N, FALSE, FALSE, flag)
      ELSE IF count = 1 THEN RunOne(T, InputX, InputY, Output, M, 1, N, TRUE, FALSE, flag)
      ELSE RunWithBatch(T, InputX, InputY, Output, M, 1, N, TRUE, FALSE, count, M * N, 0, M, flag)

LtMatrices(T, g, trans_x, trans_y, flag) ==
  LET One(M) == RunOne(T, InputX, InputY, Output, M, g.N, g.K, trans_x, trans_y, flag)
      Batched(stride_x, stride_y) ==
        RunWithBatch(T, InputX, InputY, Output, g.M, g.N, g.K, trans_x, trans_y,
                     g.o, stride_x, stride_y, g.M * g.N, flag)
  IN  CASE ~g.agree \/ g.o = 0 -> <<>>
        [] g.agree /\ g.o > 0 /\ g.x = 1 /\ g.y = 1 -> One(g.M)
        [] g.agree /\ g.o > 0 /\ g.x = 1 /\ g.y # 1 ->
             IF g.M = 1 /\ trans_y THEN RunOne(T, InputY, InputX, Output, g.y * g.N, 1, g.K, FALSE, FALSE, flag)
             ELSE Batched(0, g.K * g.N)
        [] g.agree /\ g.o > 0 /\ g.x # 1 /\ g.y = 1 -> IF ~trans_x THEN One(g.x * g.M) ELSE Batched(g.M * g.K, 0)
        [] g.agree /\ g.o > 0 /\ g.x # 1 /\ g.y # 1 ->
             IF ~g.broadcasts THEN Batched(g.M * g.K, g.K * g.N)
             ELSE RunInTurn(T, g.x_ptr, g.y_ptr, g.out_ptr, g.M, g.N, g.K, trans_x, trans_y, flag)

\* Computed once more.
LtGeometry(x_dims, y_dims, trans_x, trans_y) == Geometry(x_dims, y_dims, trans_x, trans_y)

MatMulFunctionImplWithCublasLt(T, x_dims, y_dims, trans_x, trans_y, flag) ==
  CASE Len(x_dims) = 1 /\ Len(y_dims) = 1 ->
         IF x_dims # y_dims THEN <<>> ELSE RunOne(T, InputY, InputX, Output, 1, 1, x_dims[1], FALSE, TRUE, flag)
    [] Len(x_dims) = 1 /\ Len(y_dims) > 1 -> LtRowVector(T, x_dims[1], y_dims, trans_y, flag)
    [] Len(x_dims) > 1 /\ Len(y_dims) = 1 -> LtColumnVector(T, y_dims[1], x_dims, trans_x, flag)
    [] OTHER -> LtMatrices(T, LtGeometry(x_dims, y_dims, trans_x, trans_y), trans_x, trans_y, flag)

\* The tuner picks either.
MatMulFunction(impl, T, x_dims, y_dims, trans_x, trans_y, flag) ==
  IF impl = "blas" THEN MatMulFunctionImplWithBlas(T, x_dims, y_dims, trans_x, trans_y, flag)
  ELSE MatMulFunctionImplWithCublasLt(T, x_dims, y_dims, trans_x, trans_y, flag)
-----------------------------------------------------------------------------
(* int8: whether MatMulInt8Function takes the shapes on, and its kernels.   *)

Attempt(takes, kernels) == [takes |-> takes, kernels |-> kernels]

Int8Scalar(x_dims, y_dims) ==
  Attempt(x_dims # y_dims \/ x_dims[1] % 4 = 0,
          IF x_dims # y_dims THEN <<>>
          ELSE RunOne("int8", InputY, InputX, Output, 1, 1, x_dims[1], FALSE, TRUE, FALSE))

\* The products are those of LtRowVector and LtColumnVector.
Int8RowVector(N, y_dims, trans_y) ==
  Attempt(IF trans_y THEN N % 4 = 0 ELSE FourOrOne(Numel(y_dims) \div N),
          LtRowVector("int8", N, y_dims, trans_y, FALSE))

Int8ColumnVector(N, x_dims, trans_x) ==
  Attempt(IF trans_x THEN FourOrOne(Numel(x_dims) \div N) ELSE N % 4 = 0,
          LtColumnVector("int8", N, x_dims, trans_x, FALSE))

Int8Geometry(x_dims, y_dims, trans_x, trans_y) == Geometry(x_dims, y_dims, trans_x, trans_y)

Int8Matrices(g, trans_x, trans_y) ==
  Attempt(CASE g.o = 0 -> TRUE
            [] g.o > 0 /\ g.x = 1 /\ g.M = 1 /\ trans_y -> g.K % 4 = 0
            [] g.o > 0 /\ ~(g.x = 1 /\ g.M = 1) /\ ~trans_x /\ trans_y -> g.K % 4 = 0
            [] g.o > 0 /\ ~trans_x /\ ~trans_y -> FourOrOne(g.N) /\ g.K % 4 = 0 /\ ~(g.M = 1 /\ g.N = 1)
            [] g.o > 0 /\ trans_x /\ ~trans_y -> FourOrOne(g.M) /\ FourOrOne(g.N)
            [] OTHER -> FourOrOne(g.M) /\ g.K % 4 = 0,
          LtMatrices("int8", g, trans_x, trans_y, FALSE))

MatMulInt8Function(x_dims, y_dims, trans_x, trans_y) ==
  CASE Len(x_dims) = 1 /\ Len(y_dims) = 1 -> Int8Scalar(x_dims, y_dims)
    [] Len(x_dims) = 1 /\ Len(y_dims) > 1 -> Int8RowVector(x_dims[1], y_dims, trans_y)
    [] Len(x_dims) > 1 /\ Len(y_dims) = 1 -> Int8ColumnVector(y_dims[1], x_dims, trans_x)
    [] OTHER -> Int8Matrices(Int8Geometry(x_dims, y_dims, trans_x, trans_y), trans_x, trans_y)

\* float8: y has to be stored by columns, whatever the flags say.
DispatchMatmulFP8Kernel(x_dims, y_dims) ==
  IF Len(x_dims) = 2 /\ Len(y_dims) = 2 /\ FromEnd(x_dims, 0) = y_dims[1] /\ y_dims[1] % 16 = 0
  THEN CublasLtMatmulFP8(x_dims, y_dims, InputX, InputY, Output) ELSE <<>>

\* int8 as such if it can be; all integers as float otherwise.
MatmulJudgeDtypeKernel(impl, T, x_dims, y_dims, trans_x, trans_y) ==
  LET try == MatMulInt8Function(x_dims, y_dims, trans_x, trans_y)
      float == MatMulFunction(impl, "float", x_dims, y_dims, trans_x, trans_y, FALSE)
  IN  CASE T = "int8" -> IF try.takes THEN try.kernels ELSE float
        [] T \in {"int32", "int64"} -> float
        [] T = "float8_e4m3fn" -> DispatchMatmulFP8Kernel(x_dims, y_dims)
        [] OTHER -> MatMulFunction(impl, T, x_dims, y_dims, trans_x, trans_y, FALSE)
-----------------------------------------------------------------------------
(* What a product is, whatever the way it is computed: vectors are matrices *)
(* of one row or one column, and member c of the result comes from the      *)
(* members of x and y at its index, or at 0 where they have but one.        *)

Following(dims, i) == Numel(SubSeq(dims, i + 1, Len(dims)))
IndexOf(dims, c) == [i \in DOMAIN dims |-> (c \div Following(dims, i)) % dims[i]]
PositionOf(dims, index) ==
  FoldLeftDomain(LAMBDA sum, i : sum + (index[i] % dims[i]) * Following(dims, i), 0, dims)

ProductOf(x_dims, y_dims, trans_x, trans_y, before) ==
  LET xs == IF Len(x_dims) = 1 THEN <<1>> \o x_dims ELSE x_dims
      ys == IF Len(y_dims) = 1 THEN y_dims \o <<1>> ELSE y_dims
      tx == trans_x /\ Len(x_dims) > 1
      ty == trans_y /\ Len(y_dims) > 1
      M == FromEnd(xs, IF tx THEN 0 ELSE 1)
      K == FromEnd(xs, IF tx THEN 1 ELSE 0)
      N == FromEnd(ys, IF ty THEN 1 ELSE 0)
      rank == Greater(Len(xs), Len(ys)) - 2
      Batch(dims) == [i \in 1..rank |-> IF i + Len(dims) - 2 > rank THEN dims[i + Len(dims) - 2 - rank] ELSE 1]
      batch == [i \in 1..rank |-> Greater(Batch(xs)[i], Batch(ys)[i])]
      XAt(c, i, l) == PositionOf(Batch(xs), IndexOf(batch, c)) * M * K + (IF tx THEN l * M + i ELSE i * K + l)
      YAt(c, l, j) == PositionOf(Batch(ys), IndexOf(batch, c)) * K * N + (IF ty THEN j * K + l ELSE l * N + j)
      Terms(p) == LET c == p \div (M * N)
                      i == (p \div N) % M
                      j == p % N
                  IN  {Times(Shift(InputX, XAt(c, i, l)), Shift(InputY, YAt(c, l, j))) : l \in 0..K-1}
  IN  [p \in {Shift(Output, n) : n \in 0..Numel(batch) * M * N - 1} |->
         <<SetToBag(Terms(p[2])) (+) (IF before THEN SetToBag({p}) ELSE EmptyBag)>>]

\* What the output held before.
Fill(outputs) == <<[threads |-> {0}, blocks |-> 0 :> Store(<<<<>>>>, 0 :> outputs)]>>

\* Full: the product of tensors one of which has no element.
Zeros(outputs) == <<[threads |-> {0}, blocks |-> 0 :> Store(<<Product>>, 0 :> outputs)]>>

MatmulKernel(impl, T, x_dims, y_dims, trans_x, trans_y) ==
  LET expected == ProductOf(x_dims, y_dims, trans_x, trans_y, FALSE)
  IN  [kernels |-> IF Numel(x_dims) = 0 \/ Numel(y_dims) = 0 THEN Zeros(DOMAIN expected)
                   ELSE MatmulJudgeDtypeKernel(impl, T, x_dims, y_dims, trans_x, trans_y),
       expected |-> expected, temporaries |-> {}]

\* legacy_matmul: times alpha in the end, in place.
ScaleKernel(outputs) ==
  LET n == Cardinality(outputs)
      own == [t \in 0..n-1 |-> {Shift(Output, t)}]
  IN  <<[threads |-> 0..n-1, blocks |-> 0 :> Read(Product, own) \o Load(Product, [t \in 0..n-1 |-> {Alpha}]) \o Store(<<Product>>, own)]>>

LegacyMatmulKernel(impl, T, x_dims, y_dims, trans_x, trans_y, alpha) ==
  LET matmul == MatmulKernel(impl, T, x_dims, y_dims, trans_x, trans_y)
      outputs == DOMAIN matmul.expected
  IN  IF alpha = 1 THEN matmul
      ELSE [matmul EXCEPT !.kernels = @ \o ScaleKernel(outputs),
                          !.expected = [o \in outputs |-> <<@[o][1] (+) SetToBag({Alpha})>>]]

\* matmul_with_flatten: the first dims are the rows of x, or of y.
ReshapeToMatrix(dims, n) == <<Numel(SubSeq(dims, 1, n)), Numel(SubSeq(dims, n + 1, Len(dims)))>>
BlasMatMul(T, x, y) ==
  IF x[2] # y[1] THEN <<>> ELSE GEMM(T, Single(FALSE, FALSE, x[1], y[2], x[2], InputX, InputY, FALSE))
Matrix(dims, num_col_dims) == IF Len(dims) > 2 THEN ReshapeToMatrix(dims, num_col_dims) ELSE dims

MatmulWithFlattenKernel(T, x_dims, y_dims, x_num_col_dims, y_num_col_dims) ==
  LET x == Matrix(x_dims, x_num_col_dims)
      y == Matrix(y_dims, y_num_col_dims)
  IN  [kernels |-> BlasMatMul(T, x, y), expected |-> ProductOf(x, y, FALSE, FALSE, FALSE), temporaries |-> {}]

\* A product of the helper: b holds n rows of k elements.
HelperProduct(m, k, n) ==
  [kernels |-> CublasLtHelperGEMM(CublasLtHelper(m, k, n), InputX, InputY, Output),
   expected |-> ProductOf(<<m, k>>, <<n, k>>, FALSE, TRUE, FALSE), temporaries |-> {}]

\* The product added to what the output holds.
MatmulAddTo(impl, T, x_dims, y_dims, trans_x, trans_y) ==
  LET expected == ProductOf(x_dims, y_dims, trans_x, trans_y, TRUE)
  IN  [kernels |-> Fill(DOMAIN expected) \o MatMulFunction(impl, T, x_dims, y_dims, trans_x, trans_y, TRUE),
       expected |-> expected, temporaries |-> {}]

\* A product that is refused leaves the output as it was.
MatmulRefused(impl, T, x_dims, y_dims, trans_x, trans_y, outputs) ==
  [kernels |-> Fill(outputs) \o MatmulJudgeDtypeKernel(impl, T, x_dims, y_dims, trans_x, trans_y),
   expected |-> [o \in outputs |-> <<SetToBag({o})>>], temporaries |-> {}]
-----------------------------------------------------------------------------
(* batched_gemm: the rows of lhs come in groups of batch_sizes.             *)

Before(batch_sizes, i) == FoldLeft(+, 0, SubSeq(batch_sizes, 1, i - 1))

BatchedGEMMMusaKernel(T, hidden_in, hidden_out, batch_sizes, trans_lhs, trans_rhs) ==
  LET Group(i) ==
        LET expert_bs == batch_sizes[i]
            rows == Before(batch_sizes, i)
            p == Single(trans_lhs, ~trans_lhs /\ trans_rhs, expert_bs, hidden_out, hidden_in,
                        Shift(InputX, rows * hidden_in), InputY, FALSE)
        IN  GEMM(T, IF trans_lhs
                    THEN [p EXCEPT !.M = hidden_in, !.K = expert_bs, !.B = 0 :> Shift(InputY, rows * hidden_out),
                                   !.C = 0 :> Shift(Output, (i - 1) * hidden_in * hidden_out)]
                    ELSE [p EXCEPT !.B = 0 :> Shift(InputY, (i - 1) * hidden_in * hidden_out),
                                   !.C = 0 :> Shift(Output, rows * hidden_out)])
  IN  Loop(Len(batch_sizes), Group)

\* Row r of lhs times the matrix of its group, or the product of the rows of
\* lhs and rhs that every group has.
BatchedProduct(hidden_in, hidden_out, batch_sizes, trans_lhs, trans_rhs) ==
  LET rows == 0..FoldLeft(+, 0, batch_sizes)-1
      groups == DOMAIN batch_sizes
      First(i) == Before(batch_sizes, i)
      GroupRows(i) == First(i)..First(i)+batch_sizes[i]-1
      Rhs(i, l, j) == (i - 1) * hidden_in * hidden_out + (IF trans_rhs THEN j * hidden_in + l ELSE l * hidden_out + j)
      Term(a, b) == Times(Shift(InputX, a), Shift(InputY, b))
      outputs == IF trans_lhs THEN Len(batch_sizes) * hidden_in * hidden_out ELSE Cardinality(rows) * hidden_out
      Terms(n) ==
        IF trans_lhs
        THEN {Term(r * hidden_in + ((n \div hidden_out) % hidden_in), r * hidden_out + (n % hidden_out)) :
                r \in GroupRows(n \div (hidden_in * hidden_out) + 1)}
        ELSE {Term((n \div hidden_out) * hidden_in + l, Rhs(i, l, n % hidden_out)) :
                i \in {i \in groups : n \div hidden_out \in GroupRows(i)}, l \in 0..hidden_in-1}
  IN  [o \in {Shift(Output, n) : n \in 0..outputs-1} |-> <<SetToBag(Terms(o[2]))>>]

BatchedGemmLaunch(T, hidden_in, hidden_out, batch_sizes, trans_lhs, trans_rhs) ==
  [kernels |-> BatchedGEMMMusaKernel(T, hidden_in, hidden_out, batch_sizes, trans_lhs, trans_rhs),
   expected |-> BatchedProduct(hidden_in, hidden_out, batch_sizes, trans_lhs, trans_rhs),
   temporaries |-> {}]
=============================================================================
