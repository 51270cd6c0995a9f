------------------------------- MODULE BlasLt -------------------------------
(* MatmulWithCublasLt (blaslt_impl.mu.h): a product described to the        *)
(* library by an operation and the layouts of its three matrices.           *)
EXTENDS Blas

\* cublasLtMatmul(op, y, y_desc, x, x_desc, out, out_desc): a matrix is rows
\* x cols, stored by columns ld apart, a batch of them stride apart.
CublasLtMatmul(op, y, y_desc, x, x_desc, adds, o, out_desc) ==
  LET Rows(l, trans) == IF trans THEN l.cols ELSE l.rows
      Cols(l, trans) == IF trans THEN l.rows ELSE l.cols
      Members(p, l) == [b \in 0..out_desc.batch-1 |-> Shift(p, b * l.stride)]
      agree == /\ Rows(y_desc, op.transA) = out_desc.rows
               /\ Cols(x_desc, op.transB) = out_desc.cols
               /\ Cols(y_desc, op.transA) = Rows(x_desc, op.transB)
               /\ y_desc.batch = out_desc.batch /\ x_desc.batch = out_desc.batch
  IN  IF agree
      THEN MublasGemm(op.transA, op.transB, out_desc.rows, out_desc.cols, Cols(y_desc, op.transA),
                      Members(y, y_desc), y_desc.ld, Members(x, x_desc), x_desc.ld,
                      adds, Members(o, out_desc), out_desc.ld)
      ELSE <<>>
-----------------------------------------------------------------------------
CreateMatrixLayout(rows, cols, trans, batch, stride) ==
  [rows |-> IF trans THEN rows ELSE cols, cols |-> IF trans THEN cols ELSE rows,
   ld |-> IF trans THEN rows ELSE cols, batch |-> batch, stride |-> stride]

\* MatmulDescriptor::Create.  A batch of one has no stride.
CreateDescriptor(M, N, K, trans_x, trans_y, batch, stride) ==
  [op |-> [transA |-> trans_y, transB |-> trans_x],
   x |-> CreateMatrixLayout(M, K, trans_x, batch, stride.x),
   y |-> CreateMatrixLayout(K, N, trans_y, batch, stride.y),
   o |-> CreateMatrixLayout(M, N, FALSE, batch, stride.o)]

\* The sizes of int8 products DescriptorSetter lets pass.
FourOrOne(n) == n % 4 = 0 \/ n = 1
Int8Sizes(M, N, K, trans_x, trans_y) ==
  /\ trans_x => FourOrOne(M)
  /\ ~trans_y => FourOrOne(N)
  /\ (trans_x /\ ~trans_y) \/ K % 4 = 0

\* Beta is the planner's use_addto.
RunImpl(d, x, y, o, use_addto) == CublasLtMatmul(d.op, y, d.y, x, d.x, use_addto, o, d.o)

\* The descriptor is created for the call, or taken from the cache of an
\* earlier call with the same key.
DescriptorSetter(T, x, y, o, M, N, K, trans_x, trans_y, batch, stride, use_addto) ==
  IF T = "int8" /\ ~Int8Sizes(M, N, K, trans_x, trans_y) THEN <<>>
  ELSE RunImpl(CreateDescriptor(M, N, K, trans_x, trans_y, batch, stride), x, y, o, use_addto)

NoStride == [x |-> 0, y |-> 0, o |-> 0]
RunOne(T, x, y, o, M, N, K, trans_x, trans_y, use_addto) ==
  DescriptorSetter(T, x, y, o, M, N, K, trans_x, trans_y, 1, NoStride, use_addto)

RunWithBatch(T, x, y, o, M, N, K, trans_x, trans_y, batch, stride_x, stride_y, stride_out, use_addto) ==
  DescriptorSetter(T, x, y, o, M, N, K, trans_x, trans_y, batch,
      IF batch > 1 THEN [x |-> stride_x, y |-> stride_y, o |-> stride_out] ELSE NoStride, use_addto)

\* Arrays of pointers: one after the other.
RunInTurn(T, xs, ys, os, M, N, K, trans_x, trans_y, use_addto) ==
  LET Member(k) == RunOne(T, xs[k - 1], ys[k - 1], os[k - 1], M, N, K, trans_x, trans_y, use_addto)
  IN  Loop(Cardinality(DOMAIN os), Member)
=============================================================================
