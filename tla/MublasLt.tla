------------------------------ MODULE MublasLt ------------------------------
(* The products of mublaslt.h: an m x k matrix by one of k columns whose    *)
(* buffer holds its columns one after the other.                            *)
EXTENDS BlasLt

Columns(rows, cols) == [rows |-> rows, cols |-> cols, ld |-> rows, batch |-> 1, stride |-> 0]
Described(m, k, n) ==
  [op |-> [transA |-> TRUE, transB |-> FALSE], A |-> Columns(k, m), B |-> Columns(k, n), C |-> Columns(n, m)]

\* The helper of int8 products is made once for its sizes.
CublasLtHelper(m, k, n) == Described(m, k, n)
CublasLtHelperGEMM(helper, A, B, C) == CublasLtMatmul(helper.op, B, helper.B, A, helper.A, FALSE, C, helper.C)

CublasLtMatmulFP8(a_dims, b_dims, A, B, C) ==
  LET d == Described(a_dims[1], a_dims[2], b_dims[2])
  IN  CublasLtMatmul(d.op, B, d.B, A, d.A, FALSE, C, d.C)
=============================================================================
