------------------------------ MODULE Attention ------------------------------
(* Flash attention on muDNN (kernels/flash_attn, kernels_utils.h): tensors  *)
(* are brought into the order batch, head, position, element; sequences of  *)
(* different lengths, packed one after the other, are padded with zeros to  *)
(* the longest and the padding is masked; the result is packed again.  An   *)
(* element is <<tensor, offset>>; zero is the empty bag.                    *)
EXTENDS Matmul

CONSTANTS
  VecElements,   \* 8: 16 bytes of half precision
  Tiles,         \* threads of the padding kernels for head_dim above 128, 64 and 32
  MaskTile       \* 16

ASSUME AttentionSizes ==
  /\ VecElements \in Nat \ {0} /\ MaskTile \in Nat \ {0}
  /\ Tiles \in Seq([above : Nat, x : Nat, y : Nat])

\* Offset of an element in a contiguous tensor of these dims.
Offset(dims, index) == FoldLeftDomain(LAMBDA sum, i : sum * dims[i] + index[i], 0, dims)
At(tensor, dims, index) == <<tensor, Offset(dims, index)>>

\* A grid of nx * ny * nz blocks.
Grid3(nx, ny, nz, threads, Body(_, _, _)) ==
  <<[threads |-> threads,
     blocks |-> [i \in 0..nx * ny * nz - 1 |-> Body(i % nx, (i \div nx) % ny, i \div (nx * ny))]]>>

Tiled(n, tile) == (n + tile - 1) \div tile
-----------------------------------------------------------------------------
(* Sequences: sequence b has the rows cu[b]..cu[b+1]-1 of a packed tensor   *)
(* [rows, heads, head_dim]; a padded one is [batch, heads, max, head_dim].  *)

\* The vectors of its row that thread t copies, and none beyond head_dim.
InRow(t, tile, head_dim) == (t % tile.x) * VecElements < head_dim

\* Rows beyond max_seq of the grid's last blocks are skipped.
PaddingRow(t, tile, bx, max_seq) == bx * tile.y + (t \div tile.x) < max_seq

PaddingKernel(tile, from, to, cu, heads, head_dim, max_seq, bx, head, b) ==
  LET row(t) == bx * tile.y + t \div tile.x
      seq_length == cu[b + 1] - cu[b]
      runs == {t \in 0..tile.x * tile.y - 1 : PaddingRow(t, tile, bx, max_seq) /\ InRow(t, tile, head_dim)}
      element(t, s) == (t % tile.x) * VecElements + s - 1
      From(t, s) == At(from, <<0, heads, head_dim>>, <<cu[b] + row(t), head, element(t, s)>>)
      To(t, s) == At(to, <<0, heads, max_seq, head_dim>>, <<b, head, row(t), element(t, s)>>)
      Copy(s) == Load(<<"vec", s>>, [t \in {t \in runs : row(t) < seq_length} |-> {From(t, s)}])
                 \o Store(<<<<"vec", s>>>>, [t \in runs |-> {To(t, s)}])
  IN  Loop(VecElements, Copy)

UnpaddingKernel(tile, from, to, cu, heads, head_dim, max_seq, bx, head, b) ==
  LET row(t) == bx * tile.y + t \div tile.x
      seq_length == cu[b + 1] - cu[b]
      runs == {t \in 0..tile.x * tile.y - 1 :
                 PaddingRow(t, tile, bx, max_seq) /\ InRow(t, tile, head_dim) /\ row(t) < seq_length}
      element(t, s) == (t % tile.x) * VecElements + s - 1
      From(t, s) == At(from, <<0, heads, max_seq, head_dim>>, <<b, head, row(t), element(t, s)>>)
      To(t, s) == At(to, <<0, heads, head_dim>>, <<cu[b] + row(t), head, element(t, s)>>)
      Copy(s) == Read(<<"vec", s>>, [t \in runs |-> {From(t, s)}])
                 \o Store(<<<<"vec", s>>>>, [t \in runs |-> {To(t, s)}])
  IN  Loop(VecElements, Copy)

\* RaiseNotSupportedError for shorter heads.
HasTile(head_dim) == \E k \in DOMAIN Tiles : head_dim > Tiles[k].above
TileOf(head_dim) ==
  Tiles[CHOOSE k \in DOMAIN Tiles : head_dim > Tiles[k].above /\ \A j \in 1..k-1 : head_dim <= Tiles[j].above]

LaunchUnpaddingKernel(from, to, cu, heads, head_dim, max_seq, batch_size) ==
  LET tile == TileOf(head_dim)
      Body(bx, head, b) == UnpaddingKernel(tile, from, to, cu, heads, head_dim, max_seq, bx, head, b)
  IN  Grid3(Tiled(max_seq, tile.y), heads, batch_size, 0..tile.x * tile.y - 1, Body)

\* One tensor; the tile is that of q's head_dim for all of them.
PaddingLaunch(tile, from, to, cu, heads, head_dim, max_seq, batch_size) ==
  LET Body(bx, head, b) == PaddingKernel(tile, from, to, cu, heads, head_dim, max_seq, bx, head, b)
  IN  Grid3(Tiled(max_seq, tile.y), heads, batch_size, 0..tile.x * tile.y - 1, Body)

\* What the shapes of a call are: batch_size, heads of q and of k and v,
\* head_dim, the sequences and the lengths they are padded to.
LaunchPaddingKernel(c, backward) ==
  LET tile == TileOf(c.dim)
      OfQ(from, to) == PaddingLaunch(tile, from, to, c.cu_q, c.heads, c.dim, c.max_q, c.batch)
      OfK(from, to) == PaddingLaunch(tile, from, to, c.cu_k, c.heads_k, c.dim, c.max_k, c.batch)
  IN  OfQ("q", "q_pad") \o (IF backward THEN OfQ("out", "out_pad") \o OfQ("dout", "dout_pad") ELSE <<>>)
      \o OfK("k", "k_pad") \o OfK("v", "v_pad")

\* The float, half and bfloat16 branches start the same kernels.
VarlenFaSeqlenPad(c, backward) == LaunchPaddingKernel(c, backward)
VarlenFaSeqlenUnpad(from, to, cu, heads, c, max_seq) ==
  LaunchUnpaddingKernel(from, to, cu, heads, c.dim, max_seq, c.batch)

\* Dims of the mask the kernel below builds.
MaskDims(c) == <<c.batch, 1, c.max_q, c.max_k>>
Length(cu, b) == cu[b + 1] - cu[b]
\* mask is 0 where both positions are in their sequences, negInf elsewhere;
\* a masked element is its own.
BuildPaddingMaskKernel(c) ==
  LET who == 0..MaskTile * MaskTile - 1
      Body(bx, by, b) ==
        LET j(t) == bx * MaskTile + (t % MaskTile)
            i(t) == by * MaskTile + (t \div MaskTile)
            runs == {t \in who : i(t) < c.max_q /\ j(t) < c.max_k}
            valid == {t \in runs : i(t) < Length(c.cu_q, b) /\ j(t) < Length(c.cu_k, b)}
            To(t) == At("mask", MaskDims(c), <<b, 0, i(t), j(t)>>)
        IN  Clear(<<"zero", 0>>, who)
            \o Store(<<<<"zero", 0>>>>, [t \in valid |-> {To(t)}]) \o Store(<<<<>>>>, [t \in runs \ valid |-> {To(t)}])
  IN  Grid3(Tiled(c.max_k, MaskTile), Tiled(c.max_q, MaskTile), c.batch, who, Body)
-----------------------------------------------------------------------------
(* Masks.                                                                   *)

NoMask == [binary |-> FALSE, dims |-> <<>>]

IsExpandableTo(from, to) ==
  \A i \in 0..Len(to)-1 :
    LET from_dim == IF i < Len(from) THEN FromEnd(from, i) ELSE 1
    IN  from_dim = FromEnd(to, i) \/ from_dim = 1 \/ FromEnd(to, i) = 1

\* What a mask's shape makes of it; "refused" where the code throws.
ParseMaskType(mask, is_causal, N, H_q, L, S) ==
  LET full == IF Len(mask.dims) = 3 THEN <<H_q, L, S>> ELSE <<N, H_q, L, S>>
  IN  CASE is_causal -> "CAUSAL"
        [] ~is_causal /\ mask = NoMask -> "NONE"
        [] ~is_causal /\ Len(mask.dims) = 2 ->
             IF mask.dims = <<L, S>> THEN "LS" ELSE IF mask.dims = <<N, S>> THEN "NS" ELSE "refused"
        [] ~is_causal /\ Len(mask.dims) \in {3, 4} ->
             IF mask.dims = full THEN "FULL" ELSE IF IsExpandableTo(mask.dims, full) THEN "BCAST" ELSE "refused"
        [] OTHER -> "refused"

HasMask(m) == m \notin {"NONE", "CAUSAL"}
IsPadMask(m) == m = "NS"
-----------------------------------------------------------------------------
(* muDNN.                                                                   *)

\* The element of the mask for query i and key j of a head: a mask of keys in
\* pad mode, otherwise dims of one are broadcast.
MaskElement(mask, pad, b, h, i, j) ==
  LET index == IF pad THEN <<b, j>> ELSE SubSeq(<<b, h, i, j>>, 5 - Len(mask.dims), 4)
  IN  At("mask", mask.dims, [d \in DOMAIN index |-> IF mask.dims[d] = 1 THEN 0 ELSE index[d]])

\* The tensors in the order batch, head, position, element.
QDims(c) == <<c.batch, c.heads, c.max_q, c.dim>>
KDims(c) == <<c.batch, c.heads_k, c.max_k, c.dim>>
HeadK(c, h) == (h * c.heads_k) \div c.heads
RowOf(tensor, dims, b, h, i) == {At(tensor, dims, <<b, h, i, e>>) : e \in 0..dims[4]-1}
Rows(tensor, dims, b, h, positions) == UNION {RowOf(tensor, dims, b, h, i) : i \in positions}

\* Keys that query i attends to: the causal ones, or those the mask leaves; a
\* query whose keys are all masked attends to all of them.
Attended(c, m, masked, b, i) ==
  LET all == 0..c.max_k-1
      left == {j \in all : <<b, i, j>> \notin masked}
  IN  IF m = "CAUSAL" THEN all \cap 0..i ELSE IF HasMask(m) /\ left # {} THEN left ELSE all

\* sdpa.RunFlash: a query's result comes from its row, the keys and values it
\* attends to and the mask; a key that takes part counts even if it is zero.
RunFlash(c, m, mask, masked) ==
  LET OfHead(h, ignored, b) ==
        LET who == 0..c.max_q * c.dim - 1
            i(t) == t \div c.dim
            keys(t) == Attended(c, m, masked, b, i(t))
        IN  Load(<<"sdpa", 0>>, [t \in who |-> {<<"key", b * c.max_k + j>> : j \in keys(t)}])
            \o Read(<<"sdpa", 0>>, [t \in who |->
                 RowOf("q_pad", QDims(c), b, h, i(t))
                 \cup Rows("k_pad", KDims(c), b, HeadK(c, h), keys(t))
                 \cup {At("v_pad", KDims(c), <<b, HeadK(c, h), j, t % c.dim>>) : j \in keys(t)}
                 \cup (IF HasMask(m) THEN {MaskElement(mask, IsPadMask(m), b, h, i(t), j) : j \in 0..c.max_k-1} ELSE {})])
            \o Store(<<<<"sdpa", 0>>>>, [t \in who |-> {At("out_pad", QDims(c), <<b, h, i(t), t % c.dim>>)}])
  IN  Grid3(c.heads, 1, c.batch, 0..c.max_q * c.dim - 1, OfHead)

\* sdpa.RunFlashBwd: a query's gradient comes from what it attends to, that of
\* a key and of a value from the queries that attend to it.
RunFlashBwd(c, m, mask, masked) ==
  LET OfQuery(h, ignored, b) ==
        LET who == 0..c.max_q - 1
            keys(i) == Attended(c, m, masked, b, i)
        IN  Load(<<"sdpa", 0>>, [i \in who |-> {<<"key", b * c.max_k + j>> : j \in keys(i)}])
            \o Read(<<"sdpa", 0>>, [i \in who |->
                 UNION {RowOf(n, QDims(c), b, h, i) : n \in {"q_pad", "out_pad", "dout_pad"}}
                 \cup UNION {Rows(n, KDims(c), b, HeadK(c, h), keys(i)) : n \in {"k_pad", "v_pad"}}])
            \o Store(<<<<"sdpa", 0>>>>, [i \in who |-> RowOf("dq_pad", QDims(c), b, h, i)])
      OfKey(g, ignored, b) ==
        LET who == 0..c.max_k - 1
            queries(j) == {i \in 0..c.max_q-1 : j \in Attended(c, m, masked, b, i)}
            heads == {h \in 0..c.heads-1 : HeadK(c, h) = g}
        IN  Read(<<"sdpa", 0>>, [j \in who |->
              UNION {Rows(n, QDims(c), b, h, queries(j)) : n \in {"q_pad", "out_pad", "dout_pad"}, h \in heads}
              \cup RowOf("k_pad", KDims(c), b, g, j) \cup RowOf("v_pad", KDims(c), b, g, j)])
            \o Store(<<<<"sdpa", 0>>>>, [j \in who |-> RowOf("dk_pad", KDims(c), b, g, j) \cup RowOf("dv_pad", KDims(c), b, g, j)])
  IN  Grid3(c.heads, 1, c.batch, 0..c.max_q - 1, OfQuery) \o Grid3(c.heads_k, 1, c.batch, 0..c.max_k - 1, OfKey)
-----------------------------------------------------------------------------
(* The kernels of the operators.                                            *)

\* [batch, position, head, element] to [batch, head, position, element].
TransposeMudnnStyle(from, to, dims) ==
  LET who == 0..dims[2] * dims[3] * dims[4] - 1
      h(t) == t \div (dims[3] * dims[4])
      l(t) == (t \div dims[4]) % dims[3]
      Body(n, ignored, none) ==
        Load(<<"element", 0>>, [t \in who |-> {At(from, <<0, dims[3], dims[2], dims[4]>>, <<n, l(t), h(t), t % dims[4]>>)}])
        \o Store(<<<<"element", 0>>>>, [t \in who |-> {At(to, dims, <<n, h(t), l(t), t % dims[4]>>)}])
  IN  Grid3(dims[1], 1, 1, who, Body)

\* ... and back.
TransposeBack(from, to, dims) ==
  LET who == 0..dims[2] * dims[3] * dims[4] - 1
      h(t) == t \div (dims[3] * dims[4])
      l(t) == (t \div dims[4]) % dims[3]
      Body(n, ignored, none) ==
        Read(<<"element", 0>>, [t \in who |-> {At(from, dims, <<n, h(t), l(t), t % dims[4]>>)}])
        \o Store(<<<<"element", 0>>>>, [t \in who |-> {At(to, <<0, dims[3], dims[2], dims[4]>>, <<n, l(t), h(t), t % dims[4]>>)}])
  IN  Grid3(dims[1], 1, 1, who, Body)

MaskType(c, causal, mask) == ParseMaskType(mask, causal, c.batch, c.heads, c.max_q, c.max_k)

\* FlashAttnBaseKernel on tensors that are not padded: the caller's mask,
\* whose values are not known here, takes part in every query.
FlashAttnKernel(c, causal, mask) ==
  LET m == MaskType(c, causal, mask)
  IN  IF m = "refused" THEN <<>>
      ELSE TransposeMudnnStyle("q", "q_pad", QDims(c)) \o TransposeMudnnStyle("k", "k_pad", KDims(c))
           \o TransposeMudnnStyle("v", "v_pad", KDims(c)) \o RunFlash(c, m, mask, {})
           \o TransposeBack("out_pad", "out", QDims(c))

FlashAttnGradKernel(c, causal, mask) ==
  LET m == MaskType(c, causal, mask)
      OfQ(from, to) == TransposeMudnnStyle(from, to, QDims(c))
      OfK(from, to) == TransposeMudnnStyle(from, to, KDims(c))
  IN  IF m = "refused" THEN OfQ("q", "q_pad") \o OfK("k", "k_pad") \o OfK("v", "v_pad")
                            \o OfQ("dout", "dout_pad") \o OfQ("out", "out_pad")
      ELSE OfQ("q", "q_pad") \o OfK("k", "k_pad") \o OfK("v", "v_pad")
           \o OfQ("dout", "dout_pad") \o OfQ("out", "out_pad") \o RunFlashBwd(c, m, mask, {})
           \o TransposeBack("dq_pad", "dq", QDims(c)) \o TransposeBack("dk_pad", "dk", KDims(c))
           \o TransposeBack("dv_pad", "dv", KDims(c))

\* The mask the kernels pass on, and what it masks.
PaddingMask(c) == [binary |-> FALSE, dims |-> MaskDims(c)]
Padded(c) == {<<b, i, j>> \in (0..c.batch-1) \X (0..c.max_q-1) \X (0..c.max_k-1) :
                i >= Length(c.cu_q, b) \/ j >= Length(c.cu_k, b)}

FlashAttnUnpaddedKernel(c, causal) ==
  LET m == MaskType(c, causal, PaddingMask(c))
  IN  IF ~HasTile(c.dim) THEN <<>>
      ELSE VarlenFaSeqlenPad(c, FALSE) \o BuildPaddingMaskKernel(c) \o RunFlash(c, m, PaddingMask(c), Padded(c))
           \o VarlenFaSeqlenUnpad("out_pad", "out", c.cu_q, c.heads, c, c.max_q)

FlashAttnUnpaddedGradKernel(c, causal) ==
  LET m == MaskType(c, causal, PaddingMask(c))
  IN  IF ~HasTile(c.dim) THEN <<>>
      ELSE VarlenFaSeqlenPad(c, TRUE) \o BuildPaddingMaskKernel(c) \o RunFlashBwd(c, m, PaddingMask(c), Padded(c))
           \o VarlenFaSeqlenUnpad("dq_pad", "dq", c.cu_q, c.heads, c, c.max_q)
           \o VarlenFaSeqlenUnpad("dk_pad", "dk", c.cu_k, c.heads_k, c, c.max_k)
           \o VarlenFaSeqlenUnpad("dv_pad", "dv", c.cu_k, c.heads_k, c, c.max_k)
-----------------------------------------------------------------------------
(* What attention is on packed tensors: a query attends to the keys of its  *)
(* own sequence, and if it is causal only to those up to its own position.  *)

Keys(c, causal, b, i) == IF causal THEN 0..i ELSE 0..Length(c.cu_k, b) - 1
Packed(tensor, heads, c, row, h) == {At(tensor, <<0, heads, c.dim>>, <<row, h, e>>) : e \in 0..c.dim-1}
OfKeys(tensor, c, b, g, positions) == UNION {Packed(tensor, c.heads_k, c, c.cu_k[b] + j, g) : j \in positions}
KeyMarks(c, b, positions) == {<<"key", b * c.max_k + j>> : j \in positions}

\* The sequence a row of a packed tensor belongs to; empty ones have none.
SequenceOf(c, cu, row) == CHOOSE b \in 0..c.batch-1 : cu[b] <= row /\ row < cu[b + 1]
Elements(n, cu, heads, c) == {<<n, o>> : o \in 0..cu[c.batch] * heads * c.dim - 1}
RowAt(o, heads, c) == o[2] \div (heads * c.dim)
HeadAt(o, heads, c) == (o[2] \div c.dim) % heads

\* marked are the query and key positions whose mask takes part; pad tells
\* whether it is a mask of keys.
AttentionExpected(c, causal, mask, pad, marked) ==
  LET Result(row, h, e) ==
        LET b == SequenceOf(c, c.cu_q, row)
            i == row - c.cu_q[b]
            keys == Keys(c, causal, b, i)
            g == HeadK(c, h)
        IN  KeyMarks(c, b, keys) \cup Packed("q", c.heads, c, row, h) \cup OfKeys("k", c, b, g, keys)
            \cup {At("v", <<0, c.heads_k, c.dim>>, <<c.cu_k[b] + j, g, e>>) : j \in keys}
            \cup {MaskElement(mask, pad, b, h, i, j) : j \in {j \in 0..c.max_k-1 : <<b, i, j>> \in marked}}
  IN  [o \in Elements("out", c.cu_q, c.heads, c) |->
         <<SetToBag(Result(RowAt(o, c.heads, c), HeadAt(o, c.heads, c), o[2] % c.dim))>>]

\* A query's gradient needs the keys it attends to, a key's the queries that
\* attend to it, of all the heads that share it.
AttentionGradExpected(c, causal) ==
  LET Own(names, row, h) == UNION {Packed(n, c.heads, c, row, h) : n \in names}
      backward == {"q", "out", "dout"}
      OfQuery(row, h) ==
        LET b == SequenceOf(c, c.cu_q, row)
            keys == Keys(c, causal, b, row - c.cu_q[b])
        IN  KeyMarks(c, b, keys) \cup Own(backward, row, h)
            \cup OfKeys("k", c, b, HeadK(c, h), keys) \cup OfKeys("v", c, b, HeadK(c, h), keys)
      OfKey(row, g) ==
        LET b == SequenceOf(c, c.cu_k, row)
            j == row - c.cu_k[b]
            queries == {i \in 0..Length(c.cu_q, b)-1 : j \in Keys(c, causal, b, i)}
        IN  UNION {Own(backward, c.cu_q[b] + i, h) : i \in queries, h \in {h \in 0..c.heads-1 : HeadK(c, h) = g}}
            \cup Packed("k", c.heads_k, c, row, g) \cup Packed("v", c.heads_k, c, row, g)
  IN  [o \in Elements("dq", c.cu_q, c.heads, c) |-> <<SetToBag(OfQuery(RowAt(o, c.heads, c), HeadAt(o, c.heads, c)))>>]
      @@ [o \in Elements("dk", c.cu_k, c.heads_k, c) \cup Elements("dv", c.cu_k, c.heads_k, c) |->
            <<SetToBag(OfKey(RowAt(o, c.heads_k, c), HeadAt(o, c.heads_k, c)))>>]

\* The padded tensors, and the mask.
Workspace(c, names, namesK, maskDims) ==
  names \X (0..Numel(QDims(c))-1) \cup namesK \X (0..Numel(KDims(c))-1) \cup {"mask"} \X (0..Numel(maskDims)-1)

VarlenAttention(c, causal) ==
  [kernels |-> FlashAttnUnpaddedKernel(c, causal),
   expected |-> AttentionExpected(c, causal, PaddingMask(c), FALSE, IF causal THEN {} ELSE Padded(c)),
   temporaries |-> Workspace(c, {"q_pad", "out_pad"}, {"k_pad", "v_pad"}, MaskDims(c))]

VarlenAttentionGrad(c, causal) ==
  [kernels |-> FlashAttnUnpaddedGradKernel(c, causal),
   expected |-> AttentionGradExpected(c, causal),
   temporaries |-> Workspace(c, {"q_pad", "out_pad", "dout_pad", "dq_pad"}, {"k_pad", "v_pad", "dk_pad", "dv_pad"}, MaskDims(c))]

\* The caller's mask is there before the call.
MaskElements(mask) == IF mask = NoMask THEN {} ELSE {"mask"} \X (0..Numel(mask.dims)-1)
Triples(c) == (0..c.batch-1) \X (0..c.max_q-1) \X (0..c.max_k-1)

FlashAttention(c, causal, mask) ==
  [kernels |-> Fill(MaskElements(mask)) \o FlashAttnKernel(c, causal, mask),
   expected |-> AttentionExpected(c, causal, mask, Len(mask.dims) = 2 /\ mask.dims[1] # c.max_q,
                                  IF causal \/ mask = NoMask THEN {} ELSE Triples(c)),
   temporaries |-> Workspace(c, {"q_pad", "out_pad"}, {"k_pad", "v_pad"}, mask.dims)]

FlashAttentionGrad(c, causal, mask) ==
  [kernels |-> FlashAttnGradKernel(c, causal, mask),
   expected |-> AttentionGradExpected(c, causal),
   temporaries |-> Workspace(c, {"q_pad", "out_pad", "dout_pad", "dq_pad"}, {"k_pad", "v_pad", "dk_pad", "dv_pad"}, <<0>>)]

\* A call that throws writes nothing.
AttentionRefused(kernels) == [kernels |-> kernels, expected |-> <<>>, temporaries |-> {}]
=============================================================================
