------------------------------- MODULE KVCache -------------------------------
(* flash_attn_kvcache_mate: attention to keys and values of a cache, which  *)
(* are one tensor per batch, packed sequences, or pages found by a table.   *)
(* A tensor is [dtype, at, dims, strides]; an element is <<name, offset>>.  *)
EXTENDS Attention

CONSTANTS
  HeadDim, WideHeadDim,   \* 128 and 192
  PageSize                \* 64

ASSUME KVCacheSizes == HeadDim \in Nat \ {0} /\ WideHeadDim \in Nat \ {0, HeadDim} /\ PageSize \in Nat \ {0}

Absent == <<>>     \* an optional input that is not given

\* An element of a tensor, by its strides.
ElementAt(p, strides, index) == Shift(p, FoldLeftDomain(LAMBDA sum, i : sum + index[i] * strides[i], 0, index))
GetEle(x, idx) == IF idx < 0 THEN x[Len(x) + 1 + idx] ELSE x[idx + 1]
-----------------------------------------------------------------------------
(* A call c has the tensors q, k and v, out or Absent, cu_q and cu_k (first *)
(* rows) and page_table and used_k (pages and lengths by sequence) or       *)
(* Absent, max_q and max_k, causal, attention_chunk, and the names of other *)
(* optional inputs that are given.                                          *)

Varlen_q(c) == c.cu_q # Absent
Varlen_k(c) == c.cu_k # Absent
Paged(c) == c.page_table # Absent

HalfTypes(c) == c.q.dtype \in {"float16", "bfloat16"} /\ c.k.dtype = c.q.dtype /\ c.v.dtype = c.q.dtype
ContiguousLast(c) == \A t \in {c.q, c.k, c.v} : GetEle(t.strides, -1) = 1
LengthsGiven(c) ==
  /\ Varlen_q(c) => c.max_q > 0
  /\ Varlen_k(c) => c.max_k > 0 /\ ~Paged(c)

\* What the implementation takes from the shapes.
Sizes(c) ==
  LET pages == IF Paged(c) THEN Len(c.page_table[1]) ELSE 0
      batch == IF Varlen_q(c) THEN Len(c.cu_q) - 1 ELSE c.q.dims[1]
      page_size == IF Paged(c) THEN c.k.dims[2] ELSE 1
  IN  [batch |-> batch,
       q |-> IF Varlen_q(c) THEN c.max_q ELSE c.q.dims[2],
       total_q |-> IF Varlen_q(c) THEN c.q.dims[1] ELSE batch * c.q.dims[2],
       heads |-> GetEle(c.q.dims, -2), head_size |-> GetEle(c.q.dims, -1), head_size_v |-> GetEle(c.v.dims, -1),
       pages |-> pages, num_pages |-> IF Paged(c) THEN c.k.dims[1] ELSE 0, page_size |-> page_size,
       k |-> IF Varlen_k(c) THEN c.max_k ELSE IF Paged(c) THEN pages * page_size ELSE c.k.dims[2],
       total_k |-> IF Varlen_k(c) THEN c.k.dims[1] ELSE batch * c.k.dims[2],
       heads_k |-> GetEle(c.k.dims, -2),
       batch_k |-> IF Paged(c) THEN Len(c.page_table) ELSE IF Varlen_k(c) THEN Len(c.cu_k) - 1 ELSE c.k.dims[1]]

PagesTaken(c) == Paged(c) => Sizes(c).page_size = PageSize /\ c.used_k # Absent

\* One query attends to every key, causal or not.
Causal(c) == c.causal /\ ~(Sizes(c).q = 1 /\ c.attention_chunk = 0 /\ (Sizes(c).head_size # HeadDim \/ ~Paged(c)))

ShapesAgree(c) ==
  LET s == Sizes(c)
  IN  /\ s.batch = s.batch_k
      /\ s.head_size = HeadDim => GetEle(c.q.strides, -2) = s.head_size
      /\ c.q.dims = IF Varlen_q(c) THEN <<s.total_q, s.heads, s.head_size>> ELSE <<s.batch, s.q, s.heads, s.head_size>>
      /\ LET rows == IF Paged(c) THEN <<s.num_pages, s.page_size>>
                     ELSE IF Varlen_k(c) THEN <<s.total_k>> ELSE <<s.batch_k, s.k>>
         IN  c.k.dims = rows \o <<s.heads_k, s.head_size>> /\ c.v.dims = rows \o <<s.heads_k, s.head_size_v>>
      /\ Varlen_k(c) => Len(c.cu_k) = s.batch + 1
      /\ Paged(c) => \A b \in 1..s.batch_k : Len(c.page_table[b]) = s.pages
      /\ c.used_k # Absent => Len(c.used_k) = s.batch

OutDims(c) ==
  LET s == Sizes(c)
  IN  (IF Varlen_q(c) THEN <<s.total_q>> ELSE <<s.batch, s.q>>) \o <<s.heads, s.head_size_v>>
LseDims(c) == LET s == Sizes(c) IN IF Varlen_q(c) THEN <<s.heads, s.total_q>> ELSE <<s.batch, s.heads, s.q>>

\* Strides of a contiguous tensor.
StridesOf(dims) == [i \in DOMAIN dims |-> Numel(SubSeq(dims, i + 1, Len(dims)))]
Allocated(n, dims) == [dtype |-> "any", at |-> <<n, 0>>, dims |-> dims, strides |-> StridesOf(dims)]
Out(c) == IF c.out = Absent THEN Allocated("out", OutDims(c)) ELSE c.out
OutTaken(c) == Out(c).dims = OutDims(c) /\ GetEle(Out(c).strides, -1) = 1

\* seqused_q, leftpad_k, k_new, rotary_cos and kv_batch_idx.
NothingUnsupported(c) == c.others = {}

HeadsShared(c) == Sizes(c).heads % Sizes(c).heads_k = 0 /\ GetEle(c.k.strides, -2) = GetEle(c.k.dims, -1)
-----------------------------------------------------------------------------
\* Sliding windows are refused before, so that only a chunk is local.
IsLocal(c) == c.attention_chunk >= 1

\* Pointers and strides for the kernels.
SetParamsFprop(c) ==
  LET Strides(t) == [at |-> t.at, batch |-> t.strides[1], row |-> GetEle(t.strides, -3), head |-> GetEle(t.strides, -2)]
      lse == StridesOf(LseDims(c))
  IN  [q |-> Strides(c.q), k |-> Strides(c.k), v |-> Strides(c.v), o |-> Strides(Out(c)),
       lse |-> [at |-> <<"lse", 0>>, batch |-> IF Varlen_q(c) THEN 0 ELSE lse[1], head |-> IF Varlen_q(c) THEN lse[1] ELSE lse[2]],
       sizes |-> Sizes(c), cu_q |-> c.cu_q, cu_k |-> c.cu_k, page_table |-> c.page_table, used_k |-> c.used_k]

\* The kernels of mutlass: sequence b has len_q(b) queries, which are rows of
\* batch b or, packed, rows from first(b) on; KeyOf is where key j of head g
\* begins in k and v.
Fmha(p, causal, packed, len_q(_), first(_), len_k(_), KeyOf(_, _, _, _)) ==
  LET s == p.sizes
      who == 0..s.q * s.head_size_v - 1
      Cell(t, batch, row, h, e) == Shift(t.at, batch * t.batch + row * t.row + h * t.head + e)
      b0(b) == IF packed THEN 0 ELSE b
      Body(b, h, none) ==
        LET runs == {t \in who : t \div s.head_size_v < len_q(b)}
            i(t) == t \div s.head_size_v
            e(t) == t % s.head_size_v
            g == h \div (s.heads \div s.heads_k)
            keys(t) == 0..(IF causal THEN i(t) + len_k(b) - len_q(b) ELSE len_k(b) - 1)
            Query(t) == {Cell(p.q, b0(b), first(b) + i(t), h, x) : x \in 0..s.head_size-1}
            Key(t) == UNION {{Shift(KeyOf(p.k, b, j, g), x) : x \in 0..s.head_size-1} : j \in keys(t)}
            Sum(t) == Shift(p.lse.at, b0(b) * p.lse.batch + h * p.lse.head + first(b) + i(t))
        IN  Load(<<"o", 0>>, [t \in runs |-> Query(t) \cup Key(t)])
            \o Store(<<<<"o", 0>>>>, [t \in {t \in runs : e(t) = 0} |-> {Sum(t)}])
            \o Load(<<"o", 0>>, [t \in runs |-> {Shift(KeyOf(p.v, b, j, g), e(t)) : j \in keys(t)}])
            \o Store(<<<<"o", 0>>>>, [t \in runs |-> {Cell(p.o, b0(b), first(b) + i(t), h, e(t))}])
  IN  Grid3(s.batch, s.heads, 1, who, Body)

FmhaKernelLauncher(p, causal) ==
  LET First(cu, b) == IF cu = Absent THEN 0 ELSE cu[b + 1]
      Of(cu, b, all) == IF cu = Absent THEN all ELSE cu[b + 2] - cu[b + 1]
      KeyOf(t, b, j, g) == Shift(t.at, (IF p.cu_k = Absent THEN b * t.batch ELSE 0) + (First(p.cu_k, b) + j) * t.row + g * t.head)
  IN  Fmha(p, causal, p.cu_q # Absent, LAMBDA b : Of(p.cu_q, b, p.sizes.q), LAMBDA b : First(p.cu_q, b),
           LAMBDA b : Of(p.cu_k, b, p.sizes.k), KeyOf)

FmhaPagedKernelLauncher(p, causal) ==
  LET KeyOf(t, b, j, g) ==
        Shift(t.at, p.page_table[b + 1][j \div p.sizes.page_size + 1] * t.batch + (j % p.sizes.page_size) * t.row + g * t.head)
  IN  Fmha(p, causal, FALSE, LAMBDA b : p.sizes.q, LAMBDA b : 0, LAMBDA b : p.used_k[b + 1], KeyOf)

DispatchFmhaKernel(p, causal, paged) == IF paged THEN FmhaPagedKernelLauncher(p, causal) ELSE FmhaKernelLauncher(p, causal)

\* The sizes of heads for which kernels are chosen, and for which they exist:
\* the code throws between the two, and starts none for other sizes.
HeaddimSwitch(qk, v) == v = HeadDim /\ qk \in {HeadDim, WideHeadDim}
GetTileConfig(qk, v, paged) == v = HeadDim /\ qk \in (IF paged THEN {HeadDim} ELSE {HeadDim, WideHeadDim})

FlashAttnKernelKVCacheMateImpl(c) ==
  IF /\ HalfTypes(c) /\ ContiguousLast(c) /\ LengthsGiven(c) /\ PagesTaken(c) /\ ShapesAgree(c)
     /\ OutTaken(c) /\ NothingUnsupported(c) /\ ~IsLocal(c) /\ HeadsShared(c)
     /\ HeaddimSwitch(Sizes(c).head_size, Sizes(c).head_size_v)
     /\ GetTileConfig(Sizes(c).head_size, Sizes(c).head_size_v, Paged(c))
  THEN DispatchFmhaKernel(SetParamsFprop(c), Causal(c), Paged(c)) ELSE <<>>

FlashAttnKernelKVCacheMate(c) ==
  IF c.q.dtype \in {"float16", "bfloat16", "float32"} THEN FlashAttnKernelKVCacheMateImpl(c) ELSE <<>>
-----------------------------------------------------------------------------
(* What attention to the cache is: row i of sequence b attends to the keys  *)
(* of that sequence, and if it is causal to none that come after it when    *)
(* the last query is at the last key.                                       *)

KVCacheExpected(c) ==
  LET s == Sizes(c)
      LenQ(b) == IF Varlen_q(c) THEN c.cu_q[b + 2] - c.cu_q[b + 1] ELSE s.q
      LenK(b) == IF Paged(c) THEN c.used_k[b + 1] ELSE IF Varlen_k(c) THEN c.cu_k[b + 2] - c.cu_k[b + 1] ELSE s.k
      RowQ(b, i) == IF Varlen_q(c) THEN <<c.cu_q[b + 1] + i>> ELSE <<b, i>>
      RowK(b, j) == IF Paged(c) THEN <<c.page_table[b + 1][j \div PageSize + 1], j % PageSize>>
                    ELSE IF Varlen_k(c) THEN <<c.cu_k[b + 1] + j>> ELSE <<b, j>>
      KeysOf(b, i) == {j \in 0..LenK(b)-1 : c.causal => j + LenQ(b) <= i + LenK(b)}
      ElementOf(t, row, h, e) == ElementAt(t.at, t.strides, row \o <<h, e>>)
      Share(h) == h \div (s.heads \div s.heads_k)
      Score(b, i, h) ==
        {ElementOf(c.q, RowQ(b, i), h, e) : e \in 0..s.head_size-1}
        \cup {ElementOf(c.k, RowK(b, j), Share(h), e) : j \in KeysOf(b, i), e \in 0..s.head_size-1}
      Values(b, i, h, e) == {ElementOf(c.v, RowK(b, j), Share(h), e) : j \in KeysOf(b, i)}
      queries == {<<b, i, h>> \in (0..s.batch-1) \X (0..s.q-1) \X (0..s.heads-1) : i < LenQ(b)}
      lse == StridesOf(LseDims(c))
      LseAt(q) == ElementAt(<<"lse", 0>>, lse, IF Varlen_q(c) THEN <<q[3], c.cu_q[q[1] + 1] + q[2]>> ELSE <<q[1], q[3], q[2]>>)
      OutAt(q, e) == ElementOf(Out(c), RowQ(q[1], q[2]), q[3], e)
  IN  [o \in {LseAt(q) : q \in queries} |->
         LET q == CHOOSE q \in queries : LseAt(q) = o IN <<SetToBag(Score(q[1], q[2], q[3]))>>]
      @@ [o \in {OutAt(q, e) : q \in queries, e \in 0..s.head_size_v-1} |->
            LET x == CHOOSE x \in queries \X (0..s.head_size_v-1) : OutAt(x[1], x[2]) = o
                q == x[1]
            IN  <<SetToBag(Score(q[1], q[2], q[3]) \cup Values(q[1], q[2], q[3], x[2]))>>]

KVCacheAttention(c) ==
  [kernels |-> FlashAttnKernelKVCacheMate(c), expected |-> KVCacheExpected(c), temporaries |-> {}]
=============================================================================
