------------------------------- MODULE Collectives -------------------------------
(***************************************************************************)
(* The communication kernels of kernels/paddle_kernels, run by every rank  *)
(* of a communicator: what each hands to MCCL, in which groups, from and   *)
(* into which part of its tensors, and what it waits for.  An element of a *)
(* tensor is the triple of its rank, its call and its index; where counts  *)
(* are rows of in_feat elements, a row is one element.                     *)
(***************************************************************************)
EXTENDS ClassCenterSample, ParallelCrossEntropy

CONSTANT Programs \* what the framework may ask for: [Rank -> Seq of calls]

VARIABLES
  program, \* the calls of each rank
  call,    \* per rank: the current call
  step     \* per rank: how far its kernel is

vars == <<stream, received, program, call, step>>

\* f[0] + ... + f[n - 1].
Sum(f, n) == LET sum[k \in 0..n] == IF k = 0 THEN 0 ELSE sum[k - 1] + f[k - 1] IN sum[n]
Product(shape) ==
  LET product[k \in 0..Len(shape)] == IF k = 0 THEN 1 ELSE product[k - 1] * shape[k]
  IN  product[Len(shape)]

Finished(r) == call[r] > Len(program[r])
Call(r) == program[r][call[r]]
At(r, op, k) == ~Finished(r) /\ Call(r).op = op /\ step[r] = k

\* Elements of x, the current call's tensor: GetPartialTensor.
Part(r, offset, numel) == [k \in 1..numel |-> <<r, call[r], offset + k - 1>>]

Init ==
  /\ program \in Programs
  /\ call = [r \in Rank |-> 1]
  /\ step = [r \in Rank |-> 0]
  /\ stream = [r \in Rank |-> <<>>]
  /\ received = [r \in Rank |-> [b \in 0..Len(program[r]) |-> <<>>]]

\* What the framework owes the kernels, which cannot check it: counts are numbers,
\* and the calls of the ranks fit each other.  For any two ranks, the n-th call of
\* one that sends to the other and the n-th call of the other that receives from
\* the one are of the same tensor, and all ranks make the same collective calls.
Exchanges == {"global_scatter", "all_to_all", "all2all"}
Wholes == {"all_gather", "all_reduce", "mp_allreduce_sum", "reduce_scatter", "broadcast"}
CrossEntropies == {"c_softmax_with_cross_entropy", "c_softmax_with_multi_label_cross_entropy"}
Joint == Wholes \cup CrossEntropies
           \cup {"partial_allgather", "c_concat", "c_scatter", "class_center_sample"}

WellFormed(c) ==
  \/ /\ c.op = "global_scatter"
     /\ c.experts \in Nat \ {0}
     /\ c.local \in [Rank -> [0..(c.experts * NRanks - 1) -> Nat]]
  \/ c.op = "all2all" /\ c.count \in [Rank -> [Rank -> Nat]]
  \/ c.op \in {"all_to_all", "partial_allgather", "c_scatter"} \cup Wholes /\ c.numel \in Nat
  \/ c.op = "c_concat" /\ c.rows \in Nat /\ c.cols \in Nat
  \/ c.op \in CrossEntropies \cup {"class_center_sample"}
  \/ /\ c.op \in {"p_send", "p_recv"}
     /\ c.peer \in Rank /\ c.dynamic \in BOOLEAN /\ c.shape \in Seq(Nat)
  \/ /\ c.op \in {"p_send_array", "p_recv_array"}
     /\ c.peer \in Rank /\ c.tensors \in Nat \ {0} /\ c.numels \in [0..(c.tensors - 1) -> Nat]

Sending(calls, peer) ==
  {c \in DOMAIN calls : \/ calls[c].op \in Exchanges
                        \/ calls[c].op \in {"p_send", "p_send_array"} /\ calls[c].peer = peer}
Receiving(calls, peer) ==
  {c \in DOMAIN calls : \/ calls[c].op \in Exchanges
                        \/ calls[c].op \in {"p_recv", "p_recv_array"} /\ calls[c].peer = peer}
Joining(calls) == {c \in DOMAIN calls : calls[c].op \in Joint}

\* A receive of a dynamic shape has the shape that it will find.
Fit(a, b) ==
  CASE a.op = "p_send" -> b.op = "p_recv" /\ a.dynamic = b.dynamic /\ a.shape = b.shape
    [] a.op = "p_send_array" ->
         b.op = "p_recv_array" /\ a.tensors = b.tensors /\ a.numels = b.numels
    [] OTHER -> a = b

\* The ways to pair the calls A of one rank with the calls B of another in order.
Pairings(calls1, calls2, A, B) ==
  {m \in [A -> B] : /\ \A b \in B : \E a \in A : m[a] = b
                    /\ \A a1, a2 \in A : a1 < a2 => m[a1] < m[a2]
                    /\ \A a \in A : Fit(calls1[a], calls2[m[a]])}

ASSUME ProgramsAssumption ==
  \A p \in Programs :
    /\ DOMAIN p = Rank
    /\ \A r \in Rank : p[r] \in Seq(Range(p[r])) /\ \A c \in DOMAIN p[r] : WellFormed(p[r][c])
    /\ \A r, s \in Rank :
         /\ Pairings(p[r], p[s], Sending(p[r], s), Receiving(p[s], r)) # {}
         /\ Pairings(p[r], p[s], Joining(p[r]), Joining(p[s])) # {}
-----------------------------------------------------------------------------
Post(r, ops) == stream' = [stream EXCEPT ![r] = Launched(r, ops)]
Alloc(r, buffer, numel) == received' = [received EXCEPT ![r][buffer] = Fresh(numel)]
Goto(r, k) == step' = [step EXCEPT ![r] = k] /\ UNCHANGED <<program, call>>
Return(r) ==
  /\ call' = [call EXCEPT ![r] = @ + 1]
  /\ step' = [step EXCEPT ![r] = 0]
  /\ UNCHANGED program
-----------------------------------------------------------------------------
\* global_scatter: local[s][i + j*experts] rows of rank s are for expert i of
\* rank j; global_count holds what the ranks agreed on beforehand.
GlobalCount(c, r) ==
  [idx \in 0..(c.experts * NRanks - 1) |->
     c.local[idx \div c.experts][(idx % c.experts) + r * c.experts]]

\* The counts of global_count in the order the loops visit them.
Visited(c, r) ==
  [k \in 0..(c.experts * NRanks - 1) |->
     GlobalCount(c, r)[(k \div NRanks) + (k % NRanks) * c.experts]]

\* Mutants of RecvPtr: the rows are laid out by rank, then by expert; recv_ptr is
\* advanced before the call.
RecvPtrByRank(c, r, i, j) == Sum(GlobalCount(c, r), i + j * c.experts)
RecvPtrAdvanced(c, r, i, j) == Sum(Visited(c, r), i * NRanks + j + 1)

\* recv_ptr at expert i, rank j: all that was received for earlier experts, and
\* from earlier ranks for this one.
RecvPtr(c, r, i, j) == Sum(Visited(c, r), i * NRanks + j)

SendRows(c, r, idx) ==
  IF c.local[r][idx] = 0 THEN <<>>
  ELSE <<Send(idx \div c.experts, Part(r, Sum(c.local[r], idx), c.local[r][idx]), FALSE)>>

\* Mutant of RecvRows: the counts of the sends are used for the receives.
RecvRowsOfLocal(c, r, idx) ==
  IF c.local[r][idx] = 0 THEN <<>>
  ELSE <<Recv(idx \div c.experts, call[r], RecvPtr(c, r, idx % c.experts, idx \div c.experts),
              c.local[r][idx], FALSE)>>

RecvRows(c, r, idx) ==
  LET count == GlobalCount(c, r)[idx]
  IN  IF count = 0 THEN <<>>
      ELSE <<Recv(idx \div c.experts, call[r],
                  RecvPtr(c, r, idx % c.experts, idx \div c.experts), count, FALSE)>>

ExpertGroup(c, r, i) ==
  FlattenSeq([k \in 1..NRanks |->
    LET idx == i + (k - 1) * c.experts IN SendRows(c, r, idx) \o RecvRows(c, r, idx)])

\* One group per expert; the first is preceded by the allocation of out.
GlobalScatter(r, i) ==
  /\ At(r, "global_scatter", i)
  /\ Post(r, ExpertGroup(Call(r), r, i))
  /\ IF i = 0
     THEN Alloc(r, call[r], Sum(GlobalCount(Call(r), r), Call(r).experts * NRanks))
     ELSE UNCHANGED received
  /\ IF i + 1 < Call(r).experts THEN Goto(r, i + 1) ELSE Return(r)
-----------------------------------------------------------------------------
\* Mutant of AllToAll: without GroupStart and GroupEnd.
AllToAllUngrouped(r) ==
  /\ At(r, "all_to_all", 0)
  /\ LET n == Call(r).numel \div NRanks
     IN  stream' = [stream EXCEPT ![r] = @ \o FlattenSeq([k \in 1..NRanks |->
           <<{[n |-> 1, op |-> Send(k - 1, Part(r, (k - 1) * n, n), FALSE)]},
             {[n |-> 1, op |-> Recv(k - 1, call[r], (k - 1) * n, n, FALSE)]}>>])]
  /\ Alloc(r, call[r], Call(r).numel)
  /\ Return(r)

AllToAll(r) ==
  /\ At(r, "all_to_all", 0)
  /\ LET n == Call(r).numel \div NRanks
     IN  Post(r, FlattenSeq([k \in 1..NRanks |->
           <<Send(k - 1, Part(r, (k - 1) * n, n), FALSE),
             Recv(k - 1, call[r], (k - 1) * n, n, FALSE)>>]))
  /\ Alloc(r, call[r], Call(r).numel)
  /\ Return(r)

\* McclAll2All: rank s has count[s][j] elements for rank j, empty ones skipped.
McclAll2All(r) ==
  /\ At(r, "all2all", 0)
  /\ LET count == Call(r).count
         out(j) == IF count[r][j] = 0 THEN <<>>
                   ELSE <<Send(j, Part(r, Sum(count[r], j), count[r][j]), FALSE)>>
         in(j)  == IF count[j][r] = 0 THEN <<>>
                   ELSE <<Recv(j, call[r], Sum([s \in Rank |-> count[s][r]], j),
                               count[j][r], FALSE)>>
     IN  /\ Post(r, FlattenSeq([k \in 1..NRanks |-> out(k - 1) \o in(k - 1)]))
         /\ Alloc(r, call[r], Sum([s \in Rank |-> count[s][r]], NRanks))
  /\ Return(r)

PartialAllGather(r) ==
  /\ At(r, "partial_allgather", 0)
  /\ LET n == Call(r).numel \div NRanks
     IN  Post(r, <<AllGather(Part(r, n * r, n), call[r])>>)
  /\ Alloc(r, call[r], Call(r).numel)
  /\ Return(r)

\* c_concat: temp_out, the gathered tensors one below the other, is cut into
\* slices of rows that are put side by side.
CConcat(r) ==
  /\ At(r, "c_concat", 0)
  /\ LET rows  == Call(r).rows
         cols  == Call(r).cols
         width == cols * NRanks
         from  == [k \in 1..(rows * width) |->
                     LET row == (k - 1) \div width
                         col == (k - 1) % width
                     IN  (col \div cols) * rows * cols + row * cols + (col % cols) + 1]
     IN  /\ stream' = [stream EXCEPT ![r] =
               @ \o <<{[n |-> 1, op |-> AllGather(Part(r, 0, rows * cols), call[r])]},
                      {[n |-> 1, op |-> Rearrange(call[r], from, FALSE)]}>>]
         /\ Alloc(r, call[r], rows * width)
  /\ Return(r)

\* c_scatter on the calculation stream: broadcast into temp, its slice into out
\* by a copy that the host waits for.
CScatter(r) ==
  /\ At(r, "c_scatter", 0)
  /\ LET n == Call(r).numel \div NRanks
     IN  stream' = [stream EXCEPT ![r] =
           @ \o <<{[n |-> 1, op |-> Broadcast(Call(r).root, Part(r, 0, Call(r).numel), call[r], TRUE)]},
                  {[n |-> 1, op |-> Rearrange(call[r], [k \in 1..n |-> n * r + k], TRUE)]}>>]
  /\ Alloc(r, call[r], Call(r).numel)
  /\ Goto(r, 1)

CScatterCopied(r) ==
  /\ At(r, "c_scatter", 1)
  /\ Drained(r)
  /\ Return(r)
  /\ UNCHANGED mcclVars
-----------------------------------------------------------------------------
\* A gather or reduction of the whole tensor x.  A type or an operation that MCCL has
\* no name for raises before anything is launched.
Whole(r, numel) == Part(r, 0, numel)
PostOrRaise(r, how, op) ==
  IF Call(r).type \in McclDataType /\ how \in McclReduceOp THEN Post(r, <<op>>)
  ELSE UNCHANGED stream

AllGatherKernel(r) ==
  /\ At(r, "all_gather", 0)
  /\ PostOrRaise(r, "sum", AllGather(Whole(r, Call(r).numel), call[r]))
  /\ Alloc(r, call[r], Call(r).numel * NRanks)
  /\ Return(r)

AllReduceKernel(r) ==
  /\ At(r, "all_reduce", 0)
  /\ PostOrRaise(r, Call(r).how, AllReduce(Call(r).how, Whole(r, Call(r).numel), call[r]))
  /\ Alloc(r, call[r], Call(r).numel)
  /\ Return(r)

MpAllReduceSumKernel(r) ==
  /\ At(r, "mp_allreduce_sum", 0)
  /\ PostOrRaise(r, "sum", AllReduce("sum", Whole(r, Call(r).numel), call[r]))
  /\ Alloc(r, call[r], Call(r).numel)
  /\ Return(r)

ReduceScatterKernel(r) ==
  /\ At(r, "reduce_scatter", 0)
  /\ PostOrRaise(r, "sum", ReduceScatter("sum", Whole(r, Call(r).numel), call[r]))
  /\ Alloc(r, call[r], Call(r).numel \div NRanks)
  /\ Return(r)

BroadcastKernel(r) ==
  /\ At(r, "broadcast", 0)
  /\ PostOrRaise(r, "sum", Broadcast(Call(r).root, Whole(r, Call(r).numel), call[r], FALSE))
  /\ Alloc(r, call[r], Call(r).numel)
  /\ Return(r)

\* The kernel waits for nothing: what it launches is in the order of the stream.
CSoftmax(r) ==
  /\ ~Finished(r)
  /\ Call(r).op \in CrossEntropies
  /\ received' = [received EXCEPT ![r][call[r]] =
       [tensor \in {"logits_max", "softmax", "predicted_logits", "sum_exp_logits", "loss"} |->
          Unwritten]]
  /\ stream' = [stream EXCEPT ![r] = Ungrouped(r,
       <<Kernel("maxima", call[r]),  AllReduceInPlace("max", "logits_max", call[r]),
         Kernel("targets", call[r]), AllReduceInPlace("sum", "predicted_logits", call[r]),
         Kernel("sums", call[r]),    AllReduceInPlace("sum", "sum_exp_logits", call[r]),
         Kernel("losses", call[r])>>)]
  /\ Return(r)

RunKernel(r) ==
  \E e \in Running(r) :
    /\ e.op.kind = "kernel"
    /\ LET c == program[r][e.op.buffer]
       IN  \E undone \in SUBSET Endangered(c) :
             received' = [received EXCEPT ![r][e.op.buffer] =
                            Computed(e.op.name, c, r, @, undone)]
    /\ stream' = [stream EXCEPT ![r] = Tail(@)]
    /\ UNCHANGED <<program, call, step>>

\* class_center_sample: the ranks learn how many classes each has ...
ClassCenterSampleDims(r) ==
  /\ At(r, "class_center_sample", 0)
  /\ received' = [received EXCEPT ![r][call[r]] =
       [num_classes_per_device |-> ShardDims(Call(r), r)]]
  /\ stream' = IF NRanks > 1
               THEN [stream EXCEPT ![r] = Ungrouped(r,
                       <<AllReduceInPlace("sum", "num_classes_per_device", call[r])>>)]
               ELSE stream
  /\ Goto(r, 1)

\* ... and once the stream is done, each samples its own.
ClassCenterSampleKernel(r) ==
  /\ At(r, "class_center_sample", 1)
  /\ Drained(r)
  /\ \E random \in RandomSampleClassCenter(Call(r), r) :
       received' = [received EXCEPT ![r][call[r]] =
                      ClassCenters(Call(r), r, @.num_classes_per_device, random)]
  /\ Return(r)
  /\ UNCHANGED stream
-----------------------------------------------------------------------------
\* p_send of a tensor whose shape the peer does not know: send_shape_info ...
SendShapeSize(r) ==
  /\ At(r, "p_send", 0)
  /\ Call(r).dynamic
  /\ Post(r, <<Send(Call(r).peer, <<<<Len(Call(r).shape)>>>>, TRUE)>>)
  /\ Goto(r, 1)
  /\ UNCHANGED received

SendShape(r) ==
  /\ At(r, "p_send", 1)
  /\ Post(r, <<Send(Call(r).peer, [d \in DOMAIN Call(r).shape |-> <<Call(r).shape[d]>>], TRUE)>>)
  /\ Goto(r, 2)
  /\ UNCHANGED received

\* Mutant of PSend: send_shape_info does not wait before its tensors go.
PSendWithoutWait(r) ==
  /\ ~Finished(r) /\ Call(r).op = "p_send"
  /\ step[r] = IF Call(r).dynamic THEN 2 ELSE 0
  /\ Post(r, <<Send(Call(r).peer, Part(r, 0, Product(Call(r).shape)), FALSE)>>)
  /\ Return(r)
  /\ UNCHANGED received

\* ... waits, and the tensor follows.
PSend(r) ==
  /\ ~Finished(r) /\ Call(r).op = "p_send"
  /\ step[r] = IF Call(r).dynamic THEN 2 ELSE 0
  /\ Call(r).dynamic => Drained(r)
  /\ Post(r, <<Send(Call(r).peer, Part(r, 0, Product(Call(r).shape)), FALSE)>>)
  /\ Return(r)
  /\ UNCHANGED received

\* p_recv: recv_shape_info; buffer 0 holds its tensors.
RecvShapeSize(r) ==
  /\ At(r, "p_recv", 0)
  /\ Call(r).dynamic
  /\ Alloc(r, 0, 1)
  /\ Post(r, <<Recv(Call(r).peer, 0, 0, 1, TRUE)>>)
  /\ Goto(r, 1)

\* The copy to pageable host memory returns when it is done, which is after all
\* that is on the stream.
RecvShape(r) ==
  /\ At(r, "p_recv", 1)
  /\ Drained(r)
  /\ LET shape_size == received[r][0][1][1]
     IN  /\ Alloc(r, 0, shape_size)
         /\ Post(r, <<Recv(Call(r).peer, 0, 0, shape_size, TRUE)>>)
  /\ Goto(r, 2)

PRecv(r) ==
  /\ ~Finished(r) /\ Call(r).op = "p_recv"
  /\ step[r] = IF Call(r).dynamic THEN 2 ELSE 0
  /\ Call(r).dynamic => Drained(r)
  /\ LET shape == IF Call(r).dynamic THEN [d \in DOMAIN received[r][0] |-> received[r][0][d][1]]
                  ELSE Call(r).shape
     IN  /\ Alloc(r, call[r], Product(shape))
         /\ Post(r, <<Recv(Call(r).peer, call[r], 0, Product(shape), FALSE)>>)
  /\ Return(r)

\* The tensors of an array, one after the other; out_array's have their memory.
PSendArray(r, i) ==
  /\ At(r, "p_send_array", i)
  /\ LET numel == Call(r).numels
     IN  /\ Post(r, <<Send(Call(r).peer, Part(r, Sum(numel, i), numel[i]), FALSE)>>)
         /\ IF i + 1 < Call(r).tensors THEN Goto(r, i + 1) ELSE Return(r)
  /\ UNCHANGED received

PRecvArray(r, i) ==
  /\ At(r, "p_recv_array", i)
  /\ LET numel == Call(r).numels
     IN  /\ Post(r, <<Recv(Call(r).peer, call[r], Sum(numel, i), numel[i], FALSE)>>)
         /\ IF i = 0 THEN Alloc(r, call[r], Sum(numel, Call(r).tensors)) ELSE UNCHANGED received
         /\ IF i + 1 < Call(r).tensors THEN Goto(r, i + 1) ELSE Return(r)
-----------------------------------------------------------------------------
Host(r) ==
  \/ \E i \in 0..step[r] : GlobalScatter(r, i) \/ PSendArray(r, i) \/ PRecvArray(r, i)
  \/ AllToAll(r) \/ McclAll2All(r)
  \/ PartialAllGather(r) \/ CConcat(r) \/ CScatter(r) \/ CScatterCopied(r)
  \/ SendShapeSize(r) \/ SendShape(r) \/ PSend(r)
  \/ AllGatherKernel(r) \/ AllReduceKernel(r) \/ MpAllReduceSumKernel(r)
  \/ ReduceScatterKernel(r) \/ BroadcastKernel(r) \/ CSoftmax(r)
  \/ ClassCenterSampleDims(r) \/ ClassCenterSampleKernel(r)
  \/ RecvShapeSize(r) \/ RecvShape(r) \/ PRecv(r)

AllDone == \A r \in Rank : Finished(r) /\ Drained(r)

Next ==
  \/ \E r \in Rank : Host(r)
  \/ Progress /\ UNCHANGED <<program, call, step>>
  \/ \E r \in Rank : RunKernel(r)

Spec == Init /\ [][Next]_vars

\* Something that can run does: a host thread or MCCL.  A program is finite, so
\* this gives every rank its turn.
FairSpec == Spec /\ WF_vars(Next)
-----------------------------------------------------------------------------
\* Every pending receive lies within its buffer, and the program counters are
\* in range.
TypeOK ==
  /\ program \in Programs
  /\ \A r \in Rank :
       /\ call[r] \in 1..(Len(program[r]) + 1)
       /\ step[r] \in Nat
       /\ \A e \in Pending(r) :
            e.op.kind = "recv" =>
              /\ e.op.peer \in Rank
              /\ e.op.at + e.op.count <= Len(received[r][e.op.buffer])

\* A send and the receive it meets are of the same count, and so are the parts
\* of a gather or a reduction: MCCL would otherwise hang or write elsewhere.
CountsMatch ==
  /\ \A s, d \in Rank :
       \A out \in NextWith(s, "send", d), in \in NextWith(d, "recv", s) :
         Len(out.op.data) = in.op.count
  /\ \A kind \in {"all_gather", "all_reduce", "reduce_scatter", "broadcast"} :
       Meet(kind) => \A r, s \in Rank : Len(OpOf(r).data) = Len(OpOf(s).data)
  /\ Meet("all_reduce_in_place") =>
       \A r, s \in Rank : DOMAIN received[r][OpOf(r).buffer][OpOf(r).tensor]
                         = DOMAIN received[s][OpOf(s).buffer][OpOf(s).tensor]

\* The tensors that send_shape_info, recv_shape_info and c_scatter allocate for
\* themselves are not used on the stream once the function has returned.
TempsAlive ==
  \A r \in Rank : (\E e \in Pending(r) : e.op.temp) =>
    /\ ~Finished(r)
    /\ Call(r).op \in {"p_send", "p_recv", "c_scatter"}
    /\ step[r] > 0

\* What a call promises, from the definition of the operation.  global_scatter:
\* the rows of all ranks that are for r, by expert, rank and place in x.
ScatteredRows(c, r) ==
  FlattenSeq([i \in 1..c.experts |-> FlattenSeq([k \in 1..NRanks |->
    LET before == Sum(c.local[k - 1], (i - 1) + r * c.experts)
    IN  [e \in 1..c.local[k - 1][(i - 1) + r * c.experts] |-> <<k - 1, before + e - 1>>]])])

\* The n-th receive of r from s gets the n-th send of s to r.
SenderCall(r, c) ==
  LET s == program[r][c].peer
      before(k, n, peer, ops) ==
        Cardinality({m \in 1..n : program[k][m].op \in ops /\ program[k][m].peer = peer})
  IN  CHOOSE k \in DOMAIN program[s] :
        /\ program[s][k].op \in {"p_send", "p_send_array"}
        /\ program[s][k].peer = r
        /\ before(s, k, r, {"p_send", "p_send_array"})
             = before(r, c, s, {"p_recv", "p_recv_array"})

\* The loss and softmax of rows whose classes are those of all ranks.
CrossEntropy(r, c) ==
  LET x == program[r][c]
      n == Len(x.logits[r][1])
      row(i) == FlattenSeq([k \in 1..NRanks |-> x.logits[k - 1][i]])
      less(i) == [d \in DOMAIN row(i) |-> row(i)[d] - Max(Range(row(i)))]
      sum(i) == Total([d \in DOMAIN less(i) |-> Exp(less(i)[d])])
      term(i, j) == IF x.label[i][j] = x.ignore_index THEN <<>>
                    ELSE <<<<IF OneLabel(x) THEN 1 ELSE x.smooth_weight[i][j],
                             sum(i), less(i)[x.label[i][j] + 1]>>>>
      terms(i) == [j \in DOMAIN x.label[i] |-> term(i, j)]
  IN  [softmax |-> [i \in DOMAIN x.label |->
                      [d \in 1..n |-> <<Exp(less(i)[r * n + d]), sum(i)>>]],
       loss |-> IF OneLabel(x) \/ x.sum_multi_label_loss
                THEN [i \in DOMAIN x.label |-> FlattenSeq(terms(i))]
                ELSE FlattenSeq([i \in DOMAIN x.label |-> terms(i)])]

\* The renumbered labels are the places of their classes among the samples of all
\* ranks; every rank with few enough of them, and the first one always, has all.
\* Known once all ranks have returned.
LabelsFound(r, c) ==
  LET x == program[r][c]
      sampled(j) == received[j][c].sampled_local_class_center
      first(j) == Sum([k \in Rank |-> x.num_classes[k]], j)
      home(label) == CHOOSE j \in Rank : label \in first(j)..(first(j + 1) - 1)
      labelsOf(j) == {label \in Range(x.label) : home(label) = j}
      covered(j) == j = 0 \/ Cardinality(labelsOf(j)) <= x.num_samples
  IN  (\A s \in Rank : call[s] > c) =>
        /\ Len(sampled(r)) >= x.num_samples
        /\ IsInjective(SubSeq(sampled(r), 1, x.num_samples))
        /\ \A k \in DOMAIN x.label :
             LET j == home(x.label[k])
                 place == received[r][c].remapped_label[k]
                          - Sum([s \in Rank |-> Len(sampled(s))], j) + 1
             IN  covered(j) => /\ place \in DOMAIN sampled(j)
                               /\ sampled(j)[place] = x.label[k] - first(j)

Promised(r, c) ==
  LET x == program[r][c]
      sent(k) == [e \in 1..k |-> <<x.peer, SenderCall(r, c), e - 1>>]
      part == x.numel \div NRanks
      gathered == FlattenSeq([s \in 1..NRanks |-> [k \in 1..x.numel |-> <<s - 1, c, k - 1>>]])
      reduced(how, first, numel) ==
        [k \in 1..numel |-> <<how, {<<s, c, first + k - 1>> : s \in Rank}>>]
  IN  CASE x.op = "global_scatter" ->
             LET rows == ScatteredRows(x, r)
             IN  [k \in DOMAIN rows |-> <<rows[k][1], c, rows[k][2]>>]
        [] x.op = "all2all" ->
             FlattenSeq([k \in 1..NRanks |->
               [e \in 1..x.count[k - 1][r] |->
                  <<k - 1, c, Sum(x.count[k - 1], r) + e - 1>>]])
        [] x.op = "all_to_all" ->
             [k \in 1..x.numel |-> <<(k - 1) \div part, c, r * part + ((k - 1) % part)>>]
        [] x.op = "partial_allgather" ->
             [k \in 1..x.numel |-> <<(k - 1) \div part, c, k - 1>>]
        [] x.op = "c_concat" ->
             FlattenSeq([row \in 1..x.rows |-> FlattenSeq([k \in 1..NRanks |->
               [col \in 1..x.cols |-> <<k - 1, c, (row - 1) * x.cols + col - 1>>]])])
        [] x.op = "all_gather" -> IF x.type \in McclDataType THEN gathered ELSE Fresh(Len(gathered))
        [] x.op = "all_reduce" ->
             IF x.type \in McclDataType /\ x.how \in McclReduceOp
             THEN reduced(x.how, 0, x.numel) ELSE Fresh(x.numel)
        [] x.op = "mp_allreduce_sum" -> reduced("sum", 0, x.numel)
        [] x.op = "reduce_scatter" -> reduced("sum", r * part, part)
        [] x.op = "broadcast" -> [k \in 1..x.numel |-> <<x.root, c, k - 1>>]
        [] x.op = "c_scatter" -> [k \in 1..part |-> <<x.root, c, r * part + k - 1>>]
        [] x.op = "p_recv" -> sent(Product(program[x.peer][SenderCall(r, c)].shape))
        [] x.op = "p_recv_array" -> sent(Sum(x.numels, x.tensors))
        [] OTHER -> <<>>

\* When a call has returned and the stream is through with its tensor, the
\* tensor holds what the operation promises, whichever calls the other ranks
\* are in.
Delivered ==
  \A r \in Rank : \A c \in 1..(call[r] - 1) :
    (\A e \in Pending(r) : e.op.kind = "send" \/ e.op.buffer # c)
      => CASE program[r][c].op \in CrossEntropies ->
                received[r][c].softmax = CrossEntropy(r, c).softmax
                /\ received[r][c].loss = CrossEntropy(r, c).loss
           [] program[r][c].op = "class_center_sample" -> LabelsFound(r, c)
           [] OTHER -> received[r][c] = Promised(r, c)

\* No order of the ranks' steps makes them wait for each other.
AllCallsComplete == <>AllDone
=============================================================================
