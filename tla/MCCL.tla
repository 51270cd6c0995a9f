---------------------------------- MODULE MCCL ----------------------------------
(***************************************************************************)
(* What runtime/mccl_handler.cc hands its calls to: the ranks of one       *)
(* communicator and the stream that each launches its groups on.  Outside  *)
(* the repository; modelled with the promises NCCL and its likes make and  *)
(* no more: the operations of a group run in any order but those between   *)
(* the same two ranks in the order of the calls, a group starts when the   *)
(* one before it on the stream has ended, nothing is buffered, so that a   *)
(* send waits for its receive, and a collective waits for all ranks.       *)
(***************************************************************************)
EXTENDS Integers, SequencesExt

CONSTANTS NRanks,    \* ranks of the communicator
          Unwritten  \* content of fresh device memory

ASSUME NRanksAssumption == NRanks \in Nat \ {0}

Rank == 0..(NRanks - 1)

VARIABLES
  stream,   \* per rank: the launched groups, sets of numbered operations
  received  \* per rank and buffer: the device memory that is received into

mcclVars == <<stream, received>>
-----------------------------------------------------------------------------
Send(peer, data, temp) ==
  [kind |-> "send", peer |-> peer, data |-> data, temp |-> temp]
Recv(peer, buffer, at, count, temp) ==
  [kind |-> "recv", peer |-> peer, buffer |-> buffer, at |-> at, count |-> count, temp |-> temp]
AllGather(data, buffer) ==
  [kind |-> "all_gather", data |-> data, buffer |-> buffer, temp |-> FALSE]
Broadcast(root, data, buffer, temp) ==
  [kind |-> "broadcast", peer |-> root, data |-> data, buffer |-> buffer, temp |-> temp]
\* The result is <<how, elements>>, one for each index.
AllReduce(how, data, buffer) ==
  [kind |-> "all_reduce", how |-> how, data |-> data, buffer |-> buffer, temp |-> FALSE]
ReduceScatter(how, data, buffer) ==
  [kind |-> "reduce_scatter", how |-> how, data |-> data, buffer |-> buffer, temp |-> FALSE]
\* Of numbers that earlier operations of the stream left in a tensor of the buffer.
AllReduceInPlace(how, tensor, buffer) ==
  [kind |-> "all_reduce_in_place", how |-> how, tensor |-> tensor, buffer |-> buffer,
   temp |-> FALSE]
\* Kernels of the rank's own on the tensors of a buffer.
Kernel(name, buffer) == [kind |-> "kernel", name |-> name, buffer |-> buffer, temp |-> FALSE]
\* A kernel or copy of the rank's own, which rearranges a buffer.
Rearrange(buffer, from, temp) ==
  [kind |-> "rearrange", buffer |-> buffer, from |-> from, temp |-> temp]

\* GroupStart, the calls, GroupEnd; a call outside a group is a group by itself.
Launched(r, ops) ==
  IF ops = <<>> THEN stream[r]
  ELSE Append(stream[r], {[n |-> n, op |-> ops[n]] : n \in DOMAIN ops})

\* Each call is outside a group.
Ungrouped(r, ops) == stream[r] \o [n \in DOMAIN ops |-> {[n |-> 1, op |-> ops[n]]}]

\* PDDataType2McclDataType and PDReduceOp2McclReduceOp raise on all others.
McclDataType == {"uint8", "uint32", "uint64", "int8", "int32", "int64",
                 "float16", "float32", "float64", "bfloat16", "bool"}
McclReduceOp == {"min", "max", "sum", "product", "avg"}

Fresh(numel) == [k \in 1..numel |-> Unwritten]

Drained(r) == stream[r] = <<>>
Running(r) == IF Drained(r) THEN {} ELSE Head(stream[r])
Pending(r) == UNION ToSet(stream[r])

\* The next operation of r between r and its peer, as a set of at most one.
NextWith(r, kind, peer) ==
  LET mine == {e \in Running(r) : e.op.kind = kind /\ e.op.peer = peer}
  IN  {e \in mine : \A f \in mine : e.n <= f.n}

Without(groups, done) ==
  LET rest == Head(groups) \ done
  IN  IF rest = {} THEN Tail(groups) ELSE <<rest>> \o Tail(groups)

Write(buffer, at, data) ==
  [k \in DOMAIN buffer |-> IF k \in (at + 1)..(at + Len(data)) THEN data[k - at] ELSE buffer[k]]

\* A send meets its receive.
Transfer(s, d) ==
  \E out \in NextWith(s, "send", d), in \in NextWith(d, "recv", s) :
    /\ Len(out.op.data) = in.op.count
    /\ received' = [received EXCEPT ![d][in.op.buffer] = Write(@, in.op.at, out.op.data)]
    /\ stream' = [r \in Rank |->
                    IF r \notin {s, d} THEN stream[r]
                    ELSE Without(stream[r], (IF r = s THEN {out} ELSE {})
                                            \cup (IF r = d THEN {in} ELSE {}))]

\* All ranks have reached the collective.
Meet(kind) == \A r \in Rank : \E e \in Running(r) : e.op.kind = kind
OpOf(r) == (CHOOSE e \in Running(r) : TRUE).op

RunAllGather ==
  /\ Meet("all_gather")
  /\ received' = [r \in Rank |-> [received[r] EXCEPT ![OpOf(r).buffer] =
                    FlattenSeq([k \in 1..NRanks |-> OpOf(k - 1).data])]]
  /\ stream' = [r \in Rank |-> Tail(stream[r])]

RunBroadcast ==
  /\ Meet("broadcast")
  /\ received' = [r \in Rank |-> [received[r] EXCEPT ![OpOf(r).buffer] =
                    OpOf(OpOf(r).peer).data]]
  /\ stream' = [r \in Rank |-> Tail(stream[r])]

RunAllReduce ==
  /\ Meet("all_reduce")
  /\ received' = [r \in Rank |-> [received[r] EXCEPT ![OpOf(r).buffer] =
                    [k \in DOMAIN OpOf(r).data |->
                       <<OpOf(r).how, {OpOf(s).data[k] : s \in Rank}>>]]]
  /\ stream' = [r \in Rank |-> Tail(stream[r])]

RunReduceScatter ==
  /\ Meet("reduce_scatter")
  /\ received' = [r \in Rank |->
       LET n == Len(OpOf(r).data) \div NRanks
       IN  [received[r] EXCEPT ![OpOf(r).buffer] =
              [k \in 1..n |-> <<OpOf(r).how, {OpOf(s).data[n * r + k] : s \in Rank}>>]]]
  /\ stream' = [r \in Rank |-> Tail(stream[r])]

Reduced(how, values) ==
  CASE how = "max" -> Max(Range(values))
    [] how = "sum" -> FoldFunction(+, 0, values)

RunAllReduceInPlace ==
  /\ Meet("all_reduce_in_place")
  /\ LET mine(r) == received[r][OpOf(r).buffer][OpOf(r).tensor]
     IN  received' = [r \in Rank |->
           [received[r] EXCEPT ![OpOf(r).buffer][OpOf(r).tensor] =
              [k \in DOMAIN mine(r) |-> Reduced(OpOf(r).how, [s \in Rank |-> mine(s)[k]])]]]
  /\ stream' = [r \in Rank |-> Tail(stream[r])]

RunRearrange(r) ==
  \E e \in Running(r) :
    /\ e.op.kind = "rearrange"
    /\ received' = [received EXCEPT ![r][e.op.buffer] =
                      [k \in DOMAIN e.op.from |-> @[e.op.from[k]]]]
    /\ stream' = [stream EXCEPT ![r] = Tail(@)]

Progress ==
  \/ \E s, d \in Rank : Transfer(s, d)
  \/ RunAllGather
  \/ RunBroadcast
  \/ RunAllReduce
  \/ RunReduceScatter
  \/ RunAllReduceInPlace
  \/ \E r \in Rank : RunRearrange(r)
=============================================================================
